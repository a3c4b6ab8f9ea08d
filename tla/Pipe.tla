-------------------------------- MODULE Pipe --------------------------------
(***************************************************************************)
(* kernel/pipe.c: one pipe, the processes that share its two ends, and the *)
(* parts of proc.c it stands on: sleep, wakeup and kill.                   *)
(*                                                                         *)
(* A process holds pi->lock from acquire to release or sleep, so the steps *)
(* below are cut where another process can be observed: at each acquire,   *)
(* at each byte (kill needs no pi->lock, and pr->killed is read once per   *)
(* byte), and between the decision to sleep and sleep's acquire of         *)
(* p->lock.  Bytes are named by their place in the stream.                 *)
(*                                                                         *)
(* Clients: a process whose read returns 0 or -1, or whose write returns   *)
(* less than it asked for, makes no further call and closes its end; a     *)
(* killed process exits when it is back in user space, which closes its    *)
(* end too.                                                                *)
(***************************************************************************)
EXTENDS Integers

CONSTANTS
  Writers, Readers,        \* the processes that hold the write, the read end
  PipeSize,                \* PIPESIZE
  Laps,                    \* 2^32 \div PIPESIZE: nread and nwrite are uints
  WriteSizes, ReadSizes,   \* the values of n in write and read
  Killable,                \* the processes some other process may kill
  MaxBytes,                \* bound: no write starts that would exceed it
  NoProc                   \* nobody holds the lock

ASSUME ProcAssumption ==
  /\ Writers \cap Readers = {} /\ NoProc \notin Writers \cup Readers
  /\ Killable \subseteq Writers \cup Readers

ASSUME SizeAssumption == PipeSize \in Nat \ {0} /\ Laps \in Nat /\ Laps >= 2

ASSUME RequestAssumption == WriteSizes \subseteq Nat /\ ReadSizes \subseteq Nat

ASSUME BoundAssumption == MaxBytes \in Nat

VARIABLES
  pi,                            \* "none", "live", "freed" or "failed"
  lock,                          \* the holder of pi->lock
  data, nread, nwrite,           \* struct pipe
  readopen, writeopen,
  pc, n, i,                      \* per process: where it is, its arguments
  killed,
  wTotal, rTotal                 \* history: bytes ever written and read

pipe == <<data, nread, nwrite>>
open == <<readopen, writeopen>>
total == <<wTotal, rTotal>>
vars == <<pi, lock, pipe, open, pc, n, i, killed, total>>

Procs == Writers \cup Readers
Word == PipeSize * Laps

\* A process inside its critical section on pi->lock.
Critical == {"loop", "copy", "tosleep"}
\* A process inside pipewrite or piperead.
InCall == Critical \cup {"acquire", "asleep"}
\* A process that still has a reference to its struct file.
HasFile == InCall \cup {"idle", "done"}

Empty == nread = nwrite
Full == nwrite = (nread + PipeSize) % Word

\* wakeup(chan), where ps are the processes that sleep on chan: on nread
\* the readers, on nwrite the writers.  They go on to reacquire pi->lock.
wakeup(ps) == [p \in Procs |-> IF p \in ps /\ pc[p] = "asleep" THEN "acquire" ELSE pc[p]]

Init ==
  /\ pi = "none" /\ lock = NoProc
  /\ data = [s \in 0..PipeSize-1 |-> -1] /\ nread = 0 /\ nwrite = 0
  /\ readopen = 0 /\ writeopen = 0
  /\ pc = [p \in Procs |-> "nofile"]
  /\ n = [p \in Procs |-> 0] /\ i = [p \in Procs |-> 0]
  /\ killed = [p \in Procs |-> FALSE]
  /\ wTotal = 0 /\ rTotal = 0

\* pipealloc, followed by the forks that hand the ends to all processes.
PipeAlloc ==
  /\ pi = "none"
  /\ pi' = "live"
  /\ readopen' = 1 /\ writeopen' = 1
  /\ nread' = 0 /\ nwrite' = 0
  /\ pc' = [p \in Procs |-> "idle"]
  /\ UNCHANGED <<lock, data, n, i, killed, total>>

\* No struct file or no page is left: pipealloc undoes what it did.
PipeAllocBad ==
  /\ pi = "none"
  /\ pi' = "failed"
  /\ UNCHANGED <<lock, pipe, open, pc, n, i, killed, total>>

\* acquire(&pi->lock), on entry and when sleep returns.
Acquire(p) ==
  /\ pc[p] = "acquire"
  /\ lock = NoProc
  /\ lock' = p
  /\ pc' = [pc EXCEPT ![p] = "loop"]
  /\ UNCHANGED <<pi, pipe, open, n, i, killed, total>>

\* sleep(chan, &pi->lock) of a process that has decided to sleep: it takes
\* p->lock, releases pi->lock and is SLEEPING, seen by wakeup and kill as one.
Sleep(p) ==
  /\ pc[p] = "tosleep"
  /\ lock' = NoProc
  /\ pc' = [pc EXCEPT ![p] = "asleep"]
  /\ UNCHANGED <<pi, pipe, open, n, i, killed, total>>

\* kill(pid): a victim that is SLEEPING becomes RUNNABLE.  A victim that
\* has closed its end is of no concern here.
Kill(p) ==
  /\ p \in Killable
  /\ pc[p] \in HasFile /\ ~killed[p]
  /\ killed' = [killed EXCEPT ![p] = TRUE]
  /\ pc' = wakeup({p})
  /\ UNCHANGED <<pi, lock, pipe, open, n, i, total>>

-----------------------------------------------------------------------------
\* pipewrite.

WriteCall(p) ==
  /\ pc[p] = "idle" /\ ~killed[p]
  /\ \E k \in WriteSizes :
       /\ wTotal + k <= MaxBytes
       /\ n' = [n EXCEPT ![p] = k]
  /\ i' = [i EXCEPT ![p] = 0]
  /\ pc' = [pc EXCEPT ![p] = "acquire"]
  /\ UNCHANGED <<pi, lock, pipe, open, killed, total>>

\* Mutant of WriteGivesUp: a closed read end goes unnoticed.
WriteGivesUpKilled(p) == killed[p]

WriteGivesUp(p) == readopen = 0 \/ killed[p]

WriteAbort(p) ==
  /\ pc[p] = "loop" /\ i[p] < n[p]
  /\ WriteGivesUp(p)
  /\ lock' = NoProc
  /\ pc' = [pc EXCEPT ![p] = "done"]
  /\ UNCHANGED <<pi, pipe, open, n, i, killed, total>>

WriteFull(p) ==
  /\ pc[p] = "loop" /\ i[p] < n[p]
  /\ ~WriteGivesUp(p) /\ Full
  /\ pc' = [wakeup(Readers) EXCEPT ![p] = "tosleep"]
  /\ UNCHANGED <<pi, lock, pipe, open, n, i, killed, total>>

WriteByte(p) ==
  /\ pc[p] = "loop" /\ i[p] < n[p]
  /\ ~WriteGivesUp(p) /\ ~Full
  /\ data' = [data EXCEPT ![nwrite % PipeSize] = wTotal]
  /\ nwrite' = (nwrite + 1) % Word
  /\ wTotal' = wTotal + 1
  /\ i' = [i EXCEPT ![p] = @ + 1]
  /\ UNCHANGED <<pi, lock, nread, open, pc, n, killed, rTotal>>

\* The loop ends, because all is written or because copyin fails.
WriteReturn(p) ==
  /\ pc[p] = "loop"
  /\ i[p] = n[p] \/ (~WriteGivesUp(p) /\ ~Full)
  /\ lock' = NoProc
  /\ pc' = [wakeup(Readers) EXCEPT ![p] = IF i[p] < n[p] THEN "done" ELSE "idle"]
  /\ UNCHANGED <<pi, pipe, open, n, i, killed, total>>

-----------------------------------------------------------------------------
\* piperead.

ReadCall(p) ==
  /\ pc[p] = "idle" /\ ~killed[p]
  /\ \E k \in ReadSizes : n' = [n EXCEPT ![p] = k]
  /\ i' = [i EXCEPT ![p] = 0]
  /\ pc' = [pc EXCEPT ![p] = "acquire"]
  /\ UNCHANGED <<pi, lock, pipe, open, killed, total>>

ReadAbort(p) ==
  /\ pc[p] = "loop"
  /\ Empty /\ writeopen = 1 /\ killed[p]
  /\ lock' = NoProc
  /\ pc' = [pc EXCEPT ![p] = "done"]
  /\ UNCHANGED <<pi, pipe, open, n, i, killed, total>>

ReadWait(p) ==
  /\ pc[p] = "loop"
  /\ Empty /\ writeopen = 1 /\ ~killed[p]
  /\ pc' = [pc EXCEPT ![p] = "tosleep"]
  /\ UNCHANGED <<pi, lock, pipe, open, n, i, killed, total>>

ReadStart(p) ==
  /\ pc[p] = "loop"
  /\ ~(Empty /\ writeopen = 1)
  /\ pc' = [pc EXCEPT ![p] = "copy"]
  /\ UNCHANGED <<pi, lock, pipe, open, n, i, killed, total>>

ReadByte(p) ==
  /\ pc[p] = "copy" /\ i[p] < n[p]
  /\ ~Empty
  /\ nread' = (nread + 1) % Word
  /\ rTotal' = rTotal + 1
  /\ i' = [i EXCEPT ![p] = @ + 1]
  /\ UNCHANGED <<pi, lock, data, nwrite, open, pc, n, killed, wTotal>>

\* Mutant of ReadEnds: the wakeup is missing.
ReadEndsSilent(p) ==
  /\ lock' = NoProc
  /\ pc' = [pc EXCEPT ![p] = IF i[p] = 0 /\ n[p] > 0 THEN "done" ELSE "idle"]

\* The common end of piperead: a client that got nothing stops.
ReadEnds(p) ==
  /\ lock' = NoProc
  /\ pc' = [wakeup(Writers) EXCEPT ![p] = IF i[p] = 0 /\ n[p] > 0 THEN "done" ELSE "idle"]

ReadReturn(p) ==
  /\ pc[p] = "copy"
  /\ i[p] = n[p] \/ Empty
  /\ ReadEnds(p)
  /\ UNCHANGED <<pi, pipe, open, n, i, killed, total>>

\* copyout fails: the byte has left the pipe and is not counted in i.
ReadFault(p) ==
  /\ pc[p] = "copy" /\ i[p] < n[p]
  /\ ~Empty
  /\ nread' = (nread + 1) % Word
  /\ rTotal' = rTotal + 1
  /\ ReadEnds(p)
  /\ UNCHANGED <<pi, data, nwrite, open, n, i, killed, wTotal>>

-----------------------------------------------------------------------------
\* fileclose drops a reference of the struct file of p's end; the last one
\* goes on to pipeclose, which acquires pi->lock.

EndOf(p) == IF p \in Writers THEN Writers ELSE Readers

FileClose(p) ==
  /\ pc[p] \in {"idle", "done"}
  /\ pc' = [pc EXCEPT ![p] = IF \E q \in EndOf(p) \ {p} : pc[q] \in HasFile
                             THEN "closed" ELSE "closing"]
  /\ UNCHANGED <<pi, lock, pipe, open, n, i, killed, total>>

\* Mutant of PipeClose: either end frees the pipe.
PipeCloseEager(p) ==
  /\ pc[p] = "closing"
  /\ lock = NoProc
  /\ writeopen' = IF p \in Writers THEN 0 ELSE writeopen
  /\ readopen' = IF p \in Readers THEN 0 ELSE readopen
  /\ pc' = [wakeup(IF p \in Writers THEN Readers ELSE Writers) EXCEPT ![p] = "closed"]
  /\ pi' = IF readopen' = 0 \/ writeopen' = 0 THEN "freed" ELSE pi
  /\ UNCHANGED <<lock, pipe, n, i, killed, total>>

\* Mutant of PipeClose: the wakeup is missing.
PipeCloseSilent(p) ==
  /\ pc[p] = "closing"
  /\ lock = NoProc
  /\ writeopen' = IF p \in Writers THEN 0 ELSE writeopen
  /\ readopen' = IF p \in Readers THEN 0 ELSE readopen
  /\ pc' = [pc EXCEPT ![p] = "closed"]
  /\ pi' = IF readopen' = 0 /\ writeopen' = 0 THEN "freed" ELSE pi
  /\ UNCHANGED <<lock, pipe, n, i, killed, total>>

PipeClose(p) ==
  /\ pc[p] = "closing"
  /\ lock = NoProc
  /\ writeopen' = IF p \in Writers THEN 0 ELSE writeopen
  /\ readopen' = IF p \in Readers THEN 0 ELSE readopen
  /\ pc' = [wakeup(IF p \in Writers THEN Readers ELSE Writers) EXCEPT ![p] = "closed"]
  /\ pi' = IF readopen' = 0 /\ writeopen' = 0 THEN "freed" ELSE pi
  /\ UNCHANGED <<lock, pipe, n, i, killed, total>>

-----------------------------------------------------------------------------
\* Steps of the kernel on behalf of p, once p has entered it.
KernelStep(p) ==
  \/ Acquire(p) \/ Sleep(p) \/ PipeClose(p)
  \/ p \in Writers /\ (WriteAbort(p) \/ WriteFull(p) \/ WriteByte(p) \/ WriteReturn(p))
  \/ p \in Readers /\ (\/ ReadAbort(p) \/ ReadWait(p) \/ ReadStart(p)
                       \/ ReadByte(p) \/ ReadReturn(p) \/ ReadFault(p))

\* Steps p takes of its own accord, in user space.
UserStep(p) ==
  \/ p \in Writers /\ WriteCall(p)
  \/ p \in Readers /\ ReadCall(p)
  \/ FileClose(p)

Terminated ==
  /\ pi \in {"freed", "failed"}
  /\ UNCHANGED vars

Next ==
  \/ PipeAlloc \/ PipeAllocBad \/ Terminated
  \/ \E p \in Procs : KernelStep(p) \/ UserStep(p) \/ Kill(p)

Safe == Init /\ [][Next]_vars

\* The kernel runs every process that can run.
KernelFair == \A p \in Procs : WF_vars(KernelStep(p))

\* Besides, no program stops for ever with the pipe open: it makes its next
\* call, or closes its end.
ClientFair == \A p \in Procs : WF_vars(UserStep(p))

Spec == Safe /\ KernelFair /\ ClientFair
-----------------------------------------------------------------------------
\* Properties.

PCs == HasFile \cup {"nofile", "closing", "closed"}

\* The counters are uints, the lock has one holder, the flags are flags.
TypeOK ==
  /\ pi \in {"none", "live", "freed", "failed"}
  /\ lock \in Procs \cup {NoProc}
  /\ data \in [0..PipeSize-1 -> Nat \cup {-1}]
  /\ nread \in 0..Word-1 /\ nwrite \in 0..Word-1
  /\ readopen \in {0, 1} /\ writeopen \in {0, 1}
  /\ pc \in [Procs -> PCs]
  /\ n \in [Procs -> Nat] /\ i \in [Procs -> Nat]
  /\ killed \in [Procs -> BOOLEAN]
  /\ wTotal \in Nat /\ rTotal \in Nat

\* pi->data between nread and nwrite holds exactly the bytes written and not
\* yet read, in the order written, also when the uint counters have wrapped
\* (pipewrite and piperead by several processes on each end).
BytesInOrder ==
  /\ rTotal <= wTotal /\ wTotal <= rTotal + PipeSize
  /\ nread = rTotal % Word /\ nwrite = wTotal % Word
  /\ \A k \in rTotal..wTotal-1 : data[k % PipeSize] = k

\* Between acquire and release or sleep a process is alone with the pipe.
MutualExclusion == \A p \in Procs : pc[p] \in Critical <=> lock = p

\* pipeclose frees the page only when nobody can touch the pipe any more:
\* no process is in, or on its way into, pipewrite, piperead or pipeclose.
NoUseAfterFree ==
  pi = "freed" => lock = NoProc /\ \A p \in Procs : pc[p] = "closed"

\* A writer sleeps only while the pipe is full and somebody may still read,
\* or while a reader that will wake it is in its critical section.
WriterNotForgotten ==
  \A w \in Writers : pc[w] = "asleep" =>
    (Full /\ readopen = 1) \/ (lock \in Readers /\ pc[lock] = "copy")

\* A reader sleeps only while the pipe is empty and somebody may still
\* write, or while a writer that will wake it is in its critical section;
\* the exception is a writer killed in the middle of a write, which returns
\* without a wakeup.
ReaderNotForgotten ==
  \A r \in Readers : pc[r] = "asleep" =>
    \/ Empty /\ writeopen = 1
    \/ lock \in Writers
    \/ \E w \in Writers : killed[w]

\* No wakeup of pipewrite, piperead or pipeclose falls between another
\* process's decision to sleep and its sleep.
SleepersNotForgotten == WriterNotForgotten /\ ReaderNotForgotten

\* Every read, write and close of the pipe returns, as long as the programs
\* on both ends go on reading, writing or closing.
CallsReturn == \A p \in Procs : pc[p] \in InCall ~> pc[p] \notin InCall
=============================================================================

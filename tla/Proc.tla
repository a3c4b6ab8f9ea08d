-------------------------------- MODULE Proc --------------------------------
(***************************************************************************)
(* Processes, the scheduler, sleep and wakeup, and the spinlocks below     *)
(* them: kernel/proc.c, spinlock.c, trap.c and the process system calls of *)
(* sysproc.c.  A step runs from one point at which another CPU can act to  *)
(* the next: it takes the locks it waits for and may release some, and     *)
(* every acquire and release goes through push_off and pop_off.            *)
(*                                                                         *)
(* Locks and sleep channels are numbers: p->lock and the channel p are p.  *)
(* Scans of the table are one step: allocproc takes the first free slot,   *)
(* the scheduler runs some RUNNABLE process, wakeup waits until no other   *)
(* CPU holds a process lock.  Files, directories and memory of a process   *)
(* are in other modules.                                                   *)
(***************************************************************************)
EXTENDS Naturals, FiniteSets

CONSTANTS NPROC,    \* size of the process table
          NCPU,     \* CPUs 1..NCPU; CPU 1 is hart 0, which counts the ticks
          MaxPid,   \* bound: pids handed out
          TickMod,  \* ticks is a counter modulo this
          Naps      \* arguments of the sleep system call

ASSUME ProcAssumption ==
  /\ NPROC \in Nat \ {0} /\ NCPU \in Nat \ {0} /\ MaxPid \in Nat \ {0}
  /\ TickMod \in Nat \ {0} /\ Naps \subseteq 1..TickMod

VARIABLES proc,     \* the table: state, chan, killed, pid, parent
          cpu,      \* per CPU: proc, noff, intena, and whether interrupts are on
          lock,     \* the CPU that holds each spinlock
          pc, loc,  \* per process: where its kernel thread is, and its locals
          tick,     \* hart 0 is in clockintr, holding tickslock
          ticks, nextpid, panicked

vars == <<proc, cpu, lock, pc, loc, tick, ticks, nextpid, panicked>>

P == 1..NPROC
CPUs == 1..NCPU
Nobody == 0
initproc == 1
wait_lock == NPROC + 1
tickslock == NPROC + 2
Locks == 1..(NPROC + 2)
TicksChan == tickslock

ProcStruct ==
  [state : {"UNUSED", "USED", "SLEEPING", "RUNNABLE", "RUNNING", "ZOMBIE"}, chan : 0..(NPROC + 2),
   killed : BOOLEAN, pid : 0..MaxPid, parent : 0..NPROC]
CpuStruct == [proc : 0..NPROC, noff : 0..3, intena : BOOLEAN, intr : BOOLEAN]

FreeProc == [state |-> "UNUSED", chan |-> 0, killed |-> FALSE, pid |-> 0, parent |-> Nobody]
NoLocals == [lk |-> 0, back |-> "user", arg |-> 0, n |-> 0, intena |-> FALSE]

\* procinit and userinit: the first process is RUNNABLE, every CPU is in scheduler.
Init ==
  /\ proc = [p \in P |-> IF p = initproc
                         THEN [FreeProc EXCEPT !.state = "RUNNABLE", !.pid = 1] ELSE FreeProc]
  /\ cpu = [c \in CPUs |-> [proc |-> Nobody, noff |-> 0, intena |-> FALSE, intr |-> TRUE]]
  /\ lock = [l \in Locks |-> Nobody]
  /\ pc = [p \in P |-> "forkret"]
  /\ loc = [p \in P |-> NoLocals]
  /\ tick = FALSE /\ ticks = 0 /\ nextpid = 2 /\ panicked = FALSE

-----------------------------------------------------------------------------
(* spinlock.c, on the record of one CPU and on the table of locks.         *)

\* Mutant of push_off: every push_off records intena, not only the outermost.
push_offAlways(k) == [k EXCEPT !.noff = @ + 1, !.intena = k.intr, !.intr = FALSE]

push_off(k) ==
  [k EXCEPT !.noff = @ + 1, !.intena = IF k.noff = 0 THEN k.intr ELSE @, !.intr = FALSE]

pop_off(k) ==
  [k EXCEPT !.noff = @ - 1, !.intr = IF k.noff = 1 /\ k.intena THEN TRUE ELSE @]

Free(l) == lock[l] = Nobody
Set(c, k) == cpu' = [cpu EXCEPT ![c] = k]
acquire(c, l) == lock' = [lock EXCEPT ![l] = c] /\ Set(c, push_off(cpu[c]))
release(c, l) == lock' = [lock EXCEPT ![l] = Nobody] /\ Set(c, pop_off(cpu[c]))
\* A critical section that begins and ends within the step.
within(c) == UNCHANGED lock /\ Set(c, pop_off(push_off(cpu[c])))

-----------------------------------------------------------------------------
At(c, p, l) == cpu[c].proc = p /\ pc[p] = l /\ ~(c = 1 /\ tick)
Goto(p, l) == pc' = [pc EXCEPT ![p] = l]
Others == UNCHANGED <<tick, ticks, nextpid, panicked>>

\* usertrap enters the system call of a process that has not been killed, and
\* sends one that has to exit, at the entry, where interrupts are still off, and
\* again before the return, where a system call has them on.
Syscall(c, p) == At(c, p, "user") /\ ~proc[p].killed

usertrapKilled(c, p) ==
  /\ At(c, p, "user") /\ proc[p].killed
  /\ \E on \in BOOLEAN : Set(c, [cpu[c] EXCEPT !.intr = on])
  /\ Goto(p, "exit") /\ UNCHANGED <<proc, lock, loc>> /\ Others

\* A trap that is neither a system call nor an interrupt kills the process.
usertrapFault(c, p) ==
  /\ At(c, p, "user")
  /\ proc' = [proc EXCEPT ![p].killed = TRUE]
  /\ Set(c, [cpu[c] EXCEPT !.intr = FALSE])
  /\ Goto(p, "exit") /\ UNCHANGED <<lock, loc>> /\ Others

\* usertrapret leaves the system call with the CPU as k: user code runs with
\* interrupts on.  Leave releases the last lock first.
usertrapret(c, p, k) ==
  Goto(p, "user") /\ loc' = [loc EXCEPT ![p] = NoLocals] /\ Set(c, [k EXCEPT !.intr = TRUE])

Leave(c, p, l) ==
  lock' = [lock EXCEPT ![l] = Nobody] /\ usertrapret(c, p, pop_off(cpu[c]))

-----------------------------------------------------------------------------
(* wakeup examines every other slot under its lock.                        *)
ProcLocksFree(q) == \A p \in P \ {q} : Free(p)

wakeup(table, chan) ==
  [p \in P |-> IF table[p].state = "SLEEPING" /\ table[p].chan = chan
               THEN [table[p] EXCEPT !.state = "RUNNABLE"] ELSE table[p]]

-----------------------------------------------------------------------------
(* fork and allocproc.  The child's fields up to its pid are written with  *)
(* its lock held; its parent and its state follow in two further sections. *)
allocproc(np) == proc[np].state = "UNUSED" /\ \A q \in 1..(np - 1) : proc[q].state # "UNUSED"

allocpid == nextpid <= MaxPid /\ nextpid' = nextpid + 1

fork(c, p) ==
  /\ Syscall(c, p) /\ allocpid
  /\ \E np \in P :
       /\ allocproc(np)
       /\ proc' = [proc EXCEPT ![np].state = "USED", ![np].pid = nextpid]
       /\ pc' = [pc EXCEPT ![p] = "forkParent", ![np] = "forkret"]
       /\ loc' = [loc EXCEPT ![p].arg = np, ![np] = NoLocals]
  /\ within(c) /\ UNCHANGED <<tick, ticks, panicked>>

\* fork calls panic when allocproc returns 0.
forkNoSlot(c, p) ==
  /\ Syscall(c, p) /\ \A np \in P : proc[np].state # "UNUSED"
  /\ panicked' = TRUE
  /\ UNCHANGED <<proc, cpu, lock, pc, loc, tick, ticks, nextpid>>

forkParent(c, p) ==
  /\ At(c, p, "forkParent") /\ Free(wait_lock)
  /\ proc' = [proc EXCEPT ![loc[p].arg].parent = p]
  /\ Goto(p, "forkRunnable") /\ within(c)
  /\ UNCHANGED loc /\ Others

forkRunnable(c, p) ==
  /\ At(c, p, "forkRunnable") /\ Free(loc[p].arg)
  /\ proc' = [proc EXCEPT ![loc[p].arg].state = "RUNNABLE"]
  /\ usertrapret(c, p, pop_off(push_off(cpu[c]))) /\ UNCHANGED lock /\ Others

-----------------------------------------------------------------------------
(* sleep, sched and the scheduler.  loc.lk is the lock given to sleep.     *)
SleepChan(p) == IF loc[p].lk = wait_lock THEN p ELSE TicksChan
AfterSleep(p) == IF loc[p].lk = wait_lock THEN "scan" ELSE "nap"

\* Mutant of sleepLock: lk is released before p->lock is held.
sleepLockLate(c, p) ==
  /\ At(c, p, "sleep") /\ Free(p)
  /\ \/ lock[loc[p].lk] = c /\ release(c, loc[p].lk) /\ UNCHANGED pc
     \/ lock[loc[p].lk] # c /\ acquire(c, p) /\ Goto(p, "sleeping")
  /\ UNCHANGED <<proc, loc>> /\ Others

sleepLock(c, p) ==
  /\ At(c, p, "sleep") /\ Free(p)
  /\ acquire(c, p) /\ Goto(p, "sleeping")
  /\ UNCHANGED <<proc, loc>> /\ Others

sleepMark(c, p) ==
  /\ At(c, p, "sleeping")
  /\ IF lock[loc[p].lk] = c THEN release(c, loc[p].lk) ELSE UNCHANGED <<cpu, lock>>
  /\ proc' = [proc EXCEPT ![p].chan = SleepChan(p), ![p].state = "SLEEPING"]
  /\ Goto(p, "swtch") /\ UNCHANGED loc /\ Others

\* Where the thread goes on when it is next switched to.
Resume(p) ==
  CASE proc[p].state = "SLEEPING" -> "slept" [] proc[p].state = "ZOMBIE" -> "dead"
    [] OTHER -> "yielded"

\* sched switches to the scheduler, which releases the process's lock.
sched(c, p) ==
  /\ At(c, p, "swtch")
  /\ loc' = [loc EXCEPT ![p].intena = cpu[c].intena]
  /\ Goto(p, Resume(p))
  /\ lock' = [lock EXCEPT ![p] = Nobody]
  /\ Set(c, pop_off([cpu[c] EXCEPT !.proc = Nobody]))
  /\ UNCHANGED proc /\ Others

\* Mutant of scheduler: a process that slept takes lk before it releases its own lock.
schedulerKeepsLock(c, p) ==
  /\ cpu[c].proc = Nobody /\ ~(c = 1 /\ tick)
  /\ proc[p].state = "RUNNABLE" /\ Free(p)
  /\ IF pc[p] = "slept"
     THEN Set(c, [push_off(cpu[c]) EXCEPT !.proc = p, !.intena = TRUE])
          /\ lock' = [lock EXCEPT ![p] = c]
     ELSE Set(c, [cpu[c] EXCEPT !.proc = p, !.intr = TRUE]) /\ UNCHANGED lock
  /\ proc' = [proc EXCEPT ![p].state = "RUNNING"]
  /\ Goto(p, IF pc[p] = "slept" THEN "relock" ELSE loc[p].back)
  /\ UNCHANGED loc /\ Others

\* Where a thread that has been switched to goes on, on a CPU that is as k and
\* holds its lock: it restores intena (in sched) and releases the lock.
forkret(c, p, k) ==
  /\ pc[p] = "forkret"
  /\ Set(c, [pop_off(k) EXCEPT !.intr = TRUE])
  /\ Goto(p, "user") /\ UNCHANGED loc

Woken(c, p, k) ==
  /\ pc[p] \in {"yielded", "slept"}
  /\ LET back == pop_off([k EXCEPT !.intena = loc[p].intena])
     IN IF pc[p] = "slept" THEN Set(c, back) /\ Goto(p, "relock")
        ELSE Set(c, [back EXCEPT !.intr = TRUE]) /\ Goto(p, loc[p].back)
  /\ loc' = [loc EXCEPT ![p].back = "user", ![p].intena = FALSE]

\* The scheduler switches to p.
scheduler(c, p) ==
  /\ cpu[c].proc = Nobody /\ ~(c = 1 /\ tick)
  /\ proc[p].state = "RUNNABLE" /\ Free(p)
  /\ proc' = [proc EXCEPT ![p].state = "RUNNING", ![p].chan = 0]
  /\ LET k == [push_off(cpu[c]) EXCEPT !.proc = p] IN forkret(c, p, k) \/ Woken(c, p, k)
  /\ UNCHANGED lock /\ Others

\* The head of the scheduler's outer loop.
schedulerIntrOn(c) ==
  /\ cpu[c].proc = Nobody /\ ~(c = 1 /\ tick) /\ ~cpu[c].intr
  /\ Set(c, [cpu[c] EXCEPT !.intr = TRUE])
  /\ UNCHANGED <<proc, lock, pc, loc>> /\ Others

yield(c, p) ==
  /\ At(c, p, "yield") /\ Free(p)
  /\ acquire(c, p)
  /\ proc' = [proc EXCEPT ![p].state = "RUNNABLE"]
  /\ Goto(p, "swtch") /\ UNCHANGED loc /\ Others

relock(c, p) ==
  /\ At(c, p, "relock") /\ Free(loc[p].lk)
  /\ acquire(c, loc[p].lk) /\ Goto(p, AfterSleep(p))
  /\ UNCHANGED <<proc, loc>> /\ Others

-----------------------------------------------------------------------------
(* wait.                                                                   *)
Children(p) == {q \in P : proc[q].parent = p}
Zombies(p) == {q \in Children(p) : proc[q].state = "ZOMBIE"}
FirstZombie(p, z) == z \in Zombies(p) /\ \A r \in Zombies(p) : z <= r

wait(c, p) ==
  /\ Syscall(c, p) /\ Free(wait_lock)
  /\ acquire(c, wait_lock)
  /\ loc' = [loc EXCEPT ![p].lk = wait_lock]
  /\ Goto(p, "scan") /\ UNCHANGED proc /\ Others

\* Mutant of waitReap: a zombie is freed without its lock.
waitReapUnlocked(c, p) ==
  /\ At(c, p, "scan")
  /\ \E z \in P : FirstZombie(p, z) /\ proc' = [proc EXCEPT ![z] = FreeProc]
  /\ Leave(c, p, wait_lock) /\ Others

\* A zombie child is freed, unless its exit status cannot be copied out.
waitReap(c, p) ==
  /\ At(c, p, "scan")
  /\ \E z \in P : /\ FirstZombie(p, z) /\ Free(z)
                  /\ proc' = [proc EXCEPT ![z] = FreeProc] \/ UNCHANGED proc
  /\ Leave(c, p, wait_lock) /\ Others

waitNone(c, p) ==
  /\ At(c, p, "scan") /\ Zombies(p) = {}
  /\ IF Children(p) = {} \/ proc[p].killed
     THEN Leave(c, p, wait_lock)
     ELSE Goto(p, "sleep") /\ UNCHANGED <<lock, cpu, loc>>
  /\ UNCHANGED proc /\ Others

-----------------------------------------------------------------------------
(* exit.                                                                   *)
exit(c, p) ==
  /\ Syscall(c, p) /\ p # initproc
  /\ Goto(p, "exit") /\ UNCHANGED <<proc, cpu, lock, loc>> /\ Others

exitInit(c, p) ==
  /\ At(c, p, "exit") /\ p = initproc
  /\ panicked' = TRUE
  /\ UNCHANGED <<proc, cpu, lock, pc, loc, tick, ticks, nextpid>>

exitLock(c, p) ==
  /\ At(c, p, "exit") /\ p # initproc /\ Free(wait_lock)
  /\ acquire(c, wait_lock) /\ Goto(p, "reparent")
  /\ UNCHANGED <<proc, loc>> /\ Others

reparent(c, p) ==
  /\ At(c, p, "reparent") /\ ProcLocksFree(p)
  /\ LET given == [q \in P |-> IF q \in Children(p)
                               THEN [proc[q] EXCEPT !.parent = initproc] ELSE proc[q]]
     IN proc' = IF Children(p) = {} THEN proc ELSE wakeup(given, initproc)
  /\ Goto(p, "wakeParent") /\ UNCHANGED <<cpu, lock, loc>> /\ Others

exitWakeup(c, p) ==
  /\ At(c, p, "wakeParent") /\ ProcLocksFree(p)
  /\ proc' = wakeup(proc, proc[p].parent)
  /\ Goto(p, "zombie") /\ UNCHANGED <<cpu, lock, loc>> /\ Others

exitZombie(c, p) ==
  /\ At(c, p, "zombie") /\ Free(p)
  /\ lock' = [lock EXCEPT ![p] = c, ![wait_lock] = Nobody]
  /\ Set(c, pop_off(push_off(cpu[c])))
  /\ proc' = [proc EXCEPT ![p].state = "ZOMBIE"]
  /\ Goto(p, "swtch") /\ UNCHANGED loc /\ Others

-----------------------------------------------------------------------------
(* kill and the sleep system call.                                         *)

\* The first slot with the given pid; a free slot has pid 0.
kill(c, p) ==
  /\ Syscall(c, p)
  /\ \E q \in P :
       /\ Free(q) /\ \A r \in 1..(q - 1) : proc[r].pid # proc[q].pid
       /\ proc' = [proc EXCEPT ![q].killed = TRUE,
                               ![q].state = IF @ = "SLEEPING" THEN "RUNNABLE" ELSE @]
  /\ usertrapret(c, p, pop_off(push_off(cpu[c]))) /\ UNCHANGED lock /\ Others

sys_sleep(c, p) ==
  /\ Syscall(c, p) /\ Free(tickslock)
  /\ acquire(c, tickslock)
  /\ \E n \in Naps : loc' = [loc EXCEPT ![p].lk = tickslock, ![p].arg = ticks, ![p].n = n]
  /\ Goto(p, "nap") /\ UNCHANGED proc /\ Others

Elapsed(p) == (ticks + TickMod - loc[p].arg) % TickMod

sys_sleepLoop(c, p) ==
  /\ At(c, p, "nap")
  /\ IF Elapsed(p) < loc[p].n /\ ~proc[p].killed
     THEN Goto(p, "sleep") /\ UNCHANGED <<lock, cpu, loc>>
     ELSE Leave(c, p, tickslock)
  /\ UNCHANGED proc /\ Others

-----------------------------------------------------------------------------
(* Timer interrupts: usertrap and kerneltrap by way of devintr.  On hart 0 *)
(* clockintr counts the tick and wakes the sleepers; then the process that *)
(* was interrupted yields, or exits if it was killed in user space.        *)
Interrupted(c, k) ==
  LET p == cpu[c].proc IN
  IF p = Nobody
  THEN Set(c, [k EXCEPT !.intr = TRUE]) /\ UNCHANGED <<pc, loc>>
  ELSE /\ Set(c, k)
       /\ IF pc[p] = "user" /\ proc[p].killed
          THEN Goto(p, "exit") /\ UNCHANGED loc
          ELSE Goto(p, "yield") /\ loc' = [loc EXCEPT ![p].back = pc[p]]

timerIntr(c) ==
  /\ c # 1 /\ cpu[c].intr /\ cpu[c].proc # Nobody
  /\ Interrupted(c, [cpu[c] EXCEPT !.intr = FALSE])
  /\ UNCHANGED <<proc, lock>> /\ Others

clockintr ==
  /\ cpu[1].intr /\ Free(tickslock) /\ ~tick
  /\ lock' = [lock EXCEPT ![tickslock] = 1]
  /\ Set(1, push_off([cpu[1] EXCEPT !.intr = FALSE]))
  /\ tick' = TRUE /\ ticks' = (ticks + 1) % TickMod
  /\ UNCHANGED <<proc, pc, loc, nextpid, panicked>>

clockintrWakeup ==
  /\ tick /\ ProcLocksFree(cpu[1].proc)
  /\ proc' = wakeup(proc, TicksChan)
  /\ lock' = [lock EXCEPT ![tickslock] = Nobody]
  /\ tick' = FALSE
  /\ Interrupted(1, pop_off(cpu[1]))
  /\ UNCHANGED <<ticks, nextpid, panicked>>

-----------------------------------------------------------------------------
Thread(c, p) ==
  \/ usertrapKilled(c, p) \/ forkParent(c, p) \/ forkRunnable(c, p)
  \/ sleepLock(c, p) \/ sleepMark(c, p) \/ sched(c, p) \/ yield(c, p) \/ relock(c, p)
  \/ waitReap(c, p) \/ waitNone(c, p) \/ sys_sleepLoop(c, p)
  \/ exitInit(c, p) \/ exitLock(c, p) \/ reparent(c, p) \/ exitWakeup(c, p) \/ exitZombie(c, p)

\* What a process asks for: init only forks and waits.
User(c, p) ==
  \/ fork(c, p) \/ forkNoSlot(c, p) \/ wait(c, p)
  \/ p # initproc /\ (exit(c, p) \/ usertrapFault(c, p) \/ kill(c, p) \/ sys_sleep(c, p))

Next ==
  \/ /\ ~panicked
     /\ \/ clockintr \/ clockintrWakeup
        \/ \E c \in CPUs :
             \/ timerIntr(c) \/ schedulerIntrOn(c)
             \/ \E p \in P : Thread(c, p) \/ User(c, p) \/ scheduler(c, p)
  \/ panicked /\ UNCHANGED vars

Safe == Init /\ [][Next]_vars

-----------------------------------------------------------------------------
ThreadLabels == {"user", "forkParent", "forkRunnable", "scan", "nap", "sleep", "sleeping",
  "swtch", "relock", "yield", "exit", "reparent", "wakeParent", "zombie",
  "forkret", "yielded", "slept", "dead"}

\* The state of every variable has the shape the code gives it.
TypeOK ==
  /\ proc \in [P -> ProcStruct] /\ cpu \in [CPUs -> CpuStruct]
  /\ lock \in [Locks -> 0..NCPU]
  /\ pc \in [P -> ThreadLabels]
  /\ loc \in [P -> [lk : {0, wait_lock, tickslock}, back : ThreadLabels,
                    arg : 0..(NPROC + TickMod), n : 0..TickMod, intena : BOOLEAN]]
  /\ tick \in BOOLEAN /\ ticks \in 0..(TickMod - 1)
  /\ nextpid \in 1..(MaxPid + 1) /\ panicked \in BOOLEAN

\* No wakeup falls between a process's test and its sleep, and every zombie is
\* waited for.  A parent asleep in wait has no zombie child once the child's exit,
\* which wakes it before it becomes a zombie, has let go of wait_lock; a process
\* asleep in sys_sleep still has ticks to wait for; and exit gives the children to
\* init before the process can become a zombie and its slot someone else's.
NoLostWakeup ==
  /\ Free(wait_lock) =>
       \A p \in P : proc[p].state = "SLEEPING" /\ proc[p].chan = p => Zombies(p) = {}
  /\ Free(tickslock) =>
       \A p \in P : proc[p].state = "SLEEPING" /\ proc[p].chan = TicksChan => Elapsed(p) < loc[p].n
  /\ \A p \in P \ {initproc} :
       proc[p].state \notin {"UNUSED", "USED"} =>
         /\ proc[p].parent # Nobody
         /\ proc[proc[p].parent].state \notin {"UNUSED", "USED", "ZOMBIE"}

\* A kernel stack is in use on at most one CPU, and a CPU that is on it either
\* runs the process or holds its lock: scheduler cannot pick, and wait cannot
\* free, a process that is still on its way out through sched.  There it holds
\* its own lock and no other, so none of sched's panics can happen.  (With the
\* types of all variables.)
OneStack ==
  /\ TypeOK
  /\ \A c \in CPUs : cpu[c].proc # Nobody =>
       /\ proc[cpu[c].proc].state \notin {"UNUSED", "USED"}
       /\ proc[cpu[c].proc].state = "RUNNING" \/ lock[cpu[c].proc] = c
       /\ \A d \in CPUs \ {c} : cpu[d].proc # cpu[c].proc
  /\ \A c \in CPUs, p \in P : cpu[c].proc = p /\ pc[p] = "swtch" =>
       /\ {l \in Locks : lock[l] = c} = {p} /\ cpu[c].noff = 1
       /\ proc[p].state # "RUNNING" /\ ~cpu[c].intr

\* A system call that holds no lock runs with interrupts on, also when it slept
\* and came back on a CPU whose scheduler had them off: intena is the thread's.
\* noff counts the spinlocks a CPU holds, and with one held interrupts are off, so
\* that no handler runs on top of a critical section.
InterruptsRestored ==
  /\ \A c \in CPUs, p \in P :
       At(c, p, pc[p]) /\ pc[p] \in {"forkParent", "forkRunnable", "relock"} => cpu[c].intr
  /\ \A c \in CPUs :
       /\ cpu[c].noff = Cardinality({l \in Locks : lock[l] = c})
       /\ cpu[c].noff > 0 => ~cpu[c].intr

\* The locks a CPU is about to spin on.
Wants(c) ==
  LET p == cpu[c].proc IN
  IF c = 1 /\ tick THEN P \ {p}
  ELSE IF p = Nobody THEN {}
  ELSE CASE pc[p] \in {"forkParent", "exit"} -> {wait_lock}
         [] pc[p] = "forkRunnable" -> {loc[p].arg}
         [] pc[p] \in {"sleep", "yield", "zombie"} -> {p}
         [] pc[p] = "relock" -> {loc[p].lk}
         [] pc[p] = "scan" -> Zombies(p)
         [] pc[p] \in {"reparent", "wakeParent"} -> P \ {p}
         [] OTHER -> {}

\* No CPU spins on a lock it holds itself (acquire would panic), and no two
\* CPUs spin on each other's: wait_lock and tickslock come before any p->lock.
NoSpinCycle ==
  \A c, d \in CPUs :
    ~(\E l \in Wants(c), m \in Wants(d) : lock[l] = d /\ lock[m] = c)
=============================================================================

----------------------------- MODULE ProcSteps -----------------------------
(***************************************************************************)
(* The process table of Proc, proved for every number of slots and CPUs.   *)
(* The inductive invariant ProcInv says, for every place a thread can be   *)
(* at, what its state is, which locks its CPU holds, whether interrupts    *)
(* are on, and what its locals and its family look like.  Here are the     *)
(* steps a thread takes on its CPU; the switches, the interrupts, waitReap *)
(* and the theorems are in ProcProofs.                                     *)
(***************************************************************************)
EXTENDS Proc, TLAPS

\* The places of a thread that is on a CPU, and those at which a timer
\* interrupt may take it.
On == {"user", "forkParent", "forkRunnable", "scan", "nap", "sleep", "sleeping", "relock",
       "yield", "exit", "reparent", "wakeParent", "zombie"}
Active == On \cup {"swtch"}
Interruptible == {"user", "forkParent", "forkRunnable", "relock", "exit"}

\* A thread is on at most one CPU, and exactly when its place says so.
Stacks ==
  /\ \A c \in CPUs : cpu[c].proc # Nobody => pc[cpu[c].proc] \in Active
  /\ \A c, d \in CPUs : cpu[c].proc = cpu[d].proc /\ cpu[c].proc # Nobody => c = d
  /\ \A p \in P : pc[p] \in Active => \E c \in CPUs : cpu[c].proc = p

\* p->state at each place.
StateOK(p) ==
  /\ pc[p] \in On => proc[p].state = "RUNNING"
  /\ pc[p] = "swtch" => proc[p].state \in {"SLEEPING", "RUNNABLE", "ZOMBIE"}
  /\ pc[p] = "forkret" => proc[p].state \in {"UNUSED", "USED", "RUNNABLE"}
  /\ pc[p] = "yielded" => proc[p].state = "RUNNABLE"
  /\ pc[p] = "slept" => proc[p].state \in {"SLEEPING", "RUNNABLE"}
  /\ pc[p] = "dead" => proc[p].state \in {"ZOMBIE", "UNUSED"}
States == \A p \in P : StateOK(p)

\* The locks the CPU of a thread holds for it, and hart 0 in clockintr.
Keeps(p, l) ==
  \/ l = wait_lock /\ pc[p] \in {"scan", "reparent", "wakeParent", "zombie"}
  \/ l = tickslock /\ pc[p] = "nap"
  \/ l = loc[p].lk /\ pc[p] \in {"sleep", "sleeping"}
  \/ l = p /\ pc[p] \in {"sleeping", "swtch"}
Ticking(c) == c = 1 /\ tick
Needs(c, l) ==
  \/ Ticking(c) /\ l = tickslock
  \/ cpu[c].proc # Nobody /\ Keeps(cpu[c].proc, l)
Locking == \A c \in CPUs, l \in Locks : lock[l] = c <=> Needs(c, l)

\* How deep push_off is nested, what interrupts are and what push_off has noted.
Depth(l) ==
  IF l = "sleeping" THEN 2
  ELSE IF l \in {"scan", "reparent", "wakeParent", "zombie", "nap", "sleep", "swtch"} THEN 1 ELSE 0
CpuOK(c) ==
  /\ cpu[c].noff = (IF Ticking(c) THEN 1 ELSE 0)
                   + (IF cpu[c].proc = Nobody THEN 0 ELSE Depth(pc[cpu[c].proc]))
  /\ cpu[c].noff > 0 => ~cpu[c].intr
  /\ Ticking(c) => ~cpu[c].intena
  /\ cpu[c].proc # Nobody =>
       LET p == cpu[c].proc IN
       /\ pc[p] \in {"user", "forkParent", "forkRunnable", "relock"} /\ ~Ticking(c) => cpu[c].intr
       /\ pc[p] = "yield" => ~cpu[c].intr
       /\ pc[p] \in {"scan", "nap", "sleep", "sleeping"} => cpu[c].intena
       /\ pc[p] = "swtch" /\ proc[p].state = "SLEEPING" => cpu[c].intena
       /\ Ticking(c) => pc[p] \in Interruptible
Cpus == \A c \in CPUs : CpuOK(c)

\* What a thread that was interrupted goes back to, and the locals of a sleeper.
Doing(p, l) == pc[p] = l \/ loc[p].back = l
LocalsOK(p) ==
  /\ loc[p].back \in Interruptible
  /\ loc[p].back # "user" => \/ pc[p] \in {"yield", "yielded"}
                             \/ pc[p] = "swtch" /\ proc[p].state = "RUNNABLE"
  /\ pc[p] = "scan" => loc[p].lk = wait_lock
  /\ pc[p] = "nap" => loc[p].lk = tickslock
  /\ \/ pc[p] \in {"sleep", "sleeping", "slept"} \/ Doing(p, "relock")
     \/ proc[p].state = "SLEEPING"
     => loc[p].lk \in {wait_lock, tickslock}
  /\ pc[p] = "slept" => loc[p].intena
  /\ proc[p].state = "SLEEPING" => proc[p].chan = SleepChan(p)
Locals == \A p \in P : LocalsOK(p)

\* fork's child is nobody else's until it is RUNNABLE.
InFork(p) == Doing(p, "forkParent") \/ Doing(p, "forkRunnable")
Forks ==
  /\ \A p \in P : InFork(p) => loc[p].arg \in P /\ proc[loc[p].arg].state = "USED"
  /\ \A p \in P : Doing(p, "forkRunnable") => proc[loc[p].arg].parent = p
  /\ \A p, q \in P : InFork(p) /\ InFork(q) /\ loc[p].arg = loc[q].arg => p = q

\* A process that exits gives its children away before it can become a zombie,
\* and init never does.
Childless(q) == pc[q] \in {"wakeParent", "zombie"} \/ proc[q].state \in {"UNUSED", "USED", "ZOMBIE"}
Family ==
  /\ \A q \in P : Childless(q) => \A r \in P : proc[r].parent # q
  /\ \A q \in P \ {initproc} : proc[q].state \notin {"UNUSED", "USED"} => proc[q].parent # Nobody
  /\ ~Childless(initproc) /\ pc[initproc] # "reparent"

\* A process asleep in wait, or on its way there, has no zombie child; one asleep
\* in sys_sleep has ticks to wait for, or the tick that ends its sleep is about to
\* wake it.
AsleepInWait(p) == proc[p].state = "SLEEPING" /\ proc[p].chan = p
Wakeups ==
  /\ \A p \in P : \/ AsleepInWait(p)
                  \/ pc[p] \in {"sleep", "sleeping"} /\ loc[p].lk = wait_lock
                  => \A q \in P : proc[q].parent = p => proc[q].state # "ZOMBIE"
  /\ \A e \in P : pc[e] = "zombie" => \A p \in P : proc[e].parent = p => ~AsleepInWait(p)
  /\ \A p \in P : /\ proc[p].state = "SLEEPING" /\ proc[p].chan = TicksChan
                  /\ ~tick
                  => Elapsed(p) < loc[p].n
  /\ \A p \in P : pc[p] \in {"sleep", "sleeping"} /\ loc[p].lk = tickslock => Elapsed(p) < loc[p].n

ProcInv ==
  /\ TypeOK /\ Stacks /\ States /\ Locking /\ Cpus /\ Locals /\ Forks /\ Family /\ Wakeups

-----------------------------------------------------------------------------
(* Constants and records.                                                  *)
LocStruct ==
  [lk : {0, wait_lock, tickslock}, back : ThreadLabels,
   arg : 0..(NPROC + TickMod), n : 0..TickMod, intena : BOOLEAN]

\* Processes, wait_lock and tickslock are different locks, and 0 is none of them.
LEMMA Consts ==
  /\ wait_lock \in Locks /\ tickslock \in Locks /\ wait_lock # tickslock
  /\ wait_lock # 0 /\ tickslock # 0 /\ TicksChan = tickslock
  /\ \A p \in P : p \in Locks /\ p # wait_lock /\ p # tickslock /\ p # Nobody
  /\ \A l \in Locks : l \in P \/ l = wait_lock \/ l = tickslock
  /\ \A x \in 0..NPROC : x \in P \/ x = Nobody
  /\ \A p \in P : p \in 0..NPROC /\ p \in 0..(NPROC + 2) /\ p \in 0..(NPROC + TickMod)
  /\ TicksChan \in 0..(NPROC + 2) /\ Nobody \in 0..NPROC
  /\ Nobody \notin P /\ Nobody \notin CPUs /\ 1 \in CPUs /\ initproc \in P
  /\ Nobody \in 0..NCPU /\ \A c \in CPUs : c \in 0..NCPU /\ c # Nobody
  /\ \A x \in 0..NCPU : x \in CPUs \/ x = Nobody
  BY ProcAssumption DEF Locks, wait_lock, tickslock, TicksChan, P, Nobody, CPUs, initproc

\* push_off counts, and the outermost one notes whether interrupts were on.
LEMMA PushFacts ==
  ASSUME NEW k \in CpuStruct, k.noff < 3
  PROVE  /\ push_off(k) \in CpuStruct /\ push_off(k).proc = k.proc /\ push_off(k).noff = k.noff + 1
         /\ ~push_off(k).intr
         /\ k.noff = 0 => push_off(k).intena = k.intr
         /\ k.noff # 0 => push_off(k).intena = k.intena
<1> DEFINE on == IF k.noff = 0 THEN k.intr ELSE k.intena
           n == k.noff + 1
<1>1. on \in BOOLEAN /\ n \in 0..3
  BY DEF CpuStruct
<1>2. push_off(k) = [k EXCEPT !.noff = n, !.intena = on, !.intr = FALSE]
  BY Zenon DEF push_off
<1>3. (k.noff = 0 => on = k.intr) /\ (k.noff # 0 => on = k.intena) /\ n = k.noff + 1
  BY Zenon
<1> HIDE DEF on, n, push_off
<1>4. /\ push_off(k) \in CpuStruct /\ push_off(k).proc = k.proc /\ push_off(k).noff = n
      /\ push_off(k).intr = FALSE /\ push_off(k).intena = on
  BY <1>1, <1>2, Zenon DEF CpuStruct
<1> QED
  BY <1>3, <1>4, Zenon

\* pop_off counts down, and the last one gives back what was noted.
LEMMA PopFacts ==
  ASSUME NEW k \in CpuStruct, k.noff > 0
  PROVE  /\ pop_off(k) \in CpuStruct /\ pop_off(k).proc = k.proc /\ pop_off(k).noff = k.noff - 1
         /\ pop_off(k).intena = k.intena
         /\ pop_off(k).intr = (k.intr \/ (k.noff = 1 /\ k.intena))
<1> DEFINE on == IF k.noff = 1 /\ k.intena THEN TRUE ELSE k.intr
           n == k.noff - 1
<1>0. k.intr \in BOOLEAN /\ k.intena \in BOOLEAN /\ k.noff \in 0..3
  BY Zenon DEF CpuStruct
<1>1. on \in BOOLEAN /\ n \in 0..3
  <2>1. on \in BOOLEAN
    BY <1>0, Zenon
  <2>2. n \in 0..3
    BY <1>0
  <2> QED
    BY <2>1, <2>2, Zenon
<1>2. pop_off(k) = [k EXCEPT !.noff = n, !.intr = on]
  BY Zenon DEF pop_off
<1>3. on = (k.intr \/ (k.noff = 1 /\ k.intena)) /\ n = k.noff - 1
  BY Zenon DEF CpuStruct
<1> HIDE DEF on, n, pop_off
<1>4. /\ pop_off(k) \in CpuStruct /\ pop_off(k).proc = k.proc /\ pop_off(k).noff = n
      /\ pop_off(k).intr = on /\ pop_off(k).intena = k.intena
  BY <1>1, <1>2, Zenon DEF CpuStruct
<1> QED
  BY <1>3, <1>4, Zenon

\* A critical section within a step leaves the interrupts and the depth as they were.
LEMMA WithinFacts ==
  ASSUME NEW k \in CpuStruct, k.noff = 0
  PROVE  /\ pop_off(push_off(k)) \in CpuStruct /\ pop_off(push_off(k)).proc = k.proc
         /\ pop_off(push_off(k)).noff = 0 /\ pop_off(push_off(k)).intr = k.intr
<1>1. /\ push_off(k) \in CpuStruct /\ push_off(k).proc = k.proc /\ push_off(k).noff = 1
      /\ ~push_off(k).intr /\ push_off(k).intena = k.intr
  BY PushFacts
<1>2. k.intr \in BOOLEAN /\ push_off(k).intr \in BOOLEAN
  BY <1>1, Zenon DEF CpuStruct
<1> HIDE DEF push_off
<1> QED
  BY <1>1, <1>2, PopFacts

\* The fields of the records of the processes, CPUs and locals.
LEMMA Types ==
  ASSUME ProcInv
  PROVE  /\ \A c \in CPUs : /\ cpu[c] \in CpuStruct /\ cpu[c].proc \in P \cup {Nobody}
                            /\ cpu[c].noff \in 0..3 /\ cpu[c].intena \in BOOLEAN
                            /\ cpu[c].intr \in BOOLEAN
         /\ \A p \in P : /\ proc[p] \in ProcStruct /\ proc[p].parent \in P \cup {Nobody}
                         /\ pc[p] \in ThreadLabels /\ loc[p] \in LocStruct
                         /\ loc[p].lk \in {0, wait_lock, tickslock}
         /\ \A l \in Locks : lock[l] \in CPUs \cup {Nobody}
<1>1. \A c \in CPUs : cpu[c] \in CpuStruct
  BY Zenon DEF ProcInv, TypeOK
<1>2. \A p \in P : /\ proc[p] \in ProcStruct /\ pc[p] \in ThreadLabels /\ loc[p] \in LocStruct
  BY Zenon DEF ProcInv, TypeOK, LocStruct
<1>3. \A c \in CPUs : /\ cpu[c].proc \in 0..NPROC
                      /\ cpu[c].noff \in 0..3 /\ cpu[c].intena \in BOOLEAN /\ cpu[c].intr \in BOOLEAN
  BY <1>1, Zenon DEF CpuStruct
<1>4. \A p \in P : proc[p].parent \in 0..NPROC
  BY <1>2, Zenon DEF ProcStruct
<1>5. \A p \in P : loc[p].lk \in {0, wait_lock, tickslock}
  BY <1>2, Zenon DEF LocStruct
<1>6. \A l \in Locks : lock[l] \in 0..NCPU
  BY Zenon DEF ProcInv, TypeOK
<1> QED
  BY <1>1, <1>2, <1>3, <1>4, <1>5, <1>6, Consts, Zenon

-----------------------------------------------------------------------------
(* What the invariant says of one thread and its locks.                    *)

\* A thread at a place of a running one is on exactly one CPU.
LEMMA OnOne ==
  ASSUME ProcInv, NEW p \in P, pc[p] \in Active
  PROVE  \E c \in CPUs : cpu[c].proc = p /\ \A d \in CPUs : cpu[d].proc = p => d = c
  BY Consts DEF ProcInv, Stacks

\* Two threads never keep the same lock, nor one that is free, nor one that
\* clockintr holds.
LEMMA OneKeeper ==
  ASSUME ProcInv, NEW p \in P, NEW l \in Locks, Keeps(p, l)
  PROVE  /\ ~Free(l) /\ \A q \in P : Keeps(q, l) => q = p
         /\ \A c \in CPUs : cpu[c].proc = p => lock[l] = c
         /\ l = tickslock => ~tick
<1>1. \A q \in P : Keeps(q, l) => pc[q] \in Active
  BY Zenon DEF Keeps, Active, On
<1>2. PICK c \in CPUs : cpu[c].proc = p
  BY <1>1, OnOne, Zenon
<1>3. \A q \in P, d \in CPUs : cpu[d].proc = q /\ Keeps(q, l) => lock[l] = d
  BY Consts DEF ProcInv, Locking, Needs
<1>4. \A q \in P : Keeps(q, l) => q = p
  <2> SUFFICES ASSUME NEW q \in P, Keeps(q, l) PROVE q = p
    BY Zenon
  <2>1. PICK d \in CPUs : cpu[d].proc = q
    BY <1>1, OnOne, Zenon
  <2> QED
    BY <1>2, <1>3, <2>1, Zenon
<1>5. ~Free(l)
  BY <1>2, <1>3, Consts, Zenon DEF Free
<1>6. l = tickslock => ~tick
  <2> SUFFICES ASSUME l = tickslock, tick PROVE FALSE
    BY Zenon
  <2>1. lock[l] = 1 /\ 1 \in CPUs
    BY Consts, Zenon DEF ProcInv, Locking, Needs, Ticking
  <2>2. c = 1 /\ Ticking(c)
    BY <1>2, <1>3, <2>1, Zenon DEF Ticking
  <2>3. pc[p] \in Interruptible
    BY <1>2, <2>2, Consts, Zenon DEF ProcInv, Cpus, CpuOK
  <2> QED
    BY <2>3, Zenon DEF Keeps, Interruptible
<1> QED
  BY <1>3, <1>4, <1>5, <1>6, Zenon

-----------------------------------------------------------------------------
(* Frames: what a step of one CPU leaves alone.                            *)

\* A step of CPU c that does not switch threads, moves no other running thread
\* and gives its locks to c keeps the CPUs, the locks and the rest apart.
LEMMA CpuFrame ==
  ASSUME ProcInv, NEW c \in CPUs, cpu'[c].proc = cpu[c].proc,
         \A d \in CPUs \ {c} : cpu'[d] = cpu[d] /\ (Ticking(d)' <=> Ticking(d)),
         cpu[c].proc # Nobody => pc'[cpu[c].proc] \in Active,
         \A q \in P : q # cpu[c].proc =>
           \/ pc'[q] = pc[q] /\ loc'[q] = loc[q] /\ (pc[q] = "swtch" => proc'[q].state = proc[q].state)
           \/ pc[q] \notin Active /\ pc'[q] \notin Active,
         \A l \in Locks : IF Needs(c, l)' THEN lock[l] \in {c, Nobody} /\ lock'[l] = c
                          ELSE lock'[l] = IF lock[l] = c THEN Nobody ELSE lock[l]
  PROVE  Stacks' /\ Locking' /\ \A d \in CPUs \ {c} : CpuOK(d)'
<1> USE DEF ProcInv
<1>1. \A d \in CPUs : cpu[d].proc \in P \cup {Nobody} /\ cpu'[d].proc = cpu[d].proc
  BY Types, Zenon
<1>2. \A d \in CPUs \ {c} : cpu[d].proc # Nobody =>
        /\ cpu[d].proc \in P /\ cpu[d].proc # cpu[c].proc /\ pc[cpu[d].proc] \in Active
        /\ pc'[cpu[d].proc] = pc[cpu[d].proc] /\ loc'[cpu[d].proc] = loc[cpu[d].proc]
        /\ pc[cpu[d].proc] = "swtch" => proc'[cpu[d].proc].state = proc[cpu[d].proc].state
  BY <1>1 DEF Stacks
<1>3. Stacks'
  <2>1. \A q \in P : pc'[q] \in Active => pc[q] \in Active \/ q = cpu[c].proc
    BY Zenon
  <2> QED
    BY <1>1, <1>2, <2>1 DEF Stacks
<1>4. \A d \in CPUs \ {c}, l \in Locks : Needs(d, l)' <=> Needs(d, l)
  BY <1>1, <1>2 DEF Needs, Keeps
<1>5. Locking'
  <2>1. ASSUME NEW l \in Locks PROVE lock'[l] = c <=> Needs(c, l)'
    BY Consts, Zenon
  <2>2. ASSUME NEW d \in CPUs \ {c}, NEW l \in Locks PROVE lock'[l] = d <=> Needs(d, l)'
    <3>1. lock[l] = d <=> Needs(d, l)'
      BY <1>4, Zenon DEF Locking
    <3>2. lock'[l] = d <=> lock[l] = d
      BY Consts
    <3> QED
      BY <3>1, <3>2, Zenon
  <2> QED
    BY <2>1, <2>2 DEF Locking
<1>6. \A d \in CPUs \ {c} : CpuOK(d)'
  <2> SUFFICES ASSUME NEW d \in CPUs \ {c} PROVE CpuOK(d)'
    BY Zenon
  <2>1. CpuOK(d)
    BY Zenon DEF Cpus
  <2>2. cpu'[d] = cpu[d] /\ (Ticking(d)' <=> Ticking(d))
    BY Zenon
  <2>3. CASE cpu[d].proc = Nobody
    BY <2>1, <2>2, <2>3, Zenon DEF CpuOK
  <2>4. CASE cpu[d].proc # Nobody
    BY <1>2, <2>1, <2>2, <2>4 DEF CpuOK
  <2> QED
    BY <2>3, <2>4, Zenon
<1> QED
  BY <1>3, <1>5, <1>6, Zenon

\* fork's view of its child is kept by a step that starts no fork and keeps the
\* USED processes.
LEMMA ForksFrame ==
  ASSUME ProcInv,
         \A q \in P : /\ InFork(q)' => InFork(q) /\ loc'[q].arg = loc[q].arg
                      /\ Doing(q, "forkRunnable")' => Doing(q, "forkRunnable"),
         \A q, r \in P : InFork(q) /\ proc[r].state = "USED" /\ r = loc[q].arg /\ InFork(q)' =>
           proc'[r].state = "USED" /\ (proc[r].parent = q => proc'[r].parent = q)
  PROVE  Forks'
<1>1. Forks
  BY Zenon DEF ProcInv
<1>2. \A q \in P : Doing(q, "forkRunnable") => InFork(q)
  BY Zenon DEF InFork
<1>3. \A q \in P : Doing(q, "forkRunnable")' => InFork(q)'
  BY Zenon DEF InFork
<1> HIDE DEF InFork, Doing
<1>4. \A q \in P : InFork(q)' => loc'[q].arg \in P /\ proc'[loc'[q].arg].state = "USED"
  BY <1>1 DEF Forks
<1>5. \A q \in P : Doing(q, "forkRunnable")' => proc'[loc'[q].arg].parent = q
  BY <1>1, <1>2, <1>3 DEF Forks
<1>6. \A q, r \in P : InFork(q)' /\ InFork(r)' /\ loc'[q].arg = loc'[r].arg => q = r
  BY <1>1, Zenon DEF Forks
<1> QED
  BY <1>4, <1>5, <1>6, Zenon DEF Forks

\* A step keeps the families if who gets a child can have one, and who comes to
\* the end has none.
LEMMA FamilyFrame ==
  ASSUME ProcInv,
         \A q, r \in P : proc'[q].parent = r => proc[q].parent = r \/ ~Childless(r)',
         \A q \in P : Childless(q)' => Childless(q) \/ \A r \in P : proc'[r].parent # q,
         \A q \in P : proc'[q].state \notin {"UNUSED", "USED"} =>
           \/ proc'[q].parent # Nobody
           \/ proc[q].state \notin {"UNUSED", "USED"} /\ proc'[q].parent = proc[q].parent,
         Childless(initproc)' => Childless(initproc),
         pc'[initproc] = "reparent" => pc[initproc] = "reparent"
  PROVE  Family'
<1>1. Family /\ initproc \in P
  BY Consts, Zenon DEF ProcInv
<1>2. (~Childless(initproc))' /\ pc'[initproc] # "reparent"
  <2> HIDE DEF Childless, initproc
  <2>1. ~Childless(initproc) /\ pc[initproc] # "reparent"
    BY <1>1, Zenon DEF Family
  <2> QED
    BY <2>1, Zenon DEF initproc
<1>3. \A q \in P : Childless(q)' => \A r \in P : proc'[r].parent # q
  BY <1>1, Zenon DEF Family
<1>4. \A q \in P \ {initproc} : proc'[q].state \notin {"UNUSED", "USED"} => proc'[q].parent # Nobody
  BY <1>1, Zenon DEF Family
<1> QED
  BY <1>2, <1>3, <1>4, Zenon DEF Family

\* Nobody falls asleep, becomes a zombie or begins to wait for less: no wakeup is
\* lost by the step.
LEMMA WakeupsFrame ==
  ASSUME ProcInv, ticks' = ticks, tick' = tick,
         \A q \in P :
           /\ \/ proc'[q].parent = proc[q].parent \/ proc'[q].parent = Nobody
              \/ proc'[q].state # "ZOMBIE" /\ pc'[q] # "zombie"
           /\ proc'[q].state = "ZOMBIE" => proc[q].state = "ZOMBIE"
           /\ proc'[q].state = "SLEEPING" =>
                /\ proc[q].state = "SLEEPING" /\ proc'[q].chan = proc[q].chan
                /\ loc'[q].arg = loc[q].arg /\ loc'[q].n = loc[q].n
           /\ pc'[q] \in {"sleep", "sleeping"} =>
                /\ pc[q] \in {"sleep", "sleeping"} /\ loc'[q].lk = loc[q].lk
                /\ loc'[q].arg = loc[q].arg /\ loc'[q].n = loc[q].n
           /\ pc'[q] = "zombie" => pc[q] = "zombie"
  PROVE  Wakeups'
<1>1. Wakeups
  BY Zenon DEF ProcInv
<1>2. \A q \in P : AsleepInWait(q)' => AsleepInWait(q)
  BY Zenon DEF AsleepInWait
<1>3. \A q \in P : proc'[q].state = "SLEEPING" \/ pc'[q] \in {"sleep", "sleeping"} => Elapsed(q)' = Elapsed(q)
  BY Zenon DEF Elapsed
<1>4. ASSUME NEW p \in P, \/ AsleepInWait(p)'
                          \/ pc'[p] \in {"sleep", "sleeping"} /\ loc'[p].lk = wait_lock
      PROVE  \A q \in P : proc'[q].parent = p => proc'[q].state # "ZOMBIE"
  <2>1. AsleepInWait(p) \/ (pc[p] \in {"sleep", "sleeping"} /\ loc[p].lk = wait_lock)
    BY <1>2, <1>4, Zenon
  <2>2. \A q \in P : proc[q].parent = p => proc[q].state # "ZOMBIE"
    BY <1>1, <2>1, Zenon DEF Wakeups
  <2> QED
    BY <2>2, Consts
<1>5. \A e \in P : pc'[e] = "zombie" => \A p \in P : proc'[e].parent = p => ~AsleepInWait(p)'
  BY <1>1, <1>2, Consts DEF Wakeups
<1>6. \A p \in P : /\ proc'[p].state = "SLEEPING" /\ proc'[p].chan = TicksChan
                   /\ ~tick'
                   => Elapsed(p)' < loc'[p].n
  BY <1>1, <1>3 DEF Wakeups
<1>7. \A p \in P : pc'[p] \in {"sleep", "sleeping"} /\ loc'[p].lk = tickslock => Elapsed(p)' < loc'[p].n
  BY <1>1, <1>3 DEF Wakeups
<1>8. TicksChan' = TicksChan /\ wait_lock' = wait_lock /\ tickslock' = tickslock
  BY Zenon DEF TicksChan, wait_lock, tickslock
<1> QED
  BY <1>4, <1>5, <1>6, <1>7, <1>8, Zenon DEF Wakeups

-----------------------------------------------------------------------------
(* A thread's own step: p, on c, goes on to another place; of the table it  *)
(* changes at most killed flags.                                           *)
LEMMA ThreadStep ==
  ASSUME ProcInv, NEW c \in CPUs, NEW p \in P, cpu[c].proc = p, pc[p] # "swtch",
         pc' \in [P -> ThreadLabels], pc'[p] \in On, \A q \in P : q # p => pc'[q] = pc[q],
         cpu' \in [CPUs -> CpuStruct], cpu'[c].proc = p, \A d \in CPUs \ {c} : cpu'[d] = cpu[d],
         loc' \in [P -> LocStruct], \A q \in P : q # p => loc'[q] = loc[q],
         Others,
         proc' \in [P -> ProcStruct],
         \A q \in P : /\ proc'[q].state = proc[q].state /\ proc'[q].chan = proc[q].chan
                      /\ proc'[q].parent = proc[q].parent,
         lock' \in [Locks -> 0..NCPU],
         \A m \in Locks : IF Needs(c, m)' THEN lock[m] \in {c, Nobody} /\ lock'[m] = c
                          ELSE lock'[m] = IF lock[m] = c THEN Nobody ELSE lock[m],
         CpuOK(c)', LocalsOK(p)',
         InFork(p)' => InFork(p) /\ loc'[p].arg = loc[p].arg,
         Doing(p, "forkRunnable")' => Doing(p, "forkRunnable"),
         pc'[p] \notin {"wakeParent", "zombie"}, pc'[p] = "reparent" => p # initproc,
         pc'[p] \in {"sleep", "sleeping"} =>
           \/ pc[p] \in {"sleep", "sleeping"} /\ loc'[p] = loc[p]
           \/ /\ loc'[p].lk = wait_lock => \A q \in P : proc[q].parent = p => proc[q].state # "ZOMBIE"
              /\ loc'[p].lk = tickslock => Elapsed(p)' < loc'[p].n
  PROVE  ProcInv'
<1> DEFINE l == pc'[p]
           v == loc'[p]
<1> USE DEF ProcInv
<1>2. pc'[p] = l /\ l \in On /\ \A q \in P : q # p => pc'[q] = pc[q]
  BY Zenon
<1>3. loc'[p] = v /\ \A q \in P : q # p => loc'[q] = loc[q]
  BY Zenon
<1> HIDE DEF l, v
<1>4. tick' = tick /\ ticks' = ticks /\ nextpid' = nextpid /\ panicked' = panicked
  BY Zenon DEF Others
<1>5. TypeOK'
  <2>1. loc' \in [P -> [lk : {0, wait_lock, tickslock}, back : ThreadLabels,
                        arg : 0..(NPROC + TickMod), n : 0..TickMod, intena : BOOLEAN]]
    BY Zenon DEF LocStruct
  <2> QED
    BY <1>4, <2>1, Zenon DEF TypeOK
<1>6. p # Nobody /\ initproc \in P
  BY Consts, Zenon
<1>7. Stacks' /\ Locking' /\ \A d \in CPUs \ {c} : CpuOK(d)'
  <2>1. \A d \in CPUs \ {c} : cpu'[d] = cpu[d] /\ (Ticking(d)' <=> Ticking(d))
    BY <1>4, Zenon DEF Ticking
  <2>2. l \in Active
    BY <1>2, Zenon DEF Active
  <2> QED
    BY <1>2, <1>3, <2>1, <2>2, CpuFrame, Zenon
<1>8. Cpus'
  BY <1>7, Zenon DEF Cpus
<1>9. pc[p] \in On /\ proc[p].state = "RUNNING"
  <2>1. pc[p] \in Active
    BY <1>6, Zenon DEF Stacks
  <2> QED
    BY <2>1, Zenon DEF Active, States, StateOK
<1>10. States'
  <2>1. StateOK(p)'
    BY <1>2, <1>9, Zenon DEF StateOK, On
  <2>2. \A q \in P : q # p => StateOK(q)'
    BY <1>2 DEF States, StateOK
  <2> QED
    BY <2>1, <2>2, Zenon DEF States
<1>11. Locals'
  <2>1. \A q \in P : q # p => LocalsOK(q)'
    <3> SUFFICES ASSUME NEW q \in P, q # p PROVE LocalsOK(q)'
      BY Zenon
    <3>1. pc'[q] = pc[q] /\ loc'[q] = loc[q] /\ LocalsOK(q)
      BY <1>2, <1>3, Zenon DEF Locals
    <3> QED
      BY <3>1 DEF LocalsOK, Doing, SleepChan
  <2> QED
    BY <2>1, Zenon DEF Locals
<1>12. Forks'
  <2>1. \A q \in P : /\ InFork(q)' => InFork(q) /\ loc'[q].arg = loc[q].arg
                     /\ Doing(q, "forkRunnable")' => Doing(q, "forkRunnable")
    BY <1>2, <1>3, Zenon DEF InFork, Doing
  <2> QED
    BY <2>1, ForksFrame, Zenon
<1>13. Family'
  <2>1. pc'[initproc] = "reparent" => pc[initproc] = "reparent"
    BY <1>2, <1>6, Zenon
  <2>2. \A q \in P : Childless(q)' => Childless(q)
    BY <1>2, Zenon DEF Childless
  <2>3. Childless(initproc)' => Childless(initproc)
    BY <1>6, <2>2, Zenon DEF initproc
  <2>4. \A q \in P : proc'[q].state \notin {"UNUSED", "USED"} =>
          proc[q].state \notin {"UNUSED", "USED"} /\ proc'[q].parent = proc[q].parent
    BY Zenon
  <2> QED
    BY <2>1, <2>2, <2>3, <2>4, FamilyFrame, Zenon
<1>14. Wakeups'
  <2>1. CASE l \notin {"sleep", "sleeping"} \/ (pc[p] \in {"sleep", "sleeping"} /\ v = loc[p])
    <3>1. \A q \in P :
           /\ proc'[q].state = "SLEEPING" => loc'[q].arg = loc[q].arg /\ loc'[q].n = loc[q].n
           /\ pc'[q] \in {"sleep", "sleeping"} =>
                /\ pc[q] \in {"sleep", "sleeping"} /\ loc'[q].lk = loc[q].lk
                /\ loc'[q].arg = loc[q].arg /\ loc'[q].n = loc[q].n
           /\ pc'[q] = "zombie" => pc[q] = "zombie"
      BY <1>2, <1>3, <1>9, <2>1
    <3> QED
      BY <1>4, <3>1, WakeupsFrame, Zenon
  <2>2. CASE /\ l \in {"sleep", "sleeping"}
             /\ v.lk = wait_lock => \A q \in P : proc[q].parent = p => proc[q].state # "ZOMBIE"
             /\ v.lk = tickslock => Elapsed(p)' < v.n
    <3>1. \A q \in P : AsleepInWait(q)' <=> AsleepInWait(q)
      BY Zenon DEF AsleepInWait
    <3>2. \A q \in P : q # p => Elapsed(q)' = Elapsed(q) /\ loc'[q] = loc[q] /\ pc'[q] = pc[q]
      BY <1>2, <1>3, <1>4, Zenon DEF Elapsed
    <3>3. ASSUME NEW r \in P, \/ AsleepInWait(r)'
                              \/ pc'[r] \in {"sleep", "sleeping"} /\ loc'[r].lk = wait_lock
          PROVE  \A q \in P : proc'[q].parent = r => proc'[q].state # "ZOMBIE"
      <4>1. CASE r = p
        BY <1>3, <1>9, <2>2, <3>1, <3>3, <4>1 DEF AsleepInWait
      <4>2. CASE r # p
        BY <3>1, <3>2, <3>3, <4>2 DEF Wakeups
      <4> QED
        BY <4>1, <4>2, Zenon
    <3>4. \A e \in P : pc'[e] = "zombie" => \A r \in P : proc'[e].parent = r => ~AsleepInWait(r)'
      BY <1>2, <2>2, <3>1, <3>2 DEF Wakeups
    <3>5. \A r \in P : /\ proc'[r].state = "SLEEPING" /\ proc'[r].chan = TicksChan
                       /\ ~tick'
                       => Elapsed(r)' < loc'[r].n
      BY <1>4, <1>9, <3>2 DEF Wakeups
    <3>6. \A r \in P : pc'[r] \in {"sleep", "sleeping"} /\ loc'[r].lk = tickslock => Elapsed(r)' < loc'[r].n
      BY <1>3, <2>2, <3>2 DEF Wakeups
    <3>7. TicksChan' = TicksChan /\ wait_lock' = wait_lock /\ tickslock' = tickslock
      BY Zenon DEF TicksChan, wait_lock, tickslock
    <3> QED
      BY <3>3, <3>4, <3>5, <3>6, <3>7, Zenon DEF Wakeups
  <2> QED
    BY <1>2, <1>3, <2>1, <2>2, Zenon
<1> QED
  BY <1>5, <1>7, <1>8, <1>10, <1>11, <1>12, <1>13, <1>14, Zenon

\* What the invariant says of a thread that runs on c, out of clockintr.
LEMMA RunFacts ==
  ASSUME ProcInv, NEW c \in CPUs, NEW p \in P, NEW l, At(c, p, l)
  PROVE  /\ cpu[c].proc = p /\ p # Nobody /\ pc[p] = l /\ ~Ticking(c) /\ pc[p] \in Active
         /\ cpu[c] \in CpuStruct /\ loc[p] \in LocStruct /\ lock \in [Locks -> 0..NCPU]
         /\ CpuOK(c) /\ LocalsOK(p) /\ StateOK(p) /\ cpu[c].noff = Depth(l)
         /\ \A m \in Locks : lock[m] = c <=> Keeps(p, m)
         /\ \A q \in P : q # p => \A d \in CPUs : cpu[d].proc = q => d # c
<1>1. cpu[c].proc = p /\ pc[p] = l /\ ~Ticking(c) /\ p # Nobody
  BY Consts, Zenon DEF At, Ticking
<1>2. CpuOK(c) /\ LocalsOK(p) /\ StateOK(p) /\ pc[p] \in Active
  BY <1>1, Zenon DEF ProcInv, Cpus, Locals, States, Stacks
<1>3. \A m \in Locks : lock[m] = c <=> Keeps(p, m)
  BY <1>1, Zenon DEF ProcInv, Locking, Needs
<1>4. cpu[c] \in CpuStruct /\ loc[p] \in LocStruct /\ lock \in [Locks -> 0..NCPU]
  BY Types, Zenon DEF ProcInv, TypeOK
<1>5. cpu[c].noff = Depth(l)
  <2>1. Depth(l) \in Nat
    BY Zenon DEF Depth
  <2> QED
    BY <1>1, <1>2, <2>1 DEF CpuOK
<1> QED
  BY <1>1, <1>2, <1>3, <1>4, <1>5, Zenon

\* A step that holds no lock before or after it, and notes nothing, to a place
\* with interrupts as they may be there.
LEMMA PlainStep ==
  ASSUME ProcInv, NEW c \in CPUs, NEW p \in P, NEW l, At(c, p, l), l \in Interruptible,
         NEW on \in BOOLEAN, Set(c, [cpu[c] EXCEPT !.intr = on]), Goto(p, "exit"),
         UNCHANGED <<lock, loc>>, Others,
         proc' \in [P -> ProcStruct],
         \A q \in P : /\ proc'[q].state = proc[q].state /\ proc'[q].chan = proc[q].chan
                      /\ proc'[q].parent = proc[q].parent
  PROVE  ProcInv'
<1> DEFINE k == [cpu[c] EXCEPT !.intr = on]
<1>1. /\ cpu[c].proc = p /\ p # Nobody /\ pc[p] = l /\ ~Ticking(c)
      /\ cpu[c] \in CpuStruct /\ loc[p] \in LocStruct /\ lock \in [Locks -> 0..NCPU]
      /\ LocalsOK(p) /\ StateOK(p) /\ cpu[c].noff = Depth(l)
      /\ \A m \in Locks : lock[m] = c <=> Keeps(p, m)
  BY RunFacts
<1>2. k \in CpuStruct /\ k.proc = p /\ k.noff = 0
  BY <1>1, Zenon DEF CpuStruct, Depth, Interruptible
<1> HIDE DEF k
<1>3. cpu'[c] = k /\ pc'[p] = "exit" /\ loc'[p] = loc[p] /\ (Ticking(c)' <=> Ticking(c))
  BY <1>2, Zenon DEF ProcInv, TypeOK, Set, Goto, Others, Ticking, k
<1>4. proc[p].state = "RUNNING"
  BY <1>1, Zenon DEF StateOK, On, Interruptible
<1>5. CpuOK(c)'
  BY <1>1, <1>2, <1>3 DEF CpuOK, Depth
<1>6. LocalsOK(p)' /\ loc[p].back = "user"
  BY <1>1, <1>3, <1>4, Zenon DEF LocalsOK, Doing, SleepChan, Interruptible
<1>7. ~InFork(p)' /\ ~Doing(p, "forkRunnable")'
  BY <1>3, <1>6, Zenon DEF InFork, Doing
<1>8. \A m \in Locks : ~Needs(c, m)' /\ lock[m] # c
  BY <1>1, <1>2, <1>3, Zenon DEF Needs, Keeps, Interruptible
<1>9. /\ pc' \in [P -> ThreadLabels] /\ pc'[p] \in On /\ \A q \in P : q # p => pc'[q] = pc[q]
      /\ cpu' \in [CPUs -> CpuStruct] /\ \A d \in CPUs \ {c} : cpu'[d] = cpu[d]
      /\ loc' \in [P -> LocStruct] /\ loc' = loc
  BY <1>2, Zenon DEF ProcInv, TypeOK, ThreadLabels, On, Goto, Set, k, LocStruct
<1>10. /\ lock' \in [Locks -> 0..NCPU]
       /\ \A m \in Locks : IF Needs(c, m)' THEN lock[m] \in {c, Nobody} /\ lock'[m] = c
                           ELSE lock'[m] = IF lock[m] = c THEN Nobody ELSE lock[m]
  BY <1>1, <1>8, Zenon
<1>11. pc[p] # "swtch"
  BY <1>1, Zenon DEF Interruptible
<1> QED
  BY <1>1, <1>2, <1>3, <1>5, <1>6, <1>7, <1>9, <1>10, <1>11, ThreadStep, Zenon

\* usertrap sends a killed process and one that faults to exit.
LEMMA UsertrapInv ==
  ASSUME ProcInv, NEW c \in CPUs, NEW p \in P,
         usertrapKilled(c, p) \/ usertrapFault(c, p) \/ exit(c, p)
  PROVE  ProcInv'
<1>1. \A q \in P : proc[q] \in ProcStruct
  BY Types, Zenon
<1>2. proc \in [P -> ProcStruct] /\ cpu \in [CPUs -> CpuStruct] /\ cpu[c].intr \in BOOLEAN
  BY Types, Zenon DEF ProcInv, TypeOK
<1>3. CASE usertrapKilled(c, p)
  BY <1>2, <1>3, PlainStep, Zenon DEF usertrapKilled, Interruptible
<1>4. CASE usertrapFault(c, p)
  <2> DEFINE r == [proc[p] EXCEPT !.killed = TRUE]
  <2>1. r \in ProcStruct /\ r.state = proc[p].state /\ r.chan = proc[p].chan /\ r.parent = proc[p].parent
    BY <1>1, Zenon DEF ProcStruct
  <2>2. proc' = [proc EXCEPT ![p] = r]
    BY <1>4, Zenon DEF usertrapFault
  <2> HIDE DEF r
  <2>3. /\ proc' \in [P -> ProcStruct]
        /\ \A q \in P : /\ proc'[q].state = proc[q].state /\ proc'[q].chan = proc[q].chan
                        /\ proc'[q].parent = proc[q].parent
    BY <1>2, <2>1, <2>2, Zenon
  <2> QED
    BY <1>4, <2>3, PlainStep, Zenon DEF usertrapFault, Interruptible
<1>5. CASE exit(c, p)
  <2>1. Set(c, [cpu[c] EXCEPT !.intr = cpu[c].intr])
    <3>1. [cpu[c] EXCEPT !.intr = cpu[c].intr] = cpu[c]
      BY <1>2, Zenon DEF CpuStruct
    <3> QED
      BY <1>2, <1>5, <3>1, Zenon DEF Set, exit
  <2> QED
    BY <1>2, <1>5, <2>1, PlainStep, Zenon DEF exit, Syscall, Interruptible
<1> QED
  BY <1>3, <1>4, <1>5, Zenon

\* acquire takes the lock for c and counts.
LEMMA AcquireEffect ==
  ASSUME ProcInv, NEW c \in CPUs, NEW m \in Locks, acquire(c, m), cpu[c].noff < 3
  PROVE  /\ lock' \in [Locks -> 0..NCPU] /\ lock'[m] = c
         /\ \A x \in Locks : x # m => lock'[x] = lock[x]
         /\ cpu' \in [CPUs -> CpuStruct] /\ \A d \in CPUs \ {c} : cpu'[d] = cpu[d]
         /\ cpu'[c].proc = cpu[c].proc /\ cpu'[c].noff = cpu[c].noff + 1 /\ ~cpu'[c].intr
         /\ cpu[c].noff = 0 => cpu'[c].intena = cpu[c].intr
         /\ cpu[c].noff # 0 => cpu'[c].intena = cpu[c].intena
<1>1. cpu[c] \in CpuStruct /\ cpu \in [CPUs -> CpuStruct] /\ lock \in [Locks -> 0..NCPU]
  BY Types, Zenon DEF ProcInv, TypeOK
<1>2. push_off(cpu[c]) \in CpuStruct
  BY <1>1, PushFacts, Zenon
<1>3. /\ cpu' \in [CPUs -> CpuStruct] /\ cpu'[c] = push_off(cpu[c])
      /\ \A d \in CPUs \ {c} : cpu'[d] = cpu[d]
  BY <1>1, <1>2, Zenon DEF acquire, Set
<1>4. /\ lock' \in [Locks -> 0..NCPU] /\ lock'[m] = c /\ \A x \in Locks : x # m => lock'[x] = lock[x]
  BY <1>1, Consts, Zenon DEF acquire
<1> QED
  BY <1>1, <1>3, <1>4, PushFacts

\* A thread that takes one more lock and goes on to where it is held.
LEMMA AcquireStep ==
  ASSUME ProcInv, NEW c \in CPUs, NEW p \in P, NEW l, At(c, p, l), l # "swtch",
         NEW m \in Locks, Free(m), acquire(c, m), Depth(l) < 2,
         NEW t \in {"scan", "nap", "reparent", "sleeping"}, Goto(p, t), Depth(t) = Depth(l) + 1,
         UNCHANGED proc, Others,
         loc' \in [P -> LocStruct], \A q \in P : q # p => loc'[q] = loc[q],
         LocalsOK(p)', \A x \in Locks : Keeps(p, x)' <=> Keeps(p, x) \/ x = m,
         t \in {"scan", "nap"} => cpu[c].intr, t = "reparent" => p # initproc,
         t = "sleeping" => l = "sleep" /\ loc'[p] = loc[p]
  PROVE  ProcInv'
<1>1. /\ cpu[c].proc = p /\ p # Nobody /\ pc[p] = l /\ ~Ticking(c)
      /\ CpuOK(c) /\ cpu[c].noff = Depth(l) /\ \A x \in Locks : lock[x] = c <=> Keeps(p, x)
  BY RunFacts
<1>2. Depth(l) \in Nat
  BY Zenon DEF Depth
<1>3. /\ lock' \in [Locks -> 0..NCPU] /\ lock'[m] = c
      /\ \A x \in Locks : x # m => lock'[x] = lock[x]
      /\ cpu' \in [CPUs -> CpuStruct] /\ \A d \in CPUs \ {c} : cpu'[d] = cpu[d]
      /\ cpu'[c].proc = p /\ cpu'[c].noff = Depth(l) + 1 /\ ~cpu'[c].intr
      /\ Depth(l) = 0 => cpu'[c].intena = cpu[c].intr
      /\ Depth(l) # 0 => cpu'[c].intena = cpu[c].intena
  BY <1>1, <1>2, AcquireEffect
<1>4. /\ pc' \in [P -> ThreadLabels] /\ pc'[p] = t /\ \A q \in P : q # p => pc'[q] = pc[q]
  BY Zenon DEF ProcInv, TypeOK, Goto, ThreadLabels
<1>5. Ticking(c)' <=> Ticking(c)
  BY Zenon DEF Others, Ticking
<1>6. CpuOK(c)'
  <2>1. cpu'[c].noff > 0 /\ cpu'[c].noff = 0 + Depth(t)
    BY <1>2, <1>3
  <2>2. t \in {"scan", "nap"} => cpu'[c].intena
    BY <1>1, <1>3 DEF Depth
  <2>3. t = "sleeping" => cpu'[c].intena
    BY <1>1, <1>3 DEF Depth, CpuOK
  <2> HIDE DEF Depth
  <2> QED
    BY <1>1, <1>3, <1>4, <1>5, <2>1, <2>2, <2>3, Zenon DEF CpuOK
<1>7. \A x \in Locks : IF Needs(c, x)' THEN lock[x] \in {c, Nobody} /\ lock'[x] = c
                       ELSE lock'[x] = IF lock[x] = c THEN Nobody ELSE lock[x]
  <2>1. \A x \in Locks : Needs(c, x)' <=> Keeps(p, x)'
    BY <1>1, <1>3, <1>5, Zenon DEF Needs
  <2> QED
    BY <1>1, <1>3, <2>1 DEF Free
<1>8. ~InFork(p)' /\ ~Doing(p, "forkRunnable")'
  BY <1>4, Zenon DEF InFork, Doing, LocalsOK
<1>9. proc' \in [P -> ProcStruct] /\ t \in On /\ t \notin {"wakeParent", "zombie"} /\ t # "sleep"
  BY Zenon DEF ProcInv, TypeOK, On
<1> QED
  BY <1>1, <1>3, <1>4, <1>6, <1>7, <1>8, <1>9, ThreadStep

\* Taking wait_lock in wait and exit, tickslock in sys_sleep, either again after a
\* sleep, and p->lock in sleep.
LEMMA TakeLockInv ==
  ASSUME ProcInv, NEW c \in CPUs, NEW p \in P,
         wait(c, p) \/ sys_sleep(c, p) \/ exitLock(c, p) \/ relock(c, p) \/ sleepLock(c, p)
  PROVE  ProcInv'
<1>1. loc[p] \in LocStruct /\ loc \in [P -> LocStruct]
  BY Types, Zenon DEF ProcInv, TypeOK, LocStruct
<1>2. wait_lock \in Locks /\ tickslock \in Locks /\ p \in Locks /\ wait_lock # tickslock
  BY Consts, Zenon
<1>3. CASE wait(c, p)
  <2> DEFINE v == [loc[p] EXCEPT !.lk = wait_lock]
  <2>1. v \in LocStruct /\ v.lk = wait_lock /\ v.back = loc[p].back
    BY <1>1, Zenon DEF LocStruct
  <2>2. loc' = [loc EXCEPT ![p] = v]
    BY <1>3, Zenon DEF wait
  <2> HIDE DEF v
  <2>3. loc' \in [P -> LocStruct] /\ loc'[p] = v /\ \A q \in P : q # p => loc'[q] = loc[q]
    BY <1>1, <2>1, <2>2, Zenon
  <2>4. /\ At(c, p, "user") /\ Free(wait_lock) /\ acquire(c, wait_lock) /\ Goto(p, "scan")
        /\ UNCHANGED proc /\ Others
    BY <1>3, Zenon DEF wait, Syscall
  <2>5. pc[p] = "user" /\ LocalsOK(p) /\ StateOK(p) /\ CpuOK(c) /\ ~Ticking(c) /\ cpu[c].proc = p /\ p # Nobody
    BY <2>4, RunFacts, Zenon
  <2>6. pc'[p] = "scan" /\ proc[p].state = "RUNNING" /\ cpu[c].intr
    BY <2>4, <2>5, Zenon DEF Goto, ProcInv, TypeOK, StateOK, On, CpuOK
  <2>7. LocalsOK(p)'
    BY <2>1, <2>3, <2>4, <2>5, <2>6, Zenon DEF LocalsOK, Doing, Interruptible
  <2>8. \A x \in Locks : Keeps(p, x)' <=> Keeps(p, x) \/ x = wait_lock
    BY <2>5, <2>6, Zenon DEF Keeps
  <2>9. Depth("user") = 0 /\ Depth("scan") = 1
    BY Zenon DEF Depth
  <2> QED
    BY <1>2, <2>3, <2>4, <2>6, <2>7, <2>8, <2>9, AcquireStep
<1>4. CASE sys_sleep(c, p)
  <2>0. PICK n \in Naps : loc' = [loc EXCEPT ![p].lk = tickslock, ![p].arg = ticks, ![p].n = n]
    BY <1>4, Zenon DEF sys_sleep
  <2> DEFINE v == [loc[p] EXCEPT !.lk = tickslock, !.arg = ticks, !.n = n]
  <2>1. v \in LocStruct /\ v.lk = tickslock /\ v.back = loc[p].back
    <3>1. ticks \in 0..(NPROC + TickMod) /\ n \in 0..TickMod
      BY ProcAssumption DEF ProcInv, TypeOK
    <3> QED
      BY <1>1, <3>1, Zenon DEF LocStruct
  <2>2. loc' = [loc EXCEPT ![p] = v]
    BY <2>0, Zenon
  <2> HIDE DEF v
  <2>3. loc' \in [P -> LocStruct] /\ loc'[p] = v /\ \A q \in P : q # p => loc'[q] = loc[q]
    BY <1>1, <2>1, <2>2, Zenon
  <2>4. /\ At(c, p, "user") /\ Free(tickslock) /\ acquire(c, tickslock) /\ Goto(p, "nap")
        /\ UNCHANGED proc /\ Others
    BY <1>4, Zenon DEF sys_sleep, Syscall
  <2>5. pc[p] = "user" /\ LocalsOK(p) /\ StateOK(p) /\ CpuOK(c) /\ ~Ticking(c) /\ cpu[c].proc = p /\ p # Nobody
    BY <2>4, RunFacts, Zenon
  <2>6. pc'[p] = "nap" /\ proc[p].state = "RUNNING" /\ cpu[c].intr
    BY <2>4, <2>5, Zenon DEF Goto, ProcInv, TypeOK, StateOK, On, CpuOK
  <2>7. LocalsOK(p)'
    BY <2>1, <2>3, <2>4, <2>5, <2>6, Zenon DEF LocalsOK, Doing, Interruptible
  <2>8. \A x \in Locks : Keeps(p, x)' <=> Keeps(p, x) \/ x = tickslock
    BY <2>5, <2>6, Zenon DEF Keeps
  <2>9. Depth("user") = 0 /\ Depth("nap") = 1
    BY Zenon DEF Depth
  <2> QED
    BY <1>2, <2>3, <2>4, <2>6, <2>7, <2>8, <2>9, AcquireStep
<1>5. CASE exitLock(c, p)
  <2>4. /\ At(c, p, "exit") /\ Free(wait_lock) /\ acquire(c, wait_lock) /\ Goto(p, "reparent")
        /\ UNCHANGED <<proc, loc>> /\ Others /\ p # initproc
    BY <1>5, Zenon DEF exitLock
  <2>5. pc[p] = "exit" /\ LocalsOK(p) /\ StateOK(p)
    BY <2>4, RunFacts, Zenon
  <2>6. pc'[p] = "reparent" /\ proc[p].state = "RUNNING"
    BY <2>4, <2>5, Zenon DEF Goto, ProcInv, TypeOK, StateOK, On
  <2>7. LocalsOK(p)'
    BY <2>4, <2>5, <2>6, Zenon DEF LocalsOK, Doing, Interruptible
  <2>8. \A x \in Locks : Keeps(p, x)' <=> Keeps(p, x) \/ x = wait_lock
    BY <2>5, <2>6, Zenon DEF Keeps
  <2>9. Depth("exit") = 0 /\ Depth("reparent") = 1
    BY Zenon DEF Depth
  <2> QED
    BY <1>1, <1>2, <2>4, <2>6, <2>7, <2>8, <2>9, AcquireStep
<1>6. CASE relock(c, p)
  <2>3. loc[p].lk \in {wait_lock, tickslock} /\ pc[p] = "relock" /\ LocalsOK(p) /\ StateOK(p) /\ CpuOK(c)
        /\ ~Ticking(c) /\ cpu[c].proc = p /\ p # Nobody
    BY <1>6, RunFacts DEF relock, LocalsOK, Doing
  <2> DEFINE t == AfterSleep(p)
  <2>4. /\ At(c, p, "relock") /\ Free(loc[p].lk) /\ acquire(c, loc[p].lk) /\ Goto(p, t)
        /\ UNCHANGED <<proc, loc>> /\ Others
    BY <1>6, Zenon DEF relock
  <2>5. /\ t \in {"scan", "nap"} /\ (t = "scan" => loc[p].lk = wait_lock)
        /\ (t = "nap" => loc[p].lk = tickslock)
    BY <1>2, <2>3, Zenon DEF AfterSleep
  <2> HIDE DEF t
  <2>6. pc'[p] = t /\ proc[p].state = "RUNNING" /\ cpu[c].intr
    BY <2>3, <2>4, Zenon DEF Goto, ProcInv, TypeOK, StateOK, On, CpuOK
  <2>7. LocalsOK(p)'
    BY <2>3, <2>4, <2>5, <2>6, Zenon DEF LocalsOK, Doing, Interruptible
  <2>8. \A x \in Locks : Keeps(p, x)' <=> Keeps(p, x) \/ x = loc[p].lk
    BY <2>3, <2>4, <2>5, <2>6, Zenon DEF Keeps
  <2>9. Depth("relock") = 0 /\ Depth("nap") = 1 /\ Depth("scan") = 1
    BY Zenon DEF Depth
  <2> QED
    BY <1>1, <1>2, <2>3, <2>4, <2>5, <2>6, <2>7, <2>8, <2>9, AcquireStep
<1>7. CASE sleepLock(c, p)
  <2>4. /\ At(c, p, "sleep") /\ Free(p) /\ acquire(c, p) /\ Goto(p, "sleeping")
        /\ UNCHANGED <<proc, loc>> /\ Others
    BY <1>7, Zenon DEF sleepLock
  <2>5. pc[p] = "sleep" /\ LocalsOK(p) /\ StateOK(p)
    BY <2>4, RunFacts, Zenon
  <2>6. pc'[p] = "sleeping" /\ proc[p].state = "RUNNING"
    BY <2>4, <2>5, Zenon DEF Goto, ProcInv, TypeOK, StateOK, On
  <2>7. LocalsOK(p)'
    BY <2>4, <2>5, <2>6, Zenon DEF LocalsOK, Doing, Interruptible
  <2>8. \A x \in Locks : Keeps(p, x)' <=> Keeps(p, x) \/ x = p
    BY <2>4, <2>5, <2>6, Zenon DEF Keeps
  <2>9. Depth("sleep") = 1 /\ Depth("sleeping") = 2
    BY Zenon DEF Depth
  <2> QED
    BY <1>1, <1>2, <2>4, <2>6, <2>7, <2>8, <2>9, AcquireStep
<1> QED
  BY <1>3, <1>4, <1>5, <1>6, <1>7, Zenon

-----------------------------------------------------------------------------
(* Returning to user space.                                                *)

\* usertrapret clears the locals, and user code runs with interrupts on.
LEMMA ReturnEffect ==
  ASSUME ProcInv, NEW c \in CPUs, NEW p \in P, NEW k \in CpuStruct, k.proc = p, k.noff = 0,
         usertrapret(c, p, k)
  PROVE  /\ pc' \in [P -> ThreadLabels] /\ pc'[p] = "user" /\ \A q \in P : q # p => pc'[q] = pc[q]
         /\ loc' \in [P -> LocStruct] /\ loc'[p] = NoLocals /\ \A q \in P : q # p => loc'[q] = loc[q]
         /\ cpu' \in [CPUs -> CpuStruct] /\ \A d \in CPUs \ {c} : cpu'[d] = cpu[d]
         /\ cpu'[c].proc = p /\ cpu'[c].noff = 0 /\ cpu'[c].intr
         /\ NoLocals.back = "user"
<1> DEFINE r == [k EXCEPT !.intr = TRUE]
<1>1. r \in CpuStruct /\ r.proc = p /\ r.noff = 0 /\ r.intr
  BY Zenon DEF CpuStruct
<1>2. NoLocals \in LocStruct /\ NoLocals.back = "user"
  BY ProcAssumption DEF NoLocals, LocStruct, ThreadLabels
<1>3. /\ pc' = [pc EXCEPT ![p] = "user"] /\ loc' = [loc EXCEPT ![p] = NoLocals]
      /\ cpu' = [cpu EXCEPT ![c] = r]
  BY Zenon DEF usertrapret, Goto, Set
<1>4. pc \in [P -> ThreadLabels] /\ loc \in [P -> LocStruct] /\ cpu \in [CPUs -> CpuStruct]
  BY Zenon DEF ProcInv, TypeOK, LocStruct
<1> HIDE DEF r, NoLocals
<1>5. pc' \in [P -> ThreadLabels] /\ pc'[p] = "user" /\ \A q \in P : q # p => pc'[q] = pc[q]
  BY <1>3, <1>4, Zenon DEF ThreadLabels
<1> QED
  BY <1>1, <1>2, <1>3, <1>4, <1>5, Zenon

\* The CPU and the locals of a process in user space are as they should be.
LEMMA UserOK ==
  ASSUME ProcInv, NEW c \in CPUs, NEW p \in P,
         pc'[p] = "user", loc'[p] = NoLocals, cpu'[c].proc = p,
         cpu'[c].noff = 0, cpu'[c].intr, ~Ticking(c)', proc'[p].state = "RUNNING"
  PROVE  CpuOK(c)' /\ LocalsOK(p)' /\ ~InFork(p)' /\ StateOK(p)' /\ \A x \in Locks : ~Needs(c, x)'
<1>1. NoLocals.back = "user" /\ p # Nobody
  BY Consts, Zenon DEF NoLocals
<1>2. CpuOK(c)'
  BY <1>1 DEF CpuOK, Depth, Interruptible
<1>3. LocalsOK(p)'
  BY <1>1, Zenon DEF LocalsOK, Doing, Interruptible
<1>4. ~InFork(p)' /\ StateOK(p)'
  BY <1>1, Zenon DEF InFork, Doing, StateOK, On
<1>5. \A x \in Locks : ~Needs(c, x)'
  BY <1>1, Zenon DEF Needs, Keeps
<1> QED
  BY <1>2, <1>3, <1>4, <1>5, Zenon

\* Leave releases the one lock that the thread holds.
LEMMA LeaveEffect ==
  ASSUME ProcInv, NEW c \in CPUs, NEW p \in P, NEW l, At(c, p, l), l \in {"scan", "nap"},
         NEW m \in Locks, m = (IF l = "scan" THEN wait_lock ELSE tickslock), Leave(c, p, m), Others,
         proc'[p].state = proc[p].state
  PROVE  /\ pc' \in [P -> ThreadLabels] /\ pc'[p] = "user" /\ \A q \in P : q # p => pc'[q] = pc[q]
         /\ loc' \in [P -> LocStruct] /\ loc'[p] = NoLocals /\ \A q \in P : q # p => loc'[q] = loc[q]
         /\ cpu' \in [CPUs -> CpuStruct] /\ \A d \in CPUs \ {c} : cpu'[d] = cpu[d]
         /\ cpu[c].proc = p /\ cpu'[c].proc = p /\ proc[p].state = "RUNNING" /\ pc[p] = l
         /\ lock' \in [Locks -> 0..NCPU]
         /\ \A x \in Locks : IF Needs(c, x)' THEN lock[x] \in {c, Nobody} /\ lock'[x] = c
                             ELSE lock'[x] = IF lock[x] = c THEN Nobody ELSE lock[x]
         /\ CpuOK(c)' /\ LocalsOK(p)' /\ ~InFork(p)' /\ StateOK(p)'
<1>1. /\ cpu[c].proc = p /\ p # Nobody /\ pc[p] = l /\ ~Ticking(c) /\ cpu[c] \in CpuStruct
      /\ StateOK(p) /\ cpu[c].noff = Depth(l) /\ lock \in [Locks -> 0..NCPU]
      /\ \A x \in Locks : lock[x] = c <=> Keeps(p, x)
  BY RunFacts, Zenon
<1>2. Depth(l) = 1 /\ proc[p].state = "RUNNING"
  BY <1>1, Zenon DEF Depth, StateOK, On
<1>3. /\ pop_off(cpu[c]) \in CpuStruct /\ pop_off(cpu[c]).proc = p /\ pop_off(cpu[c]).noff = 0
  BY <1>1, <1>2, PopFacts
<1>4. usertrapret(c, p, pop_off(cpu[c])) /\ lock' = [lock EXCEPT ![m] = Nobody]
  BY Zenon DEF Leave
<1>5. /\ pc' \in [P -> ThreadLabels] /\ pc'[p] = "user" /\ \A q \in P : q # p => pc'[q] = pc[q]
      /\ loc' \in [P -> LocStruct] /\ loc'[p] = NoLocals /\ \A q \in P : q # p => loc'[q] = loc[q]
      /\ cpu' \in [CPUs -> CpuStruct] /\ \A d \in CPUs \ {c} : cpu'[d] = cpu[d]
      /\ cpu'[c].proc = p /\ cpu'[c].noff = 0 /\ cpu'[c].intr
  BY <1>3, <1>4, ReturnEffect
<1>6. ~Ticking(c)'
  BY <1>1, Zenon DEF Others, Ticking
<1>7. CpuOK(c)' /\ LocalsOK(p)' /\ ~InFork(p)' /\ StateOK(p)' /\ \A x \in Locks : ~Needs(c, x)'
  BY <1>2, <1>5, <1>6, UserOK, Zenon
<1>8. \A x \in Locks : lock[x] = c => x = m
  BY <1>1, Zenon DEF Keeps
<1>9. /\ lock' \in [Locks -> 0..NCPU] /\ lock'[m] = Nobody /\ \A x \in Locks : x # m => lock'[x] = lock[x]
  BY <1>1, <1>4, Consts, Zenon
<1>10. lock[m] = c
  BY <1>1, Consts, Zenon DEF Keeps
<1>11. \A x \in Locks : IF Needs(c, x)' THEN lock[x] \in {c, Nobody} /\ lock'[x] = c
                        ELSE lock'[x] = IF lock[x] = c THEN Nobody ELSE lock[x]
  BY <1>7, <1>8, <1>9, <1>10, Zenon
<1> QED
  BY <1>1, <1>2, <1>5, <1>7, <1>9, <1>11, Zenon

\* Leaving wait or sys_sleep with the table as it was.
LEMMA LeaveStep ==
  ASSUME ProcInv, NEW c \in CPUs, NEW p \in P, NEW l, At(c, p, l), l \in {"scan", "nap"},
         Leave(c, p, IF l = "scan" THEN wait_lock ELSE tickslock), Others, UNCHANGED proc
  PROVE  ProcInv'
<1> DEFINE m == IF l = "scan" THEN wait_lock ELSE tickslock
<1>1. m \in Locks
  BY Consts, Zenon
<1>2. proc' \in [P -> ProcStruct]
  BY Zenon DEF ProcInv, TypeOK
<1> HIDE DEF m
<1>3. m = (IF l = "scan" THEN wait_lock ELSE tickslock) /\ Leave(c, p, m)
  BY Zenon DEF m
<1>4. /\ pc' \in [P -> ThreadLabels] /\ pc'[p] = "user" /\ \A q \in P : q # p => pc'[q] = pc[q]
      /\ loc' \in [P -> LocStruct] /\ \A q \in P : q # p => loc'[q] = loc[q]
      /\ cpu' \in [CPUs -> CpuStruct] /\ \A d \in CPUs \ {c} : cpu'[d] = cpu[d]
      /\ cpu[c].proc = p /\ cpu'[c].proc = p /\ pc[p] # "swtch"
      /\ lock' \in [Locks -> 0..NCPU]
      /\ \A x \in Locks : IF Needs(c, x)' THEN lock[x] \in {c, Nobody} /\ lock'[x] = c
                          ELSE lock'[x] = IF lock[x] = c THEN Nobody ELSE lock[x]
      /\ CpuOK(c)' /\ LocalsOK(p)' /\ ~InFork(p)'
  BY <1>1, <1>3, LeaveEffect
<1>5. ~Doing(p, "forkRunnable")' /\ "user" \in On
  BY <1>4, Zenon DEF InFork, On
<1> QED
  BY <1>2, <1>4, <1>5, ThreadStep, Zenon

\* wait without a zombie and the loop of sys_sleep: they leave, or go to sleep
\* with nothing there to wake them yet.
LEMMA LoopInv ==
  ASSUME ProcInv, NEW c \in CPUs, NEW p \in P, waitNone(c, p) \/ sys_sleepLoop(c, p)
  PROVE  ProcInv'
<1>1. PICK l \in {"scan", "nap"} : At(c, p, l) /\ UNCHANGED proc /\ Others
  BY Zenon DEF waitNone, sys_sleepLoop
<1>2. CASE Leave(c, p, IF l = "scan" THEN wait_lock ELSE tickslock)
  BY <1>1, <1>2, LeaveStep, Zenon
<1>3. CASE /\ Goto(p, "sleep") /\ UNCHANGED <<lock, cpu, loc>>
           /\ l = "scan" => Zombies(p) = {}
           /\ l = "nap" => Elapsed(p) < loc[p].n
  <2>1. /\ cpu[c].proc = p /\ p # Nobody /\ pc[p] = l /\ ~Ticking(c)
        /\ LocalsOK(p) /\ StateOK(p) /\ CpuOK(c) /\ cpu[c].noff = Depth(l)
        /\ \A x \in Locks : lock[x] = c <=> Keeps(p, x)
    BY <1>1, RunFacts, Zenon
  <2>2. /\ pc' \in [P -> ThreadLabels] /\ pc'[p] = "sleep" /\ \A q \in P : q # p => pc'[q] = pc[q]
        /\ cpu' \in [CPUs -> CpuStruct] /\ loc' \in [P -> LocStruct] /\ proc' \in [P -> ProcStruct]
        /\ lock' \in [Locks -> 0..NCPU]
    BY <1>1, <1>3, Zenon DEF ProcInv, TypeOK, Goto, ThreadLabels, LocStruct
  <2>3. Ticking(c)' <=> Ticking(c)
    BY <1>1, Zenon DEF Others, Ticking
  <2>4. loc[p].lk = (IF l = "scan" THEN wait_lock ELSE tickslock) /\ proc[p].state = "RUNNING"
    BY <2>1, Zenon DEF LocalsOK, StateOK, On
  <2>5. CpuOK(c)'
    BY <1>3, <2>1, <2>2, <2>3, Zenon DEF CpuOK, Depth
  <2>6. LocalsOK(p)' /\ ~InFork(p)' /\ ~Doing(p, "forkRunnable")'
    <3>1. LocalsOK(p)'
      BY <1>1, <1>3, <2>1, <2>2, <2>4, Zenon DEF LocalsOK, Doing
    <3> QED
      BY <2>2, <3>1, Zenon DEF InFork, Doing, LocalsOK
  <2>7. \A x \in Locks : IF Needs(c, x)' THEN lock[x] \in {c, Nobody} /\ lock'[x] = c
                         ELSE lock'[x] = IF lock[x] = c THEN Nobody ELSE lock[x]
    <3>1. \A x \in Locks : Needs(c, x)' <=> Keeps(p, x)'
      BY <1>3, <2>1, <2>3, Zenon DEF Needs
    <3>2. \A x \in Locks : Keeps(p, x)' <=> Keeps(p, x)
      BY <1>3, <2>1, <2>2, <2>4, Zenon DEF Keeps
    <3> QED
      BY <1>3, <2>1, <3>1, <3>2, Zenon
  <2>8. l = "scan" => \A q \in P : proc[q].parent = p => proc[q].state # "ZOMBIE"
    BY <1>3, Zenon DEF Zombies, Children
  <2>9. l = "nap" => Elapsed(p)' < loc'[p].n
    BY <1>1, <1>3, Zenon DEF Elapsed, Others
  <2>10. /\ loc'[p].lk = wait_lock => \A q \in P : proc[q].parent = p => proc[q].state # "ZOMBIE"
         /\ loc'[p].lk = tickslock => Elapsed(p)' < loc'[p].n
    BY <1>3, <2>4, <2>8, <2>9, Consts, Zenon
  <2>11. "sleep" \in On /\ pc[p] # "swtch"
    BY <2>1, Zenon DEF On
  <2> QED
    BY <1>1, <1>3, <2>1, <2>2, <2>5, <2>6, <2>7, <2>10, <2>11, ThreadStep, Zenon
<1>4. CASE waitNone(c, p)
  <2>1. l = "scan" /\ Zombies(p) = {}
    BY <1>1, <1>4, Zenon DEF waitNone, At
  <2> QED
    BY <1>2, <1>3, <1>4, <2>1, Zenon DEF waitNone
<1>5. CASE sys_sleepLoop(c, p)
  <2>1. l = "nap"
    BY <1>1, <1>5, Zenon DEF sys_sleepLoop, At
  <2> QED
    BY <1>2, <1>3, <1>5, <2>1, Zenon DEF sys_sleepLoop
<1> QED
  BY <1>4, <1>5, Zenon

-----------------------------------------------------------------------------
(* Steps that change the table.                                            *)

\* A process that the step leaves where it was, but may have woken.
LEMMA BystanderOK ==
  ASSUME ProcInv, NEW q \in P, pc'[q] = pc[q], loc'[q] = loc[q],
         \/ proc'[q].state = proc[q].state /\ proc'[q].chan = proc[q].chan
         \/ pc[q] = "slept" /\ proc'[q].state = "RUNNABLE"
  PROVE  /\ StateOK(q)' /\ LocalsOK(q)' /\ (InFork(q)' <=> InFork(q))
         /\ Doing(q, "forkRunnable")' <=> Doing(q, "forkRunnable")
<1>1. StateOK(q) /\ LocalsOK(q)
  BY Zenon DEF ProcInv, States, Locals
<1>2. StateOK(q)'
  BY <1>1, Zenon DEF StateOK, On
<1>3. LocalsOK(q)'
  BY <1>1, Zenon DEF LocalsOK, Doing, SleepChan
<1>4. /\ (InFork(q)' <=> InFork(q))
      /\ Doing(q, "forkRunnable")' <=> Doing(q, "forkRunnable")
  BY Zenon DEF InFork, Doing
<1> QED
  BY <1>2, <1>3, <1>4, Zenon

\* A step of p on c, which may wake others or make a new process, assembled from
\* its parts.
LEMMA TableStep ==
  ASSUME ProcInv, NEW c \in CPUs, NEW p \in P, cpu[c].proc = p,
         pc' \in [P -> ThreadLabels], pc'[p] \in Active,
         cpu' \in [CPUs -> CpuStruct], cpu'[c].proc = p, \A d \in CPUs \ {c} : cpu'[d] = cpu[d],
         loc' \in [P -> LocStruct], proc' \in [P -> ProcStruct], lock' \in [Locks -> 0..NCPU],
         tick' = tick, ticks' = ticks, panicked' = panicked, nextpid' \in 1..(MaxPid + 1),
         \A q \in P : q # p =>
           \/ /\ pc'[q] = pc[q] /\ loc'[q] = loc[q]
              /\ \/ proc'[q].state = proc[q].state /\ proc'[q].chan = proc[q].chan
                 \/ pc[q] = "slept" /\ proc'[q].state = "RUNNABLE"
           \/ /\ pc[q] \notin Active /\ pc'[q] = "forkret" /\ loc'[q].back = "user"
              /\ proc'[q].state \in {"USED", "RUNNABLE"},
         \A m \in Locks : IF Needs(c, m)' THEN lock[m] \in {c, Nobody} /\ lock'[m] = c
                          ELSE lock'[m] = IF lock[m] = c THEN Nobody ELSE lock[m],
         CpuOK(c)', StateOK(p)', LocalsOK(p)', Forks', Family', Wakeups'
  PROVE  ProcInv'
<1>1. TypeOK'
  BY Zenon DEF ProcInv, TypeOK, LocStruct
<1>2. Stacks' /\ Locking' /\ \A d \in CPUs \ {c} : CpuOK(d)'
  <2>1. \A d \in CPUs \ {c} : cpu'[d] = cpu[d] /\ (Ticking(d)' <=> Ticking(d))
    BY Zenon DEF Ticking
  <2>2. \A q \in P : q # p =>
          \/ pc'[q] = pc[q] /\ loc'[q] = loc[q] /\ (pc[q] = "swtch" => proc'[q].state = proc[q].state)
          \/ pc[q] \notin Active /\ pc'[q] \notin Active
    BY Zenon DEF Active, On
  <2> QED
    BY <2>1, <2>2, CpuFrame, Zenon
<1>3. \A q \in P : StateOK(q)' /\ LocalsOK(q)'
  <2> SUFFICES ASSUME NEW q \in P, q # p PROVE StateOK(q)' /\ LocalsOK(q)'
    BY Zenon
  <2>1. CASE pc'[q] = pc[q] /\ loc'[q] = loc[q] /\
             (\/ proc'[q].state = proc[q].state /\ proc'[q].chan = proc[q].chan
              \/ pc[q] = "slept" /\ proc'[q].state = "RUNNABLE")
    BY <2>1, BystanderOK, Zenon
  <2>2. CASE pc'[q] = "forkret" /\ loc'[q].back = "user" /\ proc'[q].state \in {"USED", "RUNNABLE"}
    <3>1. StateOK(q)'
      BY <2>2, Zenon DEF StateOK, On
    <3>2. LocalsOK(q)'
      BY <2>2, Zenon DEF LocalsOK, Doing, Interruptible
    <3> QED
      BY <3>1, <3>2, Zenon
  <2> QED
    BY <2>1, <2>2, Zenon
<1>4. States' /\ Locals' /\ Cpus'
  BY <1>2, <1>3, Zenon DEF States, Locals, Cpus
<1> QED
  BY <1>1, <1>2, <1>4, Zenon DEF ProcInv

\* A process that is UNUSED or USED is on no CPU and waits to be switched to for
\* the first time, or was freed.
LEMMA NewFacts ==
  ASSUME ProcInv, NEW q \in P, proc[q].state \in {"UNUSED", "USED"}
  PROVE  /\ pc[q] \notin Active /\ ~InFork(q) /\ loc[q].back = "user"
         /\ proc[q].state = "USED" => pc[q] = "forkret"
<1>1. StateOK(q) /\ LocalsOK(q) /\ pc[q] \in ThreadLabels
  BY Types, Zenon DEF ProcInv, States, Locals
<1>2. pc[q] \in {"forkret", "dead"} /\ (proc[q].state = "USED" => pc[q] = "forkret")
  BY <1>1, Zenon DEF StateOK, On, ThreadLabels
<1>3. loc[q].back = "user"
  BY <1>1, <1>2, Zenon DEF LocalsOK
<1> QED
  BY <1>2, <1>3, Zenon DEF Active, On, InFork, Doing

\* A critical section within the step of a thread that holds no lock.
LEMMA WithinEffect ==
  ASSUME ProcInv, NEW c \in CPUs, NEW p \in P, NEW l, At(c, p, l), Depth(l) = 0, within(c)
  PROVE  /\ cpu' \in [CPUs -> CpuStruct] /\ \A d \in CPUs \ {c} : cpu'[d] = cpu[d]
         /\ cpu'[c].proc = p /\ cpu'[c].noff = 0 /\ cpu'[c].intr = cpu[c].intr
         /\ lock' = lock /\ lock' \in [Locks -> 0..NCPU]
<1>1. cpu[c] \in CpuStruct /\ cpu[c].noff = 0 /\ cpu[c].proc = p /\ lock \in [Locks -> 0..NCPU]
  BY RunFacts, Zenon
<1> DEFINE k == pop_off(push_off(cpu[c]))
<1>2. k \in CpuStruct /\ k.proc = p /\ k.noff = 0 /\ k.intr = cpu[c].intr
  BY <1>1, WithinFacts, Zenon
<1> HIDE DEF k
<1>3. cpu' = [cpu EXCEPT ![c] = k] /\ lock' = lock
  BY Zenon DEF within, Set, k
<1> QED
  BY <1>1, <1>2, <1>3, Zenon DEF ProcInv, TypeOK

\* fork fills a slot that nobody else has, and remembers it.
LEMMA ForkInv == ASSUME ProcInv, NEW c \in CPUs, NEW p \in P, fork(c, p) PROVE ProcInv'
<1>1. PICK np \in P :
        /\ proc[np].state = "UNUSED"
        /\ proc' = [proc EXCEPT ![np].state = "USED", ![np].pid = nextpid]
        /\ pc' = [pc EXCEPT ![p] = "forkParent", ![np] = "forkret"]
        /\ loc' = [loc EXCEPT ![p].arg = np, ![np] = NoLocals]
  BY Zenon DEF fork, allocproc
<1>2. /\ At(c, p, "user") /\ within(c) /\ nextpid \in 1..MaxPid /\ nextpid' = nextpid + 1
      /\ tick' = tick /\ ticks' = ticks /\ panicked' = panicked
  BY ProcAssumption DEF fork, Syscall, allocpid, ProcInv, TypeOK
<1>3. /\ cpu[c].proc = p /\ p # Nobody /\ pc[p] = "user" /\ ~Ticking(c) /\ CpuOK(c) /\ LocalsOK(p) /\ StateOK(p)
      /\ loc[p] \in LocStruct /\ \A m \in Locks : lock[m] = c <=> Keeps(p, m)
  BY <1>2, RunFacts, Zenon
<1>4. proc[p].state = "RUNNING" /\ p # np /\ loc[p].back = "user" /\ cpu[c].intr
  BY <1>1, <1>3, Zenon DEF StateOK, LocalsOK, On, CpuOK
<1>5. pc[np] \notin Active /\ ~InFork(np)
  BY <1>1, NewFacts, Zenon
<1>6. /\ cpu' \in [CPUs -> CpuStruct] /\ \A d \in CPUs \ {c} : cpu'[d] = cpu[d]
      /\ cpu'[c].proc = p /\ cpu'[c].noff = 0 /\ cpu'[c].intr
      /\ lock' = lock /\ lock' \in [Locks -> 0..NCPU]
  BY <1>2, <1>4, WithinEffect, Zenon DEF Depth
<1>7. /\ proc' \in [P -> ProcStruct] /\ proc'[np].state = "USED"
      /\ \A q \in P : proc'[q].parent = proc[q].parent /\ (q # np => proc'[q] = proc[q])
  <2> DEFINE r == [proc[np] EXCEPT !.state = "USED", !.pid = nextpid]
  <2>1. r \in ProcStruct /\ r.state = "USED" /\ r.parent = proc[np].parent
    <3>1. proc[np] \in ProcStruct /\ nextpid \in 0..MaxPid
      BY <1>2, Types
    <3> QED
      BY <3>1, Zenon DEF ProcStruct
  <2>2. proc' = [proc EXCEPT ![np] = r]
    BY <1>1, Zenon
  <2> HIDE DEF r
  <2> QED
    BY <2>1, <2>2, Zenon DEF ProcInv, TypeOK
<1>8. /\ pc' \in [P -> ThreadLabels] /\ pc'[p] = "forkParent" /\ pc'[np] = "forkret"
      /\ \A q \in P : q # p /\ q # np => pc'[q] = pc[q]
  BY <1>1, <1>4, Zenon DEF ProcInv, TypeOK, ThreadLabels
<1>9. /\ loc' \in [P -> LocStruct] /\ loc'[p].arg = np /\ loc'[p].back = "user" /\ loc'[np].back = "user"
      /\ loc'[p].lk = loc[p].lk /\ \A q \in P : q # p /\ q # np => loc'[q] = loc[q]
  <2> DEFINE v == [loc[p] EXCEPT !.arg = np]
  <2>1. v \in LocStruct /\ v.arg = np /\ v.back = loc[p].back /\ v.lk = loc[p].lk
    BY <1>3, Consts, Zenon DEF LocStruct
  <2>2. loc' = [loc EXCEPT ![p] = v, ![np] = NoLocals]
    BY <1>1, Zenon
  <2>3. NoLocals \in LocStruct /\ NoLocals.back = "user"
    BY ProcAssumption DEF NoLocals, LocStruct, ThreadLabels
  <2>4. loc \in [P -> LocStruct]
    BY Zenon DEF ProcInv, TypeOK, LocStruct
  <2> HIDE DEF v, NoLocals
  <2> QED
    BY <1>4, <2>1, <2>2, <2>3, <2>4, Zenon
<1>10. CpuOK(c)' /\ StateOK(p)' /\ LocalsOK(p)'
  <2>1. ~Ticking(c)'
    BY <1>2, <1>3, Zenon DEF Ticking
  <2>2. CpuOK(c)'
    BY <1>3, <1>6, <1>8, <2>1 DEF CpuOK, Depth
  <2>3. StateOK(p)'
    BY <1>4, <1>7, <1>8, Zenon DEF StateOK, On
  <2>4. LocalsOK(p)'
    BY <1>4, <1>7, <1>8, <1>9, Zenon DEF LocalsOK, Doing, Interruptible
  <2> QED
    BY <2>2, <2>3, <2>4, Zenon
<1>11. \A m \in Locks : IF Needs(c, m)' THEN lock[m] \in {c, Nobody} /\ lock'[m] = c
                        ELSE lock'[m] = IF lock[m] = c THEN Nobody ELSE lock[m]
  <2>1. \A m \in Locks : ~Needs(c, m)' /\ lock[m] # c
    BY <1>2, <1>3, <1>6, <1>8, Zenon DEF Needs, Keeps, Ticking
  <2> QED
    BY <1>6, <2>1, Zenon
<1>12. Forks'
  <2>1. \A q \in P : q # p => /\ InFork(q)' => InFork(q) /\ loc'[q] = loc[q]
                              /\ Doing(q, "forkRunnable")' => Doing(q, "forkRunnable")
    BY <1>8, <1>9, Zenon DEF InFork, Doing
  <2>2. ~InFork(p) /\ ~Doing(p, "forkRunnable")'
    BY <1>3, <1>4, <1>8, <1>9, Zenon DEF InFork, Doing
  <2>3. Forks /\ \A q \in P : Doing(q, "forkRunnable")' => InFork(q)'
    BY Zenon DEF ProcInv, InFork
  <2> HIDE DEF InFork, Doing
  <2>4. \A q \in P : q # p /\ InFork(q)' => loc[q].arg \in P /\ loc[q].arg # np /\ proc[loc[q].arg].state = "USED"
    BY <1>1, <2>1, <2>3, Zenon DEF Forks
  <2>5. \A q \in P : InFork(q)' => loc'[q].arg \in P /\ proc'[loc'[q].arg].state = "USED"
    BY <1>7, <1>9, <2>1, <2>4
  <2>6. \A q \in P : Doing(q, "forkRunnable")' => proc'[loc'[q].arg].parent = q
    <3>1. \A q \in P : Doing(q, "forkRunnable")' =>
            /\ proc[loc[q].arg].parent = q /\ loc'[q] = loc[q] /\ loc[q].arg \in P
      BY <2>1, <2>2, <2>3, <2>4, Zenon DEF Forks
    <3> QED
      BY <1>7, <3>1
  <2>7. \A q, r \in P : InFork(q)' /\ InFork(r)' /\ loc'[q].arg = loc'[r].arg => q = r
    BY <1>9, <2>1, <2>3, <2>4, Zenon DEF Forks
  <2> QED
    BY <2>5, <2>6, <2>7, Zenon DEF Forks
<1>13. Family'
  <2>1. \A q \in P : Childless(q)' => Childless(q)
    BY <1>1, <1>7, <1>8, Zenon DEF Childless
  <2>2. pc'[initproc] = "reparent" => pc[initproc] = "reparent"
    BY <1>8, Consts, Zenon
  <2>3. Childless(initproc)' => Childless(initproc)
    BY <2>1, Consts, Zenon DEF initproc
  <2>4. \A q \in P : proc'[q].state \notin {"UNUSED", "USED"} =>
          proc[q].state \notin {"UNUSED", "USED"} /\ proc'[q].parent = proc[q].parent
    BY <1>7, Zenon
  <2> QED
    BY <1>7, <2>1, <2>2, <2>3, <2>4, FamilyFrame, Zenon
<1>14. Wakeups'
  BY <1>2, <1>4, <1>7, <1>8, <1>9, WakeupsFrame
<1>15. nextpid' \in 1..(MaxPid + 1) /\ "forkParent" \in Active
  BY <1>2, ProcAssumption DEF Active, On
<1>16. \A q \in P : q # p =>
         \/ /\ pc'[q] = pc[q] /\ loc'[q] = loc[q]
            /\ proc'[q].state = proc[q].state /\ proc'[q].chan = proc[q].chan
         \/ /\ pc[q] \notin Active /\ pc'[q] = "forkret" /\ loc'[q].back = "user"
            /\ proc'[q].state \in {"USED", "RUNNABLE"}
  BY <1>5, <1>7, <1>8, <1>9, Zenon
<1> QED
  BY <1>2, <1>3, <1>6, <1>7, <1>8, <1>9, <1>10, <1>11, <1>12, <1>13, <1>14, <1>15, <1>16, TableStep, Zenon

\* fork's child gets its parent.
LEMMA ForkParentInv == ASSUME ProcInv, NEW c \in CPUs, NEW p \in P, forkParent(c, p) PROVE ProcInv'
<1>0. At(c, p, "forkParent") /\ within(c) /\ Goto(p, "forkRunnable") /\ UNCHANGED loc /\ Others
  BY Zenon DEF forkParent
<1>1. /\ cpu[c].proc = p /\ p # Nobody /\ pc[p] = "forkParent" /\ ~Ticking(c) /\ CpuOK(c) /\ LocalsOK(p) /\ StateOK(p)
      /\ \A m \in Locks : lock[m] = c <=> Keeps(p, m)
  BY <1>0, RunFacts, Zenon
<1>2. InFork(p) /\ proc[p].state = "RUNNING" /\ loc[p].back = "user" /\ cpu[c].intr
  BY <1>1, Zenon DEF InFork, Doing, StateOK, On, LocalsOK, CpuOK
<1>3. PICK a \in P : a = loc[p].arg /\ proc[a].state = "USED"
  BY <1>2, Zenon DEF ProcInv, Forks
<1>4. a # p /\ pc[a] = "forkret" /\ ~InFork(a)
  BY <1>2, <1>3, NewFacts, Zenon
<1>5. /\ proc' \in [P -> ProcStruct] /\ proc'[a].parent = p
      /\ \A q \in P : /\ q # a => proc'[q] = proc[q]
                      /\ proc'[q].state = proc[q].state /\ proc'[q].chan = proc[q].chan
  <2> DEFINE r == [proc[a] EXCEPT !.parent = p]
  <2>1. r \in ProcStruct /\ r.state = proc[a].state /\ r.chan = proc[a].chan /\ r.parent = p
    <3>1. proc[a] \in ProcStruct /\ p \in 0..NPROC
      BY Types, Consts, Zenon
    <3> QED
      BY <3>1, Zenon DEF ProcStruct
  <2>2. proc' = [proc EXCEPT ![a] = r]
    BY <1>3, Zenon DEF forkParent
  <2> HIDE DEF r
  <2> QED
    BY <2>1, <2>2, Zenon DEF ProcInv, TypeOK
<1>6. /\ cpu' \in [CPUs -> CpuStruct] /\ \A d \in CPUs \ {c} : cpu'[d] = cpu[d]
      /\ cpu'[c].proc = p /\ cpu'[c].noff = 0 /\ cpu'[c].intr
      /\ lock' = lock /\ lock' \in [Locks -> 0..NCPU]
  BY <1>0, <1>2, WithinEffect, Zenon DEF Depth
<1>7. /\ pc' \in [P -> ThreadLabels] /\ pc'[p] = "forkRunnable" /\ \A q \in P : q # p => pc'[q] = pc[q]
      /\ loc' = loc /\ loc' \in [P -> LocStruct]
      /\ tick' = tick /\ ticks' = ticks /\ panicked' = panicked /\ nextpid' \in 1..(MaxPid + 1)
  BY <1>0, Zenon DEF ProcInv, TypeOK, ThreadLabels, Goto, LocStruct, Others
<1>8. CpuOK(c)' /\ StateOK(p)' /\ LocalsOK(p)'
  <2>1. ~Ticking(c)'
    BY <1>1, <1>7, Zenon DEF Ticking
  <2>2. CpuOK(c)'
    BY <1>1, <1>6, <1>7, <2>1 DEF CpuOK, Depth
  <2>3. StateOK(p)'
    BY <1>2, <1>5, <1>7, Zenon DEF StateOK, On
  <2>4. LocalsOK(p)'
    BY <1>2, <1>5, <1>7, Zenon DEF LocalsOK, Doing, Interruptible
  <2> QED
    BY <2>2, <2>3, <2>4, Zenon
<1>9. \A m \in Locks : IF Needs(c, m)' THEN lock[m] \in {c, Nobody} /\ lock'[m] = c
                       ELSE lock'[m] = IF lock[m] = c THEN Nobody ELSE lock[m]
  <2>1. \A m \in Locks : ~Needs(c, m)' /\ lock[m] # c
    BY <1>1, <1>6, <1>7, Zenon DEF Needs, Keeps, Ticking
  <2> QED
    BY <1>6, <2>1, Zenon
<1>10. Forks'
  <2>1. \A q \in P : q # p => /\ InFork(q)' <=> InFork(q)
                              /\ Doing(q, "forkRunnable")' <=> Doing(q, "forkRunnable")
    BY <1>7, Zenon DEF InFork, Doing
  <2>2. Forks /\ \A q \in P : Doing(q, "forkRunnable") => InFork(q)
    BY Zenon DEF ProcInv, InFork
  <2> HIDE DEF InFork, Doing
  <2>3. \A q \in P : q # p /\ InFork(q) => loc[q].arg \in P /\ loc[q].arg # a
    BY <1>2, <1>3, <2>2, Zenon DEF Forks
  <2>4. \A q \in P : InFork(q)' => loc'[q].arg \in P /\ proc'[loc'[q].arg].state = "USED"
    BY <1>2, <1>5, <1>7, <2>1, <2>2 DEF Forks
  <2>5. \A q \in P : Doing(q, "forkRunnable")' => proc'[loc'[q].arg].parent = q
    BY <1>3, <1>5, <1>7, <2>1, <2>2, <2>3 DEF Forks
  <2>6. \A q, r \in P : InFork(q)' /\ InFork(r)' /\ loc'[q].arg = loc'[r].arg => q = r
    BY <1>2, <1>7, <2>1, <2>2, Zenon DEF Forks
  <2> QED
    BY <2>4, <2>5, <2>6, Zenon DEF Forks
<1>11. Family'
  <2>1. \A q \in P : Childless(q)' <=> Childless(q)
    BY <1>1, <1>2, <1>5, <1>7, Zenon DEF Childless
  <2>2. ~Childless(p)
    BY <1>1, <1>2, Zenon DEF Childless
  <2>3. pc'[initproc] = "reparent" => pc[initproc] = "reparent"
    BY <1>7, Consts, Zenon
  <2>4. Childless(initproc)' => Childless(initproc)
    BY <2>1, Consts, Zenon DEF initproc
  <2>5. \A q, r \in P : proc'[q].parent = r => proc[q].parent = r \/ ~Childless(r)'
    BY <1>5, <2>1, <2>2, Zenon
  <2>6. \A q \in P : proc'[q].state \notin {"UNUSED", "USED"} =>
          proc[q].state \notin {"UNUSED", "USED"} /\ proc'[q].parent = proc[q].parent
    BY <1>3, <1>5, Zenon
  <2> QED
    BY <2>1, <2>3, <2>4, <2>5, <2>6, FamilyFrame, Zenon
<1>12. Wakeups'
  BY <1>3, <1>4, <1>5, <1>7, WakeupsFrame
<1>13. "forkRunnable" \in Active
  BY Zenon DEF Active, On
<1> QED
  BY <1>1, <1>5, <1>6, <1>7, <1>8, <1>9, <1>10, <1>11, <1>12, <1>13, TableStep, ZenonT(30)

\* A system call that returns after a critical section within the step.
LEMMA BackEffect ==
  ASSUME ProcInv, NEW c \in CPUs, NEW p \in P, NEW l, At(c, p, l), Depth(l) = 0, l \in On,
         usertrapret(c, p, pop_off(push_off(cpu[c]))), UNCHANGED lock, Others,
         proc'[p].state = proc[p].state
  PROVE  /\ pc' \in [P -> ThreadLabels] /\ pc'[p] = "user" /\ \A q \in P : q # p => pc'[q] = pc[q]
         /\ loc' \in [P -> LocStruct] /\ \A q \in P : q # p => loc'[q] = loc[q]
         /\ cpu' \in [CPUs -> CpuStruct] /\ \A d \in CPUs \ {c} : cpu'[d] = cpu[d]
         /\ cpu[c].proc = p /\ cpu'[c].proc = p /\ proc[p].state = "RUNNING" /\ pc[p] = l
         /\ lock' \in [Locks -> 0..NCPU]
         /\ \A x \in Locks : IF Needs(c, x)' THEN lock[x] \in {c, Nobody} /\ lock'[x] = c
                             ELSE lock'[x] = IF lock[x] = c THEN Nobody ELSE lock[x]
         /\ CpuOK(c)' /\ LocalsOK(p)' /\ ~InFork(p)' /\ StateOK(p)'
         /\ tick' = tick /\ ticks' = ticks /\ panicked' = panicked /\ nextpid' \in 1..(MaxPid + 1)
<1>1. /\ cpu[c].proc = p /\ p # Nobody /\ pc[p] = l /\ ~Ticking(c) /\ cpu[c] \in CpuStruct
      /\ StateOK(p) /\ cpu[c].noff = 0 /\ lock \in [Locks -> 0..NCPU]
      /\ \A x \in Locks : lock[x] = c <=> Keeps(p, x)
  BY RunFacts, Zenon
<1> DEFINE k == pop_off(push_off(cpu[c]))
<1>2. k \in CpuStruct /\ k.proc = p /\ k.noff = 0
  BY <1>1, WithinFacts, Zenon
<1>3. usertrapret(c, p, k)
  BY Zenon
<1> HIDE DEF k
<1>4. /\ pc' \in [P -> ThreadLabels] /\ pc'[p] = "user" /\ \A q \in P : q # p => pc'[q] = pc[q]
      /\ loc' \in [P -> LocStruct] /\ loc'[p] = NoLocals /\ \A q \in P : q # p => loc'[q] = loc[q]
      /\ cpu' \in [CPUs -> CpuStruct] /\ \A d \in CPUs \ {c} : cpu'[d] = cpu[d]
      /\ cpu'[c].proc = p /\ cpu'[c].noff = 0 /\ cpu'[c].intr
  BY <1>2, <1>3, ReturnEffect
<1>5. /\ tick' = tick /\ ticks' = ticks /\ panicked' = panicked /\ nextpid' \in 1..(MaxPid + 1)
      /\ ~Ticking(c)' /\ proc[p].state = "RUNNING"
  BY <1>1, Zenon DEF Others, Ticking, ProcInv, TypeOK, StateOK
<1>6. CpuOK(c)' /\ LocalsOK(p)' /\ ~InFork(p)' /\ StateOK(p)' /\ \A x \in Locks : ~Needs(c, x)'
  BY <1>4, <1>5, UserOK, Zenon
<1>7. \A x \in Locks : lock[x] # c
  BY <1>1 DEF Keeps, Depth
<1>8. \A x \in Locks : IF Needs(c, x)' THEN lock[x] \in {c, Nobody} /\ lock'[x] = c
                       ELSE lock'[x] = IF lock[x] = c THEN Nobody ELSE lock[x]
  BY <1>6, <1>7, Zenon
<1> QED
  BY <1>1, <1>4, <1>5, <1>6, <1>8, Zenon

\* fork's child becomes RUNNABLE.
LEMMA ForkRunnableInv == ASSUME ProcInv, NEW c \in CPUs, NEW p \in P, forkRunnable(c, p) PROVE ProcInv'
<1>0. /\ At(c, p, "forkRunnable") /\ usertrapret(c, p, pop_off(push_off(cpu[c])))
      /\ UNCHANGED lock /\ Others
  BY Zenon DEF forkRunnable
<1>1. pc[p] = "forkRunnable" /\ Doing(p, "forkRunnable") /\ InFork(p) /\ StateOK(p)
  BY <1>0, RunFacts, Zenon DEF InFork, Doing
<1>2. proc[p].state = "RUNNING"
  BY <1>1, Zenon DEF StateOK, On
<1>3. PICK a \in P : a = loc[p].arg /\ proc[a].state = "USED" /\ proc[a].parent = p
  BY <1>1, Zenon DEF ProcInv, Forks
<1>4. a # p /\ pc[a] = "forkret" /\ pc[a] \notin Active /\ ~InFork(a) /\ loc[a].back = "user"
  BY <1>2, <1>3, NewFacts, Zenon
<1>5. /\ proc' \in [P -> ProcStruct] /\ proc'[a].state = "RUNNABLE"
      /\ \A q \in P : proc'[q].parent = proc[q].parent /\ (q # a => proc'[q] = proc[q])
  <2> DEFINE r == [proc[a] EXCEPT !.state = "RUNNABLE"]
  <2>1. r \in ProcStruct /\ r.state = "RUNNABLE" /\ r.parent = proc[a].parent
    <3>1. proc[a] \in ProcStruct
      BY Types, Zenon
    <3> QED
      BY <3>1, Zenon DEF ProcStruct
  <2>2. proc' = [proc EXCEPT ![a] = r]
    BY <1>3, Zenon DEF forkRunnable
  <2> HIDE DEF r
  <2> QED
    BY <2>1, <2>2, Zenon DEF ProcInv, TypeOK
<1>6. /\ pc' \in [P -> ThreadLabels] /\ pc'[p] = "user" /\ \A q \in P : q # p => pc'[q] = pc[q]
      /\ loc' \in [P -> LocStruct] /\ \A q \in P : q # p => loc'[q] = loc[q]
      /\ cpu' \in [CPUs -> CpuStruct] /\ \A d \in CPUs \ {c} : cpu'[d] = cpu[d]
      /\ cpu[c].proc = p /\ cpu'[c].proc = p /\ proc[p].state = "RUNNING" /\ pc[p] = "forkRunnable"
      /\ lock' \in [Locks -> 0..NCPU]
      /\ \A x \in Locks : IF Needs(c, x)' THEN lock[x] \in {c, Nobody} /\ lock'[x] = c
                          ELSE lock'[x] = IF lock[x] = c THEN Nobody ELSE lock[x]
      /\ CpuOK(c)' /\ LocalsOK(p)' /\ ~InFork(p)' /\ StateOK(p)'
      /\ tick' = tick /\ ticks' = ticks /\ panicked' = panicked /\ nextpid' \in 1..(MaxPid + 1)
  <2>1. Depth("forkRunnable") = 0 /\ "forkRunnable" \in On /\ proc'[p].state = proc[p].state
    BY <1>4, <1>5, Zenon DEF Depth, On
  <2> QED
    BY <1>0, <2>1, BackEffect, ZenonT(30)
<1>7. Forks'
  <2>1. \A q \in P : /\ InFork(q)' => InFork(q) /\ q # p /\ loc'[q] = loc[q]
                     /\ Doing(q, "forkRunnable")' => Doing(q, "forkRunnable")
    BY <1>6, Zenon DEF InFork, Doing
  <2>2. \A q \in P : InFork(q) /\ q # p => loc[q].arg # a
    BY <1>1, <1>3, Zenon DEF ProcInv, Forks
  <2> HIDE DEF InFork, Doing
  <2> QED
    BY <1>5, <2>1, <2>2, ForksFrame, Zenon
<1>8. Family'
  <2>1. \A q \in P : Childless(q)' => Childless(q)
    BY <1>3, <1>5, <1>6, Zenon DEF Childless
  <2>2. pc'[initproc] = "reparent" => pc[initproc] = "reparent"
    BY <1>6, Consts, Zenon
  <2>3. Childless(initproc)' => Childless(initproc)
    BY <2>1, Consts, Zenon DEF initproc
  <2>4. \A q \in P : proc'[q].state \notin {"UNUSED", "USED"} =>
          \/ proc'[q].parent # Nobody
          \/ proc[q].state \notin {"UNUSED", "USED"} /\ proc'[q].parent = proc[q].parent
    BY <1>3, <1>5, Consts
  <2> QED
    BY <1>5, <2>1, <2>2, <2>3, <2>4, FamilyFrame, Zenon
<1>9. Wakeups'
  BY <1>2, <1>4, <1>5, <1>6, WakeupsFrame, Zenon
<1>10. /\ "user" \in Active
       /\ \A q \in P : q # p =>
         \/ /\ pc'[q] = pc[q] /\ loc'[q] = loc[q]
            /\ proc'[q].state = proc[q].state /\ proc'[q].chan = proc[q].chan
         \/ /\ pc[q] \notin Active /\ pc'[q] = "forkret" /\ loc'[q].back = "user"
            /\ proc'[q].state \in {"USED", "RUNNABLE"}
  BY <1>4, <1>5, <1>6 DEF Active, On
<1> QED
  BY <1>5, <1>6, <1>7, <1>8, <1>9, <1>10, TableStep

\* kill marks a process and wakes it if it sleeps.
LEMMA KillInv == ASSUME ProcInv, NEW c \in CPUs, NEW p \in P, kill(c, p) PROVE ProcInv'
<1>0. /\ At(c, p, "user") /\ usertrapret(c, p, pop_off(push_off(cpu[c])))
      /\ UNCHANGED lock /\ Others
  BY Zenon DEF kill, Syscall
<1>1. pc[p] = "user" /\ StateOK(p)
  BY <1>0, RunFacts, Zenon
<1>2. proc[p].state = "RUNNING"
  BY <1>1, Zenon DEF StateOK, On
<1>3. PICK q \in P :
        /\ Free(q)
        /\ proc' = [proc EXCEPT ![q].killed = TRUE,
                                ![q].state = IF @ = "SLEEPING" THEN "RUNNABLE" ELSE @]
  BY Zenon DEF kill
<1>4. proc[q].state = "SLEEPING" => pc[q] = "slept"
  <2>1. StateOK(q) /\ pc[q] \in ThreadLabels /\ q \in Locks
    BY Types, Consts, Zenon DEF ProcInv, States
  <2>2. proc[q].state = "SLEEPING" => pc[q] \in {"swtch", "slept"}
    BY <2>1, Zenon DEF StateOK, On, ThreadLabels
  <2>3. pc[q] # "swtch"
    BY <1>3, <2>1, OneKeeper, Zenon DEF Keeps
  <2> QED
    BY <2>2, <2>3, Zenon
<1>5. /\ proc' \in [P -> ProcStruct]
      /\ \A r \in P : /\ proc'[r].parent = proc[r].parent /\ proc'[r].chan = proc[r].chan
                      /\ \/ proc'[r].state = proc[r].state
                         \/ pc[r] = "slept" /\ proc[r].state = "SLEEPING" /\ proc'[r].state = "RUNNABLE"
  <2> DEFINE s == IF proc[q].state = "SLEEPING" THEN "RUNNABLE" ELSE proc[q].state
             r == [proc[q] EXCEPT !.killed = TRUE, !.state = s]
  <2>1. proc[q] \in ProcStruct
    BY Types, Zenon
  <2>2. /\ s \in {"UNUSED", "USED", "SLEEPING", "RUNNABLE", "RUNNING", "ZOMBIE"}
        /\ s = proc[q].state \/ (pc[q] = "slept" /\ proc[q].state = "SLEEPING" /\ s = "RUNNABLE")
    BY <1>4, <2>1, Zenon DEF ProcStruct
  <2>3. proc' = [proc EXCEPT ![q] = r]
    BY <1>3, Zenon
  <2> HIDE DEF s
  <2>4. r \in ProcStruct /\ r.state = s /\ r.parent = proc[q].parent /\ r.chan = proc[q].chan
    BY <2>1, <2>2, Zenon DEF ProcStruct
  <2> HIDE DEF r
  <2> QED
    BY <2>2, <2>3, <2>4, Zenon DEF ProcInv, TypeOK
<1>6. proc'[p].state = proc[p].state
  BY <1>1, <1>5, Zenon
<1>7. /\ pc' \in [P -> ThreadLabels] /\ pc'[p] = "user" /\ \A r \in P : r # p => pc'[r] = pc[r]
      /\ loc' \in [P -> LocStruct] /\ \A r \in P : r # p => loc'[r] = loc[r]
      /\ cpu' \in [CPUs -> CpuStruct] /\ \A d \in CPUs \ {c} : cpu'[d] = cpu[d]
      /\ cpu[c].proc = p /\ cpu'[c].proc = p /\ proc[p].state = "RUNNING" /\ pc[p] = "user"
      /\ lock' \in [Locks -> 0..NCPU]
      /\ \A x \in Locks : IF Needs(c, x)' THEN lock[x] \in {c, Nobody} /\ lock'[x] = c
                          ELSE lock'[x] = IF lock[x] = c THEN Nobody ELSE lock[x]
      /\ CpuOK(c)' /\ LocalsOK(p)' /\ ~InFork(p)' /\ StateOK(p)'
      /\ tick' = tick /\ ticks' = ticks /\ panicked' = panicked /\ nextpid' \in 1..(MaxPid + 1)
  <2>1. Depth("user") = 0 /\ "user" \in On
    BY Zenon DEF Depth, On
  <2> QED
    BY <1>0, <1>6, <2>1, BackEffect, ZenonT(30)
<1>8. Forks'
  <2>1. \A r \in P : /\ InFork(r)' => InFork(r) /\ loc'[r].arg = loc[r].arg
                     /\ Doing(r, "forkRunnable")' => Doing(r, "forkRunnable")
    BY <1>7, Zenon DEF InFork, Doing
  <2> QED
    BY <1>5, <2>1, ForksFrame, Zenon
<1>9. Family'
  <2>1. \A r \in P : Childless(r)' => Childless(r)
    BY <1>5, <1>7, Zenon DEF Childless
  <2>2. pc'[initproc] = "reparent" => pc[initproc] = "reparent"
    BY <1>7, Consts, Zenon
  <2>3. Childless(initproc)' => Childless(initproc)
    BY <2>1, Consts, Zenon DEF initproc
  <2>4. \A r \in P : proc'[r].state \notin {"UNUSED", "USED"} =>
          proc[r].state \notin {"UNUSED", "USED"} /\ proc'[r].parent = proc[r].parent
    BY <1>5, Zenon
  <2> QED
    BY <1>5, <2>1, <2>2, <2>3, <2>4, FamilyFrame, Zenon
<1>10. Wakeups'
  BY <1>2, <1>5, <1>6, <1>7, WakeupsFrame, Zenon
<1>11. /\ "user" \in Active
       /\ \A r \in P : r # p =>
            /\ pc'[r] = pc[r] /\ loc'[r] = loc[r]
            /\ \/ proc'[r].state = proc[r].state /\ proc'[r].chan = proc[r].chan
               \/ pc[r] = "slept" /\ proc'[r].state = "RUNNABLE"
  BY <1>5, <1>7, Zenon DEF Active, On
<1> QED
  BY <1>5, <1>7, <1>8, <1>9, <1>10, <1>11, TableStep, ZenonT(30)

-----------------------------------------------------------------------------
(* The steps that lead to sched: sleep, yield and the end of exit.         *)

\* A thread that is about to call sched holds its own lock, has interrupts off
\* and has left RUNNING; what it does to sleepers and waiters is left to show.
LEMMA GiveUp ==
  ASSUME ProcInv, NEW c \in CPUs, NEW p \in P, cpu[c].proc = p, pc[p] \in On, ~Ticking(c),
         pc' = [pc EXCEPT ![p] = "swtch"], loc' = loc, Others,
         cpu' \in [CPUs -> CpuStruct], \A d \in CPUs \ {c} : cpu'[d] = cpu[d],
         cpu'[c].proc = p, cpu'[c].noff = 1, ~cpu'[c].intr,
         proc'[p].state = "SLEEPING" => cpu'[c].intena,
         lock' \in [Locks -> 0..NCPU], lock[p] \in {c, Nobody}, lock'[p] = c,
         \A m \in Locks : m # p => lock'[m] = IF lock[m] = c THEN Nobody ELSE lock[m],
         proc' \in [P -> ProcStruct], \A q \in P : q # p => proc'[q] = proc[q],
         proc'[p].parent = proc[p].parent,
         proc'[p].state \in {"SLEEPING", "RUNNABLE", "ZOMBIE"},
         proc'[p].state = "ZOMBIE" => pc[p] = "zombie",
         LocalsOK(p)', Wakeups'
  PROVE  ProcInv'
<1>1. /\ pc' \in [P -> ThreadLabels] /\ pc'[p] = "swtch" /\ \A q \in P : q # p => pc'[q] = pc[q]
      /\ loc' \in [P -> LocStruct] /\ \A q \in P : loc'[q] = loc[q]
      /\ tick' = tick /\ ticks' = ticks /\ panicked' = panicked /\ nextpid' \in 1..(MaxPid + 1)
  BY Zenon DEF ProcInv, TypeOK, ThreadLabels, LocStruct, Others
<1>2. proc[p].state = "RUNNING" /\ p # Nobody
  BY Consts, Zenon DEF ProcInv, States, StateOK
<1>3. Forks'
  <2>1. \A q \in P : /\ InFork(q)' => InFork(q) /\ loc'[q].arg = loc[q].arg
                     /\ Doing(q, "forkRunnable")' => Doing(q, "forkRunnable")
    BY <1>1, Zenon DEF InFork, Doing
  <2>2. \A q, r \in P : InFork(q) /\ proc[r].state = "USED" /\ r = loc[q].arg /\ InFork(q)' =>
          proc'[r].state = "USED" /\ (proc[r].parent = q => proc'[r].parent = q)
    BY <1>2, Zenon
  <2> QED
    BY <2>1, <2>2, ForksFrame, Zenon
<1>4. Family'
  <2>1. \A q \in P : Childless(q)' => Childless(q)
    BY <1>1, Zenon DEF Childless
  <2>2. pc'[initproc] = "reparent" => pc[initproc] = "reparent"
    BY <1>1, Consts, Zenon
  <2>3. Childless(initproc)' => Childless(initproc)
    BY <2>1, Consts, Zenon DEF initproc
  <2>4. \A q \in P : proc'[q].state \notin {"UNUSED", "USED"} =>
          proc[q].state \notin {"UNUSED", "USED"} /\ proc'[q].parent = proc[q].parent
    BY <1>2, Zenon
  <2>5. \A q, r \in P : proc'[q].parent = r => proc[q].parent = r
    BY Zenon
  <2> QED
    BY <2>1, <2>2, <2>3, <2>4, <2>5, FamilyFrame, Zenon
<1>5. ~Ticking(c)' /\ \A m \in Locks : Needs(c, m)' <=> m = p
  BY <1>1, <1>2, Zenon DEF Ticking, Needs, Keeps
<1>6. \A m \in Locks : IF Needs(c, m)' THEN lock[m] \in {c, Nobody} /\ lock'[m] = c
                       ELSE lock'[m] = IF lock[m] = c THEN Nobody ELSE lock[m]
  BY <1>5, Zenon
<1>7. CpuOK(c)' /\ StateOK(p)'
  <2>1. CpuOK(c)'
    BY <1>1, <1>2, <1>5 DEF CpuOK, Depth
  <2>2. StateOK(p)'
    BY <1>1, Zenon DEF StateOK, On
  <2> QED
    BY <2>1, <2>2, Zenon
<1>8. pc'[p] \in Active
  BY <1>1, Zenon DEF Active
<1>9. \A q \in P : q # p =>
        \/ /\ pc'[q] = pc[q] /\ loc'[q] = loc[q]
           /\ \/ proc'[q].state = proc[q].state /\ proc'[q].chan = proc[q].chan
              \/ pc[q] = "slept" /\ proc'[q].state = "RUNNABLE"
        \/ /\ pc[q] \notin Active /\ pc'[q] = "forkret" /\ loc'[q].back = "user"
           /\ proc'[q].state \in {"USED", "RUNNABLE"}
  BY <1>1, Zenon
<1> QED
  BY <1>1, <1>3, <1>4, <1>6, <1>7, <1>8, <1>9, TableStep, Zenon

\* sleep marks the process and releases the lock it was given.
LEMMA SleepMarkInv == ASSUME ProcInv, NEW c \in CPUs, NEW p \in P, sleepMark(c, p) PROVE ProcInv'
<1>0. At(c, p, "sleeping") /\ Goto(p, "swtch") /\ loc' = loc /\ Others
  BY Zenon DEF sleepMark
<1>1. /\ cpu[c].proc = p /\ p # Nobody /\ pc[p] = "sleeping" /\ ~Ticking(c) /\ CpuOK(c) /\ LocalsOK(p)
      /\ cpu[c] \in CpuStruct /\ lock \in [Locks -> 0..NCPU] /\ cpu[c].noff = 2
      /\ \A m \in Locks : lock[m] = c <=> Keeps(p, m)
  BY <1>0, RunFacts DEF Depth
<1>2. PICK lk \in {wait_lock, tickslock} : lk = loc[p].lk
  BY <1>1, Zenon DEF LocalsOK
<1>3. lk \in Locks /\ lk # p /\ p \in Locks /\ lock[lk] = c /\ lock[p] = c
      /\ \A m \in Locks : m # p /\ m # lk => lock[m] # c
  BY <1>1, <1>2, Consts, Zenon DEF Keeps
<1>4. cpu[c].intena /\ ~cpu[c].intr
  BY <1>1 DEF CpuOK
<1>5. /\ cpu' \in [CPUs -> CpuStruct] /\ \A d \in CPUs \ {c} : cpu'[d] = cpu[d]
      /\ cpu'[c].proc = p /\ cpu'[c].noff = 1 /\ ~cpu'[c].intr /\ cpu'[c].intena
      /\ lock' \in [Locks -> 0..NCPU] /\ lock' = [lock EXCEPT ![lk] = Nobody]
  <2> DEFINE k == pop_off(cpu[c])
  <2>1. k \in CpuStruct /\ k.proc = p /\ k.noff = 1 /\ k.intena = cpu[c].intena /\ k.intr = cpu[c].intr
    <3>1. cpu[c].noff > 0 /\ cpu[c].intr \in BOOLEAN /\ cpu[c].noff # 1 /\ cpu[c].noff - 1 = 1
      BY <1>1 DEF CpuStruct
    <3>2. /\ k \in CpuStruct /\ k.proc = cpu[c].proc /\ k.noff = cpu[c].noff - 1
          /\ k.intena = cpu[c].intena
          /\ k.intr = (cpu[c].intr \/ (cpu[c].noff = 1 /\ cpu[c].intena))
      BY <1>1, <3>1, PopFacts, Zenon
    <3> QED
      BY <1>1, <3>1, <3>2, Zenon
  <2>2. cpu' = [cpu EXCEPT ![c] = k] /\ lock' = [lock EXCEPT ![lk] = Nobody]
    BY <1>2, <1>3, Zenon DEF sleepMark, release, Set
  <2> HIDE DEF k
  <2>3. cpu \in [CPUs -> CpuStruct]
    BY Zenon DEF ProcInv, TypeOK
  <2>4. lock' \in [Locks -> 0..NCPU]
    BY <1>1, <2>2, Consts, Zenon
  <2> QED
    BY <1>4, <2>1, <2>2, <2>3, <2>4, Zenon
<1>6. /\ proc' \in [P -> ProcStruct] /\ \A q \in P : q # p => proc'[q] = proc[q]
      /\ proc'[p].state = "SLEEPING" /\ proc'[p].chan = SleepChan(p)
      /\ proc'[p].parent = proc[p].parent
  <2> DEFINE r == [proc[p] EXCEPT !.chan = SleepChan(p), !.state = "SLEEPING"]
  <2>0. SleepChan(p) \in 0..(NPROC + 2)
    BY Consts, Zenon DEF SleepChan
  <2>1. r \in ProcStruct /\ r.state = "SLEEPING" /\ r.chan = SleepChan(p) /\ r.parent = proc[p].parent
    <3>1. proc[p] \in ProcStruct
      BY Types, Zenon
    <3> QED
      BY <2>0, <3>1, Zenon DEF ProcStruct
  <2>2. proc' = [proc EXCEPT ![p] = r]
    BY Zenon DEF sleepMark
  <2> HIDE DEF r
  <2> QED
    BY <2>1, <2>2, Zenon DEF ProcInv, TypeOK
<1>7. pc' = [pc EXCEPT ![p] = "swtch"] /\ pc'[p] = "swtch" /\ \A q \in P : q # p => pc'[q] = pc[q]
  BY <1>0, Zenon DEF Goto, ProcInv, TypeOK
<1>8. LocalsOK(p)'
  <2>1. SleepChan(p)' = SleepChan(p)
    BY <1>0, Zenon DEF SleepChan, TicksChan, wait_lock, tickslock
  <2> QED
    BY <1>0, <1>1, <1>2, <1>6, <1>7, <2>1, Zenon DEF LocalsOK, Doing
<1>9. Wakeups'
  <2>1. Wakeups
    BY Zenon DEF ProcInv
  <2>2. \A q \in P : Elapsed(q)' = Elapsed(q)
    BY <1>0, Zenon DEF Elapsed, Others
  <2>3. AsleepInWait(p)' => lk = wait_lock
    BY <1>2, <1>6, Consts, Zenon DEF AsleepInWait, SleepChan
  <2>4. \A q \in P : q # p => (AsleepInWait(q)' <=> AsleepInWait(q))
    BY <1>6, Zenon DEF AsleepInWait
  <2>5. ASSUME NEW q \in P, \/ AsleepInWait(q)'
                            \/ pc'[q] \in {"sleep", "sleeping"} /\ loc'[q].lk = wait_lock
        PROVE  \A r \in P : proc'[r].parent = q => proc'[r].state # "ZOMBIE"
    <3>1. \A r \in P : proc[r].parent = q => proc[r].state # "ZOMBIE"
      BY <1>0, <1>1, <1>2, <1>7, <2>1, <2>3, <2>4, <2>5, Zenon DEF Wakeups
    <3> QED
      BY <1>6, <3>1, Zenon
  <2>6. ASSUME NEW e \in P, pc'[e] = "zombie", NEW q \in P, proc'[e].parent = q PROVE ~AsleepInWait(q)'
    <3>1. e # p /\ pc[e] = "zombie" /\ proc[e].parent = q
      BY <1>6, <1>7, <2>6, Zenon
    <3>2. CASE q # p
      BY <2>1, <2>4, <3>1, <3>2, Zenon DEF Wakeups
    <3>3. CASE q = p
      <4>1. Keeps(e, wait_lock) /\ wait_lock \in Locks
        BY <3>1, Consts, Zenon DEF Keeps
      <4>2. lk = wait_lock => Keeps(p, wait_lock)
        BY <1>1, <1>2, Zenon DEF Keeps
      <4> QED
        BY <2>3, <3>1, <3>3, <4>1, <4>2, OneKeeper, Zenon
    <3> QED
      BY <3>2, <3>3, Zenon
  <2>7. ASSUME NEW q \in P, proc'[q].state = "SLEEPING", proc'[q].chan = TicksChan, ~tick'
        PROVE  Elapsed(q)' < loc'[q].n
    <3>1. CASE q = p
      <4>1. lk = tickslock
        BY <1>2, <1>6, <2>7, <3>1, Consts, Zenon DEF SleepChan
      <4> QED
        BY <1>0, <1>1, <1>2, <2>1, <2>2, <3>1, <4>1, Zenon DEF Wakeups
    <3>2. CASE q # p
      BY <1>0, <1>6, <2>1, <2>2, <2>7, <3>2, Zenon DEF Wakeups, Others
    <3> QED
      BY <3>1, <3>2, Zenon
  <2>8. \A q \in P : pc'[q] \in {"sleep", "sleeping"} /\ loc'[q].lk = tickslock => Elapsed(q)' < loc'[q].n
    BY <1>0, <1>7, <2>1, <2>2, Zenon DEF Wakeups
  <2>9. TicksChan' = TicksChan /\ wait_lock' = wait_lock /\ tickslock' = tickslock
    BY Zenon DEF TicksChan, wait_lock, tickslock
  <2> QED
    BY <2>5, <2>6, <2>7, <2>8, <2>9, Zenon DEF Wakeups
<1>10. pc[p] \in On
  BY <1>1, Zenon DEF On
<1>11. lock'[p] = c /\ \A m \in Locks : m # p => lock'[m] = IF lock[m] = c THEN Nobody ELSE lock[m]
  BY <1>1, <1>3, <1>5, Zenon
<1> QED
  BY <1>0, <1>1, <1>3, <1>5, <1>6, <1>7, <1>8, <1>9, <1>10, <1>11, GiveUp, Zenon

\* A thread that is at the end of its time on the CPU is RUNNABLE again.
LEMMA YieldInv == ASSUME ProcInv, NEW c \in CPUs, NEW p \in P, yield(c, p) PROVE ProcInv'
<1>0. At(c, p, "yield") /\ Free(p) /\ acquire(c, p) /\ Goto(p, "swtch") /\ loc' = loc /\ Others
  BY Zenon DEF yield
<1>1. /\ cpu[c].proc = p /\ p # Nobody /\ pc[p] = "yield" /\ ~Ticking(c) /\ LocalsOK(p)
      /\ lock \in [Locks -> 0..NCPU] /\ cpu[c].noff = 0 /\ p \in Locks
      /\ \A m \in Locks : lock[m] = c <=> Keeps(p, m)
  BY <1>0, RunFacts, Consts DEF Depth
<1>2. /\ lock' \in [Locks -> 0..NCPU] /\ lock'[p] = c
      /\ \A x \in Locks : x # p => lock'[x] = lock[x]
      /\ cpu' \in [CPUs -> CpuStruct] /\ \A d \in CPUs \ {c} : cpu'[d] = cpu[d]
      /\ cpu'[c].proc = p /\ cpu'[c].noff = 1 /\ ~cpu'[c].intr
  BY <1>0, <1>1, AcquireEffect
<1>3. /\ proc' \in [P -> ProcStruct] /\ \A q \in P : q # p => proc'[q] = proc[q]
      /\ proc'[p].state = "RUNNABLE" /\ proc'[p].parent = proc[p].parent
  <2> DEFINE r == [proc[p] EXCEPT !.state = "RUNNABLE"]
  <2>1. r \in ProcStruct /\ r.state = "RUNNABLE" /\ r.parent = proc[p].parent
    <3>1. proc[p] \in ProcStruct
      BY Types, Zenon
    <3> QED
      BY <3>1, Zenon DEF ProcStruct
  <2>2. proc' = [proc EXCEPT ![p] = r]
    BY Zenon DEF yield
  <2> HIDE DEF r
  <2> QED
    BY <2>1, <2>2, Zenon DEF ProcInv, TypeOK
<1>4. pc' = [pc EXCEPT ![p] = "swtch"] /\ pc'[p] = "swtch" /\ \A q \in P : q # p => pc'[q] = pc[q]
  BY <1>0, Zenon DEF Goto, ProcInv, TypeOK
<1>5. LocalsOK(p)'
  BY <1>0, <1>1, <1>3, <1>4, Zenon DEF LocalsOK, Doing
<1>6. Wakeups'
  BY <1>0, <1>3, <1>4, WakeupsFrame, Zenon DEF Others
<1>7. pc[p] \in On /\ lock[p] = Nobody
  BY <1>0, <1>1, Zenon DEF On, Free
<1>8. \A m \in Locks : m # p => lock'[m] = IF lock[m] = c THEN Nobody ELSE lock[m]
  BY <1>1, <1>2, Zenon DEF Keeps
<1> QED
  BY <1>0, <1>1, <1>2, <1>3, <1>4, <1>5, <1>6, <1>7, <1>8, GiveUp, ZenonT(30)

\* exit becomes a zombie with its lock held, and lets go of wait_lock.
LEMMA ExitZombieInv == ASSUME ProcInv, NEW c \in CPUs, NEW p \in P, exitZombie(c, p) PROVE ProcInv'
<1>0. At(c, p, "zombie") /\ Free(p) /\ Goto(p, "swtch") /\ loc' = loc /\ Others
  BY Zenon DEF exitZombie
<1>1. /\ cpu[c].proc = p /\ p # Nobody /\ pc[p] = "zombie" /\ ~Ticking(c) /\ LocalsOK(p) /\ CpuOK(c)
      /\ lock \in [Locks -> 0..NCPU] /\ cpu[c].noff = 1 /\ cpu[c] \in CpuStruct
      /\ \A m \in Locks : lock[m] = c <=> Keeps(p, m)
  BY <1>0, RunFacts DEF Depth
<1>2. /\ cpu' \in [CPUs -> CpuStruct] /\ \A d \in CPUs \ {c} : cpu'[d] = cpu[d]
      /\ cpu'[c].proc = p /\ cpu'[c].noff = 1 /\ ~cpu'[c].intr
  <2> DEFINE j == push_off(cpu[c])
             k == pop_off(j)
  <2>1. j \in CpuStruct /\ j.proc = p /\ j.noff = 2 /\ j.intr = FALSE
    <3>1. cpu[c].noff < 3 /\ cpu[c].noff + 1 = 2
      BY <1>1
    <3>2. j \in CpuStruct /\ j.proc = p /\ j.noff = cpu[c].noff + 1 /\ ~j.intr
      BY <1>1, <3>1, PushFacts, Zenon
    <3>3. j.intr \in BOOLEAN
      BY <3>2, Zenon DEF CpuStruct
    <3> QED
      BY <3>1, <3>2, <3>3, Zenon
  <2> HIDE DEF j
  <2>2. k \in CpuStruct /\ k.proc = p /\ k.noff = 1 /\ k.intr = FALSE
    <3>1. j.noff > 0 /\ j.noff - 1 = 1 /\ j.noff # 1
      BY <2>1
    <3>2. /\ k \in CpuStruct /\ k.proc = j.proc /\ k.noff = j.noff - 1
          /\ k.intr = (j.intr \/ (j.noff = 1 /\ j.intena))
      BY <2>1, <3>1, PopFacts, Zenon
    <3> QED
      BY <2>1, <3>1, <3>2, Zenon
  <2>3. cpu' = [cpu EXCEPT ![c] = k]
    BY Zenon DEF exitZombie, Set, j
  <2> HIDE DEF k
  <2> QED
    BY <2>2, <2>3, Zenon DEF ProcInv, TypeOK
<1>3. /\ proc' \in [P -> ProcStruct] /\ \A q \in P : q # p => proc'[q] = proc[q]
      /\ proc'[p].state = "ZOMBIE" /\ proc'[p].parent = proc[p].parent
  <2> DEFINE r == [proc[p] EXCEPT !.state = "ZOMBIE"]
  <2>1. r \in ProcStruct /\ r.state = "ZOMBIE" /\ r.parent = proc[p].parent
    <3>1. proc[p] \in ProcStruct
      BY Types, Zenon
    <3> QED
      BY <3>1, Zenon DEF ProcStruct
  <2>2. proc' = [proc EXCEPT ![p] = r]
    BY Zenon DEF exitZombie
  <2> HIDE DEF r
  <2> QED
    BY <2>1, <2>2, Zenon DEF ProcInv, TypeOK
<1>4. pc' = [pc EXCEPT ![p] = "swtch"] /\ pc'[p] = "swtch" /\ \A q \in P : q # p => pc'[q] = pc[q]
  BY <1>0, Zenon DEF Goto, ProcInv, TypeOK
<1>5. LocalsOK(p)'
  BY <1>0, <1>1, <1>3, <1>4, Zenon DEF LocalsOK, Doing
<1>6. Wakeups'
  <2>1. Wakeups
    BY Zenon DEF ProcInv
  <2>2. \A q \in P : Elapsed(q)' = Elapsed(q)
    BY <1>0, Zenon DEF Elapsed, Others
  <2>3. \A q \in P : AsleepInWait(q)' => AsleepInWait(q)
    BY <1>3, Zenon DEF AsleepInWait
  <2>4. Keeps(p, wait_lock) /\ wait_lock \in Locks
    BY <1>1, Consts, Zenon DEF Keeps
  <2>5. ASSUME NEW q \in P, \/ AsleepInWait(q)'
                            \/ pc'[q] \in {"sleep", "sleeping"} /\ loc'[q].lk = wait_lock
        PROVE  \A r \in P : proc'[r].parent = q => proc'[r].state # "ZOMBIE"
    <3>1. AsleepInWait(q) \/ (pc[q] \in {"sleep", "sleeping"} /\ loc[q].lk = wait_lock)
      BY <1>0, <1>4, <2>3, <2>5, Zenon
    <3>2. \A r \in P : proc[r].parent = q => proc[r].state # "ZOMBIE"
      BY <2>1, <3>1, Zenon DEF Wakeups
    <3>3. AsleepInWait(q)
      <4>1. pc[q] \in {"sleep", "sleeping"} /\ loc[q].lk = wait_lock => Keeps(q, wait_lock)
        BY Zenon DEF Keeps
      <4> QED
        BY <1>1, <2>4, <3>1, <4>1, OneKeeper, Zenon
    <3>4. proc[p].parent # q
      BY <1>1, <2>1, <3>3, Zenon DEF Wakeups
    <3> QED
      BY <1>3, <3>2, <3>4, Zenon
  <2>6. ASSUME NEW e \in P, pc'[e] = "zombie", NEW q \in P, proc'[e].parent = q PROVE ~AsleepInWait(q)'
    BY <1>3, <1>4, <2>1, <2>3, <2>6, Zenon DEF Wakeups
  <2>7. ASSUME NEW q \in P, proc'[q].state = "SLEEPING", proc'[q].chan = TicksChan, ~tick'
        PROVE  Elapsed(q)' < loc'[q].n
    BY <1>0, <1>3, <2>1, <2>2, <2>7, Zenon DEF Wakeups, Others
  <2>8. \A q \in P : pc'[q] \in {"sleep", "sleeping"} /\ loc'[q].lk = tickslock => Elapsed(q)' < loc'[q].n
    BY <1>0, <1>4, <2>1, <2>2, Zenon DEF Wakeups
  <2>9. TicksChan' = TicksChan /\ wait_lock' = wait_lock /\ tickslock' = tickslock
    BY Zenon DEF TicksChan, wait_lock, tickslock
  <2> QED
    BY <2>5, <2>6, <2>7, <2>8, <2>9, Zenon DEF Wakeups
<1>7. pc[p] \in On /\ lock[p] = Nobody /\ p \in Locks /\ wait_lock # p /\ wait_lock \in Locks
  BY <1>0, <1>1, Consts, Zenon DEF On, Free
<1>8. lock' = [lock EXCEPT ![p] = c, ![wait_lock] = Nobody]
  BY Zenon DEF exitZombie
<1>9. /\ lock' \in [Locks -> 0..NCPU] /\ lock'[p] = c
      /\ \A m \in Locks : m # p => lock'[m] = IF lock[m] = c THEN Nobody ELSE lock[m]
  <2>1. \A m \in Locks : lock[m] = c => m = wait_lock
    BY <1>1, Zenon DEF Keeps
  <2>2. lock' \in [Locks -> 0..NCPU]
    BY <1>1, <1>7, <1>8, Consts, Zenon
  <2>3. lock[wait_lock] = c
    BY <1>1, <1>7, Zenon DEF Keeps
  <2> QED
    BY <1>1, <1>7, <1>8, <2>1, <2>2, <2>3, Zenon
<1> QED
  BY <1>0, <1>1, <1>2, <1>3, <1>4, <1>5, <1>6, <1>7, <1>9, GiveUp, Zenon

-----------------------------------------------------------------------------
(* wakeup, and the two places in exit that call it.                        *)

\* wakeup changes only sleepers that have let go of their CPU: it has their lock.
LEMMA Sleepers ==
  ASSUME ProcInv, NEW x, ProcLocksFree(x), NEW q \in P, q # x, proc[q].state = "SLEEPING"
  PROVE  pc[q] = "slept"
<1>1. StateOK(q) /\ pc[q] \in ThreadLabels /\ q \in Locks /\ Free(q)
  BY Types, Consts, Zenon DEF ProcInv, States, ProcLocksFree
<1>2. pc[q] \in {"swtch", "slept"}
  BY <1>1, Zenon DEF StateOK, On, ThreadLabels
<1>3. pc[q] # "swtch"
  BY <1>1, OneKeeper, Zenon DEF Keeps
<1> QED
  BY <1>2, <1>3, Zenon

\* What wakeup does to a table of processes.
LEMMA WakeupFacts ==
  ASSUME NEW t \in [P -> ProcStruct], NEW x
  PROVE  /\ wakeup(t, x) \in [P -> ProcStruct]
         /\ \A q \in P : /\ wakeup(t, x)[q].parent = t[q].parent /\ wakeup(t, x)[q].chan = t[q].chan
                         /\ IF t[q].state = "SLEEPING" /\ t[q].chan = x
                            THEN wakeup(t, x)[q].state = "RUNNABLE"
                            ELSE wakeup(t, x)[q].state = t[q].state
<1> DEFINE r(q) == [t[q] EXCEPT !.state = "RUNNABLE"]
<1>1. \A q \in P : /\ t[q] \in ProcStruct /\ r(q) \in ProcStruct /\ r(q).state = "RUNNABLE"
                   /\ r(q).parent = t[q].parent /\ r(q).chan = t[q].chan
  BY Zenon DEF ProcStruct
<1>2. wakeup(t, x) = [q \in P |-> IF t[q].state = "SLEEPING" /\ t[q].chan = x THEN r(q) ELSE t[q]]
  BY Zenon DEF wakeup
<1> HIDE DEF r
<1> QED
  BY <1>1, <1>2, Zenon

\* A step of exit on c, holding wait_lock, that wakes sleepers.
LEMMA ExitStep ==
  ASSUME ProcInv, NEW c \in CPUs, NEW p \in P, NEW l \in {"reparent", "wakeParent"}, At(c, p, l),
         ProcLocksFree(p), UNCHANGED <<cpu, lock, loc>>, Others,
         NEW m \in {"wakeParent", "zombie"}, Goto(p, m),
         proc' \in [P -> ProcStruct],
         \A q \in P : /\ proc'[q].chan = proc[q].chan
                      /\ \/ proc'[q].state = proc[q].state
                         \/ proc[q].state = "SLEEPING" /\ proc'[q].state = "RUNNABLE",
         \A q \in P : proc'[q].parent = proc[q].parent \/ (proc[q].parent = p /\ proc'[q].parent = initproc),
         \A q \in P : proc'[q].parent # p,
         \A q, r \in P : AsleepInWait(q)' /\ proc'[r].parent = q => proc[r].parent = q,
         m = "zombie" => \A q \in P : proc'[p].parent = q => ~AsleepInWait(q)'
  PROVE  ProcInv'
<1>1. /\ cpu[c].proc = p /\ p # Nobody /\ pc[p] = l /\ ~Ticking(c) /\ CpuOK(c) /\ LocalsOK(p) /\ StateOK(p)
      /\ lock \in [Locks -> 0..NCPU]
      /\ \A x \in Locks : lock[x] = c <=> Keeps(p, x)
  BY RunFacts, Zenon
<1>2. proc[p].state = "RUNNING" /\ proc'[p].state = "RUNNING"
  BY <1>1, Zenon DEF StateOK, On
<1>3. /\ pc' \in [P -> ThreadLabels] /\ pc'[p] = m /\ \A q \in P : q # p => pc'[q] = pc[q]
      /\ loc' \in [P -> LocStruct] /\ loc' = loc
      /\ cpu' \in [CPUs -> CpuStruct] /\ cpu' = cpu /\ lock' \in [Locks -> 0..NCPU] /\ lock' = lock
      /\ tick' = tick /\ ticks' = ticks /\ panicked' = panicked /\ nextpid' \in 1..(MaxPid + 1)
  BY Zenon DEF ProcInv, TypeOK, ThreadLabels, LocStruct, Others, Goto
<1>4. \A q \in P : q # p /\ proc[q].state = "SLEEPING" => pc[q] = "slept"
  BY Sleepers, Zenon
<1>5. wait_lock \in Locks /\ Keeps(p, wait_lock) /\ initproc \in P
  BY <1>1, Consts, Zenon DEF Keeps
<1>6. \A q \in P : q # p => ~Keeps(q, wait_lock)
  BY <1>5, OneKeeper, Zenon
<1>7. Forks'
  <2>1. \A q \in P : /\ InFork(q)' => InFork(q) /\ loc'[q].arg = loc[q].arg
                     /\ Doing(q, "forkRunnable")' => Doing(q, "forkRunnable")
    BY <1>3, Zenon DEF InFork, Doing
  <2>2. ~InFork(p)
    BY <1>1, Zenon DEF InFork, Doing, LocalsOK
  <2>3. \A q, r \in P : InFork(q) /\ proc[r].state = "USED" /\ r = loc[q].arg /\ InFork(q)' =>
          proc'[r].state = "USED" /\ (proc[r].parent = q => proc'[r].parent = q)
    BY <2>2, Zenon
  <2> QED
    BY <2>1, <2>3, ForksFrame, Zenon
<1>8. Family'
  <2>1. \A q \in P : q # p => (Childless(q)' => Childless(q))
    BY <1>3, Zenon DEF Childless
  <2>2. p # initproc
    BY <1>1, <1>5, Zenon DEF ProcInv, Family, Childless
  <2>3. pc'[initproc] = "reparent" => pc[initproc] = "reparent"
    BY <1>3, <1>5, <2>2, Zenon
  <2>4. Childless(initproc)' => Childless(initproc)
    BY <1>5, <2>1, <2>2, Zenon DEF initproc
  <2>5. ~Childless(initproc)
    BY Zenon DEF ProcInv, Family
  <2>6. \A q, r \in P : proc'[q].parent = r => proc[q].parent = r \/ ~Childless(r)'
    BY <1>5, <2>1, <2>2, <2>5, Zenon
  <2>7. \A q \in P : Childless(q)' => Childless(q) \/ \A r \in P : proc'[r].parent # q
    BY <2>1, Zenon
  <2>8. \A q \in P : proc'[q].state \notin {"UNUSED", "USED"} =>
          \/ proc'[q].parent # Nobody
          \/ proc[q].state \notin {"UNUSED", "USED"} /\ proc'[q].parent = proc[q].parent
    BY <1>5, Consts, Zenon
  <2> QED
    BY <2>3, <2>4, <2>6, <2>7, <2>8, FamilyFrame, Zenon
<1>9. Wakeups'
  <2>1. Wakeups
    BY Zenon DEF ProcInv
  <2>2. \A q \in P : Elapsed(q)' = Elapsed(q)
    BY <1>3, Zenon DEF Elapsed
  <2>3. \A q \in P : AsleepInWait(q)' => AsleepInWait(q)
    BY Zenon DEF AsleepInWait
  <2>5. ASSUME NEW q \in P, \/ AsleepInWait(q)'
                            \/ pc'[q] \in {"sleep", "sleeping"} /\ loc'[q].lk = wait_lock
        PROVE  \A r \in P : proc'[r].parent = q => proc'[r].state # "ZOMBIE"
    <3>1. AsleepInWait(q)'
      <4>1. pc'[q] \in {"sleep", "sleeping"} /\ loc'[q].lk = wait_lock => q # p /\ Keeps(q, wait_lock)
        BY <1>3, Zenon DEF Keeps
      <4> QED
        BY <1>6, <2>5, <4>1, Zenon
    <3>2. \A r \in P : proc[r].parent = q => proc[r].state # "ZOMBIE"
      BY <2>1, <2>3, <3>1, Zenon DEF Wakeups
    <3>3. \A r \in P : proc'[r].parent = q => proc[r].parent = q
      BY <3>1, Zenon
    <3>4. \A r \in P : proc'[r].state = "ZOMBIE" => proc[r].state = "ZOMBIE"
      BY Zenon
    <3> QED
      BY <3>2, <3>3, <3>4, Zenon
  <2>6. ASSUME NEW e \in P, pc'[e] = "zombie", NEW q \in P, proc'[e].parent = q PROVE ~AsleepInWait(q)'
    <3>1. e = p
      BY <1>3, <1>6, <2>6, Zenon DEF Keeps
    <3> QED
      BY <1>3, <2>6, <3>1, Zenon
  <2>7. ASSUME NEW q \in P, proc'[q].state = "SLEEPING", proc'[q].chan = TicksChan, ~tick'
        PROVE  Elapsed(q)' < loc'[q].n
    BY <1>3, <2>1, <2>2, <2>7, Zenon DEF Wakeups
  <2>8. \A q \in P : pc'[q] \in {"sleep", "sleeping"} /\ loc'[q].lk = tickslock => Elapsed(q)' < loc'[q].n
    BY <1>3, <2>1, <2>2, Zenon DEF Wakeups
  <2>9. TicksChan' = TicksChan /\ wait_lock' = wait_lock /\ tickslock' = tickslock
    BY Zenon DEF TicksChan, wait_lock, tickslock
  <2> QED
    BY <2>5, <2>6, <2>7, <2>8, <2>9, Zenon DEF Wakeups
<1>10. CpuOK(c)' /\ StateOK(p)' /\ LocalsOK(p)'
  <2>0. ~Ticking(c)'
    BY <1>1, <1>3, Zenon DEF Ticking
  <2>1. CpuOK(c)'
    BY <1>1, <1>2, <1>3, <2>0, ZenonT(30) DEF CpuOK, Depth
  <2>2. StateOK(p)'
    BY <1>2, <1>3, Zenon DEF StateOK, On
  <2>3. LocalsOK(p)'
    BY <1>1, <1>2, <1>3, Zenon DEF LocalsOK, Doing
  <2> QED
    BY <2>1, <2>2, <2>3, Zenon
<1>11. \A x \in Locks : IF Needs(c, x)' THEN lock[x] \in {c, Nobody} /\ lock'[x] = c
                        ELSE lock'[x] = IF lock[x] = c THEN Nobody ELSE lock[x]
  <2>1. \A x \in Locks : Needs(c, x)' <=> lock[x] = c
    BY <1>1, <1>3, Zenon DEF Needs, Keeps, Ticking
  <2> QED
    BY <1>3, <2>1, Zenon
<1>12. /\ m \in Active
       /\ \A q \in P : q # p =>
            \/ proc'[q].state = proc[q].state /\ proc'[q].chan = proc[q].chan
            \/ pc[q] = "slept" /\ proc'[q].state = "RUNNABLE"
  BY <1>4, Zenon DEF Active, On
<1> QED
  BY <1>1, <1>3, <1>7, <1>8, <1>9, <1>10, <1>11, <1>12, TableStep, Zenon

\* exit gives the children to init and wakes it.
LEMMA ReparentInv == ASSUME ProcInv, NEW c \in CPUs, NEW p \in P, reparent(c, p) PROVE ProcInv'
<1>0. /\ At(c, p, "reparent") /\ ProcLocksFree(p) /\ Goto(p, "wakeParent")
      /\ UNCHANGED <<cpu, lock, loc>> /\ Others /\ pc[p] = "reparent"
  BY Zenon DEF reparent, At
<1>1. p # initproc /\ initproc \in P /\ proc \in [P -> ProcStruct]
  BY <1>0, Consts, Zenon DEF ProcInv, Family, TypeOK
<1>2. CASE Children(p) = {}
  <2>1. proc' = proc
    BY <1>2, Zenon DEF reparent
  <2>2. \A q \in P : proc[q].parent # p
    BY <1>2, Zenon DEF Children
  <2>3. proc' \in [P -> ProcStruct]
    BY <1>1, <2>1, Zenon
  <2> QED
    BY <1>0, <2>1, <2>2, <2>3, ExitStep, Zenon
<1>3. CASE Children(p) # {}
  <2> DEFINE r(q) == [proc[q] EXCEPT !.parent = initproc]
             given == [q \in P |-> IF q \in Children(p) THEN r(q) ELSE proc[q]]
  <2>1. \A q \in P : /\ proc[q] \in ProcStruct /\ r(q) \in ProcStruct /\ r(q).state = proc[q].state
                     /\ r(q).parent = initproc /\ r(q).chan = proc[q].chan
    BY <1>1, Consts DEF ProcStruct
  <2>2. proc' = wakeup(given, initproc)
    BY <1>3, Zenon DEF reparent
  <2> HIDE DEF r
  <2>3. /\ given \in [P -> ProcStruct]
        /\ \A q \in P : /\ given[q].state = proc[q].state /\ given[q].chan = proc[q].chan
                        /\ proc[q].parent = p => given[q].parent = initproc
                        /\ proc[q].parent # p => given[q].parent = proc[q].parent
    BY <2>1, Zenon DEF Children
  <2> HIDE DEF given
  <2>4. /\ proc' \in [P -> ProcStruct]
        /\ \A q \in P : /\ proc'[q].parent = given[q].parent /\ proc'[q].chan = given[q].chan
                        /\ IF given[q].state = "SLEEPING" /\ given[q].chan = initproc
                           THEN proc'[q].state = "RUNNABLE"
                           ELSE proc'[q].state = given[q].state
    BY <2>2, <2>3, WakeupFacts
  <2>5. \A q \in P : /\ proc'[q].chan = proc[q].chan
                     /\ \/ proc'[q].state = proc[q].state
                        \/ proc[q].state = "SLEEPING" /\ proc'[q].state = "RUNNABLE"
    BY <2>3, <2>4, Zenon
  <2>6. /\ \A q \in P : proc'[q].parent = proc[q].parent \/ (proc[q].parent = p /\ proc'[q].parent = initproc)
        /\ \A q \in P : proc'[q].parent # p
    BY <1>1, <2>3, <2>4, Zenon
  <2>7. ~AsleepInWait(initproc)'
    <3>1. ~(proc'[initproc].state = "SLEEPING" /\ proc'[initproc].chan = initproc)
      BY <1>1, <2>3, <2>4, Zenon
    <3> QED
      BY <3>1, Zenon DEF AsleepInWait, initproc
  <2>8. \A q, s \in P : AsleepInWait(q)' /\ proc'[s].parent = q => proc[s].parent = q
    BY <2>6, <2>7, Zenon DEF initproc
  <2> QED
    BY <1>0, <2>4, <2>5, <2>6, <2>8, ExitStep, Zenon
<1> QED
  BY <1>2, <1>3, Zenon

\* exit wakes the parent, in case it sleeps in wait.
LEMMA ExitWakeupInv == ASSUME ProcInv, NEW c \in CPUs, NEW p \in P, exitWakeup(c, p) PROVE ProcInv'
<1>0. /\ At(c, p, "wakeParent") /\ ProcLocksFree(p) /\ Goto(p, "zombie")
      /\ UNCHANGED <<cpu, lock, loc>> /\ Others /\ pc[p] = "wakeParent"
  BY Zenon DEF exitWakeup, At
<1>1. proc \in [P -> ProcStruct] /\ \A q \in P : proc[q].parent # p
  BY <1>0, Zenon DEF ProcInv, Family, TypeOK, Childless
<1>2. /\ proc' \in [P -> ProcStruct]
      /\ \A q \in P : /\ proc'[q].parent = proc[q].parent /\ proc'[q].chan = proc[q].chan
                      /\ IF proc[q].state = "SLEEPING" /\ proc[q].chan = proc[p].parent
                         THEN proc'[q].state = "RUNNABLE"
                         ELSE proc'[q].state = proc[q].state
  <2>1. proc' = wakeup(proc, proc[p].parent)
    BY Zenon DEF exitWakeup
  <2> QED
    BY <1>1, <2>1, WakeupFacts
<1>3. \A q \in P : \/ proc'[q].state = proc[q].state
                   \/ proc[q].state = "SLEEPING" /\ proc'[q].state = "RUNNABLE"
  BY <1>2, Zenon
<1>4. \A q \in P : proc'[p].parent = q => ~AsleepInWait(q)'
  BY <1>2, Zenon DEF AsleepInWait
<1> QED
  BY <1>0, <1>1, <1>2, <1>3, <1>4, ExitStep

=============================================================================

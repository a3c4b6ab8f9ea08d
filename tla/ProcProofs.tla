----------------------------- MODULE ProcProofs -----------------------------
(***************************************************************************)
(* The rest of the proof that ProcInv is an invariant of Proc (the         *)
(* switches, the interrupts and the reaping of a child), and the theorems  *)
(* about the process table that follow from it.                            *)
(***************************************************************************)
EXTENDS ProcSteps

-----------------------------------------------------------------------------
(* The switches: sched leaves a thread and scheduler enters one.           *)

\* CPU c, which is not in clockintr, leaves p or enters it, and holds no lock after.
LEMMA SwitchFrame ==
  ASSUME ProcInv, NEW c \in CPUs, NEW p \in P, ~Ticking(c), tick' = tick,
         \A d \in CPUs \ {c} : cpu'[d] = cpu[d],
         \A q \in P : q # p => pc'[q] = pc[q] /\ loc'[q] = loc[q] /\ proc'[q] = proc[q],
         \/ cpu[c].proc = p /\ cpu'[c].proc = Nobody /\ pc'[p] \notin Active
         \/ cpu[c].proc = Nobody /\ cpu'[c].proc = p /\ pc[p] \notin Active /\ pc'[p] \in Interruptible,
         \A l \in Locks : lock'[l] = IF lock[l] = c THEN Nobody ELSE lock[l]
  PROVE  Stacks' /\ Locking' /\ \A d \in CPUs \ {c} : CpuOK(d)'
<1> USE DEF ProcInv
<1>0. p # Nobody /\ Interruptible \subseteq Active /\ \A d \in CPUs : cpu[d].proc \in P \cup {Nobody}
  BY Types, Consts, Zenon DEF Interruptible, Active, On
<1>1. \A d \in CPUs \ {c} : cpu[d].proc # p
  BY <1>0 DEF Stacks
<1>2. \A d \in CPUs \ {c} : cpu[d].proc # Nobody =>
        /\ cpu[d].proc \in P /\ proc'[cpu[d].proc] = proc[cpu[d].proc]
        /\ pc'[cpu[d].proc] = pc[cpu[d].proc] /\ loc'[cpu[d].proc] = loc[cpu[d].proc]
  BY <1>0, <1>1, Zenon
<1>3. \A d \in CPUs : Ticking(d)' <=> Ticking(d)
  BY Zenon DEF Ticking
<1>4. Stacks'
  <2>1. \A d \in CPUs : cpu'[d].proc # Nobody => pc'[cpu'[d].proc] \in Active
    BY <1>0, <1>2 DEF Stacks
  <2>2. \A d, e \in CPUs : cpu'[d].proc = cpu'[e].proc /\ cpu'[d].proc # Nobody => d = e
    BY <1>0, <1>1 DEF Stacks
  <2>3. \A q \in P : pc'[q] \in Active => \E d \in CPUs : cpu'[d].proc = q
    <3> SUFFICES ASSUME NEW q \in P, pc'[q] \in Active PROVE \E d \in CPUs : cpu'[d].proc = q
      BY Zenon
    <3>1. CASE q = p
      BY <3>1, Zenon
    <3>2. CASE q # p
      <4>1. PICK d \in CPUs : cpu[d].proc = q
        BY <3>2, Zenon DEF Stacks
      <4>2. d # c
        BY <1>0, <3>2, <4>1, Consts, Zenon
      <4> QED
        BY <4>1, <4>2, Zenon
    <3> QED
      BY <3>1, <3>2, Zenon
  <2> QED
    BY <2>1, <2>2, <2>3, Zenon DEF Stacks
<1>5. Locking'
  <2>1. ASSUME NEW l \in Locks PROVE ~Needs(c, l)' /\ lock'[l] # c
    BY <1>3, Consts, Zenon DEF Needs, Keeps, Interruptible
  <2>2. ASSUME NEW d \in CPUs \ {c}, NEW l \in Locks PROVE lock'[l] = d <=> Needs(d, l)'
    <3>1. Needs(d, l)' <=> Needs(d, l)
      BY <1>2, <1>3 DEF Needs, Keeps
    <3>2. lock[l] = d <=> Needs(d, l)
      BY Zenon DEF Locking
    <3>3. lock'[l] = d <=> lock[l] = d
      BY Consts, Zenon
    <3> QED
      BY <3>1, <3>2, <3>3, Zenon
  <2> QED
    BY <2>1, <2>2 DEF Locking
<1>6. \A d \in CPUs \ {c} : CpuOK(d)'
  <2> SUFFICES ASSUME NEW d \in CPUs \ {c} PROVE CpuOK(d)'
    BY Zenon
  <2>1. CpuOK(d) /\ cpu'[d] = cpu[d] /\ (Ticking(d)' <=> Ticking(d))
    BY <1>3, Zenon DEF Cpus
  <2>3. CASE cpu[d].proc = Nobody
    BY <2>1, <2>3, Zenon DEF CpuOK
  <2>4. CASE cpu[d].proc # Nobody
    BY <1>2, <2>1, <2>4 DEF CpuOK
  <2> QED
    BY <2>3, <2>4, Zenon
<1> QED
  BY <1>4, <1>5, <1>6, Zenon

\* A switch keeps the invariant if what it makes of p and of c agrees with it.
LEMMA SwitchStep ==
  ASSUME ProcInv, NEW c \in CPUs, NEW p \in P, ~Ticking(c), Others,
         cpu' \in [CPUs -> CpuStruct], \A d \in CPUs \ {c} : cpu'[d] = cpu[d],
         pc' \in [P -> ThreadLabels], \A q \in P : q # p => pc'[q] = pc[q],
         loc' \in [P -> LocStruct], \A q \in P : q # p => loc'[q] = loc[q],
         proc' \in [P -> ProcStruct], \A q \in P : q # p => proc'[q] = proc[q],
         lock' \in [Locks -> 0..NCPU],
         \/ cpu[c].proc = p /\ cpu'[c].proc = Nobody /\ pc'[p] \notin Active
         \/ cpu[c].proc = Nobody /\ cpu'[c].proc = p /\ pc[p] \notin Active /\ pc'[p] \in Interruptible,
         \A l \in Locks : lock'[l] = IF lock[l] = c THEN Nobody ELSE lock[l],
         loc'[p].arg = loc[p].arg, loc'[p].n = loc[p].n, proc'[p].parent = proc[p].parent,
         \/ proc'[p].state = proc[p].state /\ proc'[p].chan = proc[p].chan
         \/ proc[p].state = "RUNNABLE" /\ proc'[p].state = "RUNNING",
         CpuOK(c)', StateOK(p)', LocalsOK(p)',
         InFork(p)' => InFork(p), Doing(p, "forkRunnable")' => Doing(p, "forkRunnable")
  PROVE  ProcInv'
<1> USE DEF ProcInv
<1>0. tick' = tick /\ ticks' = ticks /\ nextpid' = nextpid /\ panicked' = panicked
  BY Zenon DEF Others
<1>1. TypeOK'
  BY <1>0, Zenon DEF TypeOK, LocStruct
<1>2. Stacks' /\ Locking' /\ \A d \in CPUs \ {c} : CpuOK(d)'
  BY <1>0, SwitchFrame, Zenon
<1>3. Cpus'
  BY <1>2, Zenon DEF Cpus
<1>4. \A q \in P : q # p => /\ StateOK(q)' /\ LocalsOK(q)' /\ (InFork(q)' <=> InFork(q))
                            /\ Doing(q, "forkRunnable")' <=> Doing(q, "forkRunnable")
  BY BystanderOK, ZenonT(30)
<1>5. States' /\ Locals'
  BY <1>4, Zenon DEF States, Locals
<1>6. Forks'
  <2>1. \A q \in P : /\ InFork(q)' => InFork(q) /\ loc'[q].arg = loc[q].arg
                     /\ Doing(q, "forkRunnable")' => Doing(q, "forkRunnable")
    BY <1>4, Zenon
  <2>2. \A q, r \in P : InFork(q) /\ proc[r].state = "USED" /\ r = loc[q].arg /\ InFork(q)' =>
          proc'[r].state = "USED" /\ (proc[r].parent = q => proc'[r].parent = q)
    BY Zenon
  <2> QED
    BY <2>1, <2>2, ForksFrame, Zenon
<1>7. pc'[p] \notin {"sleep", "sleeping", "reparent", "wakeParent", "zombie"}
  BY ZenonT(30) DEF Interruptible, Active, On
<1>8. Family'
  <2>1. \A q \in P : Childless(q)' => Childless(q)
    BY <1>7, ZenonT(30) DEF Childless
  <2>2. pc'[initproc] = "reparent" => pc[initproc] = "reparent"
    BY <1>7, Consts, Zenon
  <2>3. Childless(initproc)' => Childless(initproc)
    BY <2>1, Consts, ZenonT(30) DEF initproc
  <2>4. \A q \in P : proc'[q].state \notin {"UNUSED", "USED"} =>
          proc[q].state \notin {"UNUSED", "USED"} /\ proc'[q].parent = proc[q].parent
    BY Zenon
  <2>5. \A q, r \in P : proc'[q].parent = r => proc[q].parent = r
    BY Zenon
  <2> QED
    BY <2>1, <2>2, <2>3, <2>4, <2>5, FamilyFrame, ZenonT(30)
<1>9. Wakeups'
  BY <1>0, <1>7, WakeupsFrame, ZenonT(30)
<1> QED
  BY <1>1, <1>2, <1>3, <1>5, <1>6, <1>8, <1>9, ZenonT(30)

\* sched keeps intena in the thread and lets the scheduler release its lock.
LEMMA SchedInv == ASSUME ProcInv, NEW c \in CPUs, NEW p \in P, sched(c, p) PROVE ProcInv'
<1>0. At(c, p, "swtch") /\ Goto(p, Resume(p)) /\ proc' = proc /\ Others
  BY Zenon DEF sched
<1>1. /\ cpu[c].proc = p /\ p # Nobody /\ pc[p] = "swtch" /\ ~Ticking(c) /\ CpuOK(c) /\ LocalsOK(p)
      /\ cpu[c] \in CpuStruct /\ lock \in [Locks -> 0..NCPU] /\ cpu[c].noff = 1 /\ StateOK(p)
      /\ loc[p] \in LocStruct
      /\ \A m \in Locks : lock[m] = c <=> Keeps(p, m)
  BY <1>0, RunFacts, ZenonT(30) DEF Depth
<1>2. /\ cpu' \in [CPUs -> CpuStruct] /\ \A d \in CPUs \ {c} : cpu'[d] = cpu[d]
      /\ cpu'[c].proc = Nobody /\ cpu'[c].noff = 0
  <2> DEFINE j == [cpu[c] EXCEPT !.proc = Nobody]
             k == pop_off(j)
  <2>1. j \in CpuStruct /\ j.proc = Nobody /\ j.noff = 1
    BY <1>1, Consts, Zenon DEF CpuStruct
  <2> HIDE DEF j
  <2>2. k \in CpuStruct /\ k.proc = Nobody /\ k.noff = 0
    <3>1. j.noff > 0 /\ j.noff - 1 = 0
      BY <2>1
    <3> QED
      BY <2>1, <3>1, PopFacts, Zenon
  <2>3. cpu' = [cpu EXCEPT ![c] = k]
    BY Zenon DEF sched, Set, j
  <2> HIDE DEF k
  <2> QED
    BY <2>2, <2>3, Zenon DEF ProcInv, TypeOK
<1>3. /\ loc' \in [P -> LocStruct] /\ \A q \in P : q # p => loc'[q] = loc[q]
      /\ loc'[p].intena = cpu[c].intena /\ loc'[p].arg = loc[p].arg /\ loc'[p].n = loc[p].n
      /\ loc'[p].back = loc[p].back /\ loc'[p].lk = loc[p].lk
  <2> DEFINE v == [loc[p] EXCEPT !.intena = cpu[c].intena]
  <2>1. /\ v \in LocStruct /\ v.intena = cpu[c].intena /\ v.arg = loc[p].arg /\ v.n = loc[p].n
        /\ v.back = loc[p].back /\ v.lk = loc[p].lk
    <3>1. cpu[c].intena \in BOOLEAN
      BY <1>1, Zenon DEF CpuStruct
    <3> QED
      BY <1>1, <3>1, Zenon DEF LocStruct
  <2>2. loc' = [loc EXCEPT ![p] = v]
    BY Zenon DEF sched
  <2>3. loc \in [P -> LocStruct]
    BY Zenon DEF ProcInv, TypeOK, LocStruct
  <2> HIDE DEF v
  <2> QED
    BY <2>1, <2>2, <2>3, Zenon
<1>4. PICK l \in {"slept", "dead", "yielded"} :
        /\ l = Resume(p)
        /\ l = "slept" <=> proc[p].state = "SLEEPING"
        /\ l = "dead" <=> proc[p].state = "ZOMBIE"
        /\ l = "yielded" <=> proc[p].state = "RUNNABLE"
  <2>1. proc[p].state \in {"SLEEPING", "RUNNABLE", "ZOMBIE"}
    BY <1>1, Zenon DEF StateOK
  <2>2. CASE proc[p].state = "SLEEPING"
    BY <2>2, Zenon DEF Resume
  <2>3. CASE proc[p].state = "ZOMBIE"
    BY <2>3, Zenon DEF Resume
  <2>4. CASE proc[p].state = "RUNNABLE"
    BY <2>4, Zenon DEF Resume
  <2> QED
    BY <2>1, <2>2, <2>3, <2>4, Zenon
<1>5. pc' \in [P -> ThreadLabels] /\ pc'[p] = l /\ \A q \in P : q # p => pc'[q] = pc[q]
  BY <1>0, <1>4, Zenon DEF Goto, ProcInv, TypeOK, ThreadLabels
<1>6. proc' \in [P -> ProcStruct]
  BY <1>0, Zenon DEF ProcInv, TypeOK
<1>7. lock' \in [Locks -> 0..NCPU] /\ \A m \in Locks : lock'[m] = IF lock[m] = c THEN Nobody ELSE lock[m]
  <2>1. lock' = [lock EXCEPT ![p] = Nobody] /\ p \in Locks
    BY Consts, Zenon DEF sched
  <2>2. \A m \in Locks : lock[m] = c <=> m = p
    BY <1>1, Zenon DEF Keeps
  <2> QED
    BY <1>1, <2>1, <2>2, Consts, Zenon
<1>8. ~Ticking(c)'
  BY <1>0, <1>1, Zenon DEF Ticking, Others
<1>9. CpuOK(c)'
  BY <1>2, <1>8 DEF CpuOK
<1>10. StateOK(p)'
  BY <1>0, <1>4, <1>5, Zenon DEF StateOK, On
<1>11. LocalsOK(p)'
  <2>1. SleepChan(p)' = SleepChan(p)
    BY <1>3, Zenon DEF SleepChan, TicksChan, wait_lock, tickslock
  <2>2. proc[p].state = "SLEEPING" => cpu[c].intena
    BY <1>1, Zenon DEF CpuOK
  <2> QED
    BY <1>0, <1>1, <1>3, <1>4, <1>5, <2>1, <2>2, Zenon DEF LocalsOK, Doing
<1>12. (InFork(p)' => InFork(p)) /\ (Doing(p, "forkRunnable")' => Doing(p, "forkRunnable"))
  BY <1>3, <1>5, Zenon DEF InFork, Doing
<1>13. pc'[p] \notin Active
  BY <1>5, Zenon DEF Active, On
<1> QED
  BY <1>0, <1>1, <1>2, <1>3, <1>5, <1>6, <1>7, <1>9, <1>10, <1>11, <1>12, <1>13, SwitchStep, Zenon

\* The scheduler switches to a RUNNABLE process, which is at forkret or behind
\* sched and goes on with interrupts on.
LEMMA SchedulerInv == ASSUME ProcInv, NEW c \in CPUs, NEW p \in P, scheduler(c, p) PROVE ProcInv'
<1> DEFINE j == push_off(cpu[c])
           k == [j EXCEPT !.proc = p]
<1>0. /\ cpu[c].proc = Nobody /\ ~Ticking(c) /\ proc[p].state = "RUNNABLE" /\ Free(p)
      /\ lock' = lock /\ Others /\ (forkret(c, p, k) \/ Woken(c, p, k))
  BY Zenon DEF scheduler, Ticking
<1>1. /\ CpuOK(c) /\ LocalsOK(p) /\ cpu[c] \in CpuStruct /\ cpu[c].noff = 0 /\ StateOK(p)
      /\ loc[p] \in LocStruct /\ p \in Locks /\ p # Nobody /\ p \in 0..NPROC
      /\ \A m \in Locks : lock[m] # c
  <2>1. CpuOK(c) /\ LocalsOK(p) /\ StateOK(p)
    BY Zenon DEF ProcInv, Cpus, Locals, States
  <2>2. cpu[c].noff = 0
    BY <1>0, <2>1 DEF CpuOK
  <2>3. \A m \in Locks : lock[m] # c
    BY <1>0, Zenon DEF ProcInv, Locking, Needs
  <2> QED
    BY <2>1, <2>2, <2>3, Types, Consts, Zenon
<1>2. k \in CpuStruct /\ k.proc = p /\ k.noff = 1
  <2>1. j \in CpuStruct /\ j.noff = 1
    BY <1>1, PushFacts
  <2> HIDE DEF j
  <2> QED
    BY <1>1, <2>1, Zenon DEF CpuStruct
<1> HIDE DEF k
<1>3. /\ proc' \in [P -> ProcStruct] /\ \A q \in P : q # p => proc'[q] = proc[q]
      /\ proc'[p].state = "RUNNING" /\ proc'[p].parent = proc[p].parent
  <2> DEFINE r == [proc[p] EXCEPT !.state = "RUNNING", !.chan = 0]
  <2>1. r \in ProcStruct /\ r.state = "RUNNING" /\ r.parent = proc[p].parent
    <3>1. proc[p] \in ProcStruct /\ 0 \in 0..(NPROC + 2)
      BY Types, ProcAssumption
    <3> QED
      BY <3>1, Zenon DEF ProcStruct
  <2>2. proc' = [proc EXCEPT ![p] = r]
    BY Zenon DEF scheduler
  <2> HIDE DEF r
  <2> QED
    BY <2>1, <2>2, Zenon DEF ProcInv, TypeOK
<1>4. pc[p] \in {"forkret", "yielded", "slept"}
  <2>1. pc[p] \in ThreadLabels /\ pc[p] # "swtch"
    BY <1>0, <1>1, Types, OneKeeper, Zenon DEF Keeps
  <2> QED
    BY <1>0, <1>1, <2>1, Zenon DEF StateOK, On, ThreadLabels
<1>5. PICK i \in CpuStruct : Set(c, i) /\ i.proc = p /\ i.noff = 0 /\ i.intr = TRUE
  <2>1. CASE pc[p] = "forkret"
    <3> DEFINE i == [pop_off(k) EXCEPT !.intr = TRUE]
    <3>1. pop_off(k) \in CpuStruct /\ pop_off(k).proc = p /\ pop_off(k).noff = 0
      BY <1>2, PopFacts
    <3>2. i \in CpuStruct /\ i.proc = p /\ i.noff = 0 /\ i.intr = TRUE
      <4> HIDE DEF pop_off
      <4> QED
        BY <3>1, Zenon DEF CpuStruct
    <3>3. Set(c, i)
      BY <1>0, <2>1, Zenon DEF forkret, Woken
    <3> QED
      BY <3>2, <3>3, Zenon
  <2>2. CASE pc[p] # "forkret"
    <3> DEFINE h == [k EXCEPT !.intena = loc[p].intena]
               b == pop_off(h)
               i == [b EXCEPT !.intr = TRUE]
    <3>1. loc[p].intena \in BOOLEAN
      BY <1>1, Zenon DEF LocStruct
    <3>2. h \in CpuStruct /\ h.proc = p /\ h.noff = 1 /\ h.intena = loc[p].intena
      BY <1>2, <3>1, Zenon DEF CpuStruct
    <3>3. IF pc[p] = "slept" THEN Set(c, b) ELSE Set(c, i)
      BY <1>0, <2>2, Zenon DEF forkret, Woken
    <3> HIDE DEF h
    <3>4. b \in CpuStruct /\ b.proc = p /\ b.noff = 0 /\ b.intr = (h.intr \/ h.intena)
      <4>1. h.noff > 0 /\ h.noff - 1 = 0
        BY <3>2
      <4>2. /\ b \in CpuStruct /\ b.proc = h.proc /\ b.noff = h.noff - 1
            /\ b.intr = (h.intr \/ (h.noff = 1 /\ h.intena))
        BY <3>2, <4>1, PopFacts, Zenon
      <4> QED
        BY <3>2, <4>1, <4>2, Zenon
    <3>5. pc[p] = "slept" => b.intr = TRUE
      <4>1. pc[p] = "slept" => loc[p].intena = TRUE
        BY <1>1, <3>1, Zenon DEF LocalsOK
      <4> QED
        BY <3>2, <3>4, <4>1, Zenon
    <3> HIDE DEF b
    <3>6. i \in CpuStruct /\ i.proc = p /\ i.noff = 0 /\ i.intr = TRUE
      BY <3>4, Zenon DEF CpuStruct
    <3> QED
      BY <3>3, <3>4, <3>5, <3>6, Zenon
  <2> QED
    BY <2>1, <2>2, Zenon
<1>6. /\ cpu' \in [CPUs -> CpuStruct] /\ \A d \in CPUs \ {c} : cpu'[d] = cpu[d]
      /\ cpu'[c].proc = p /\ cpu'[c].noff = 0 /\ cpu'[c].intr
  BY <1>5, Zenon DEF Set, ProcInv, TypeOK
<1>7. PICK l \in Interruptible : /\ Goto(p, l)
                                 /\ \/ pc[p] = "forkret" /\ l = "user"
                                    \/ pc[p] = "slept" /\ l = "relock"
                                    \/ pc[p] = "yielded" /\ l = loc[p].back
  <2>1. loc[p].back \in Interruptible /\ "user" \in Interruptible /\ "relock" \in Interruptible
    BY <1>1, Zenon DEF LocalsOK, Interruptible
  <2> QED
    BY <1>0, <1>4, <2>1, Zenon DEF forkret, Woken
<1>8. pc' \in [P -> ThreadLabels] /\ pc'[p] = l /\ \A q \in P : q # p => pc'[q] = pc[q]
  BY <1>7, Zenon DEF Goto, ProcInv, TypeOK, ThreadLabels, Interruptible
<1>9. /\ loc' \in [P -> LocStruct] /\ \A q \in P : q # p => loc'[q] = loc[q]
      /\ loc'[p].arg = loc[p].arg /\ loc'[p].n = loc[p].n /\ loc'[p].lk = loc[p].lk
      /\ loc'[p].back = "user"
  <2>0. loc \in [P -> LocStruct]
    BY Zenon DEF ProcInv, TypeOK, LocStruct
  <2>1. CASE pc[p] = "forkret"
    <3>1. loc' = loc
      BY <1>0, <2>1, Zenon DEF forkret, Woken
    <3>2. loc[p].back = "user"
      BY <1>1, <2>1, Zenon DEF LocalsOK
    <3> QED
      BY <2>0, <3>1, <3>2, Zenon
  <2>2. CASE pc[p] # "forkret"
    <3> DEFINE v == [loc[p] EXCEPT !.back = "user", !.intena = FALSE]
    <3>1. v \in LocStruct /\ v.arg = loc[p].arg /\ v.n = loc[p].n /\ v.lk = loc[p].lk /\ v.back = "user"
      BY <1>1, Zenon DEF LocStruct, ThreadLabels
    <3>2. loc' = [loc EXCEPT ![p] = v]
      BY <1>0, <2>2, Zenon DEF forkret, Woken
    <3> HIDE DEF v
    <3> QED
      BY <2>0, <3>1, <3>2, Zenon
  <2> QED
    BY <2>1, <2>2, Zenon
<1>10. ~Ticking(c)'
  BY <1>0, Zenon DEF Ticking, Others
<1>11. CpuOK(c)'
  BY <1>1, <1>6, <1>7, <1>8, <1>10 DEF CpuOK, Depth, Interruptible
<1>12. StateOK(p)'
  BY <1>3, <1>8, Zenon DEF StateOK, On, Interruptible
<1>13. LocalsOK(p)'
  <2>1. Doing(p, "relock")' => pc[p] = "slept" \/ Doing(p, "relock")
    BY <1>7, <1>8, <1>9, Zenon DEF Doing
  <2>2. "user" \in Interruptible
    BY Zenon DEF Interruptible
  <2> QED
    BY <1>1, <1>3, <1>7, <1>8, <1>9, <2>1, <2>2, Zenon DEF LocalsOK, Interruptible
<1>14. (InFork(p)' => InFork(p)) /\ (Doing(p, "forkRunnable")' => Doing(p, "forkRunnable"))
  BY <1>7, <1>8, <1>9, Zenon DEF InFork, Doing
<1>15. pc[p] \notin Active
  BY <1>4, Zenon DEF Active, On
<1>16. lock' \in [Locks -> 0..NCPU] /\ \A m \in Locks : lock'[m] = IF lock[m] = c THEN Nobody ELSE lock[m]
  BY <1>0, <1>1, Zenon DEF ProcInv, TypeOK
<1> QED
  BY <1>0, <1>3, <1>6, <1>8, <1>9, <1>11, <1>12, <1>13, <1>14, <1>15, <1>16, SwitchStep, Zenon

-----------------------------------------------------------------------------
(* Interrupts.                                                             *)

\* An interrupt finds no lock held and a thread at a place it can go back to.
LEMMA IntrFacts ==
  ASSUME ProcInv, NEW c \in CPUs, cpu[c].intr
  PROVE  /\ cpu[c].noff = 0 /\ ~Ticking(c) /\ \A l \in Locks : ~Needs(c, l) /\ lock[l] # c
         /\ cpu[c].proc # Nobody => cpu[c].proc \in P /\ pc[cpu[c].proc] \in Interruptible
<1>1. CpuOK(c) /\ cpu[c].proc \in P \cup {Nobody} /\ cpu[c].noff \in 0..3
  BY Types, Zenon DEF ProcInv, Cpus
<1>2. cpu[c].noff = 0
  BY <1>1 DEF CpuOK
<1>3. /\ ~Ticking(c)
      /\ cpu[c].proc # Nobody => Depth(pc[cpu[c].proc]) = 0
  BY <1>1, <1>2 DEF CpuOK, Depth
<1>4. cpu[c].proc # Nobody => pc[cpu[c].proc] \in Active /\ pc[cpu[c].proc] # "yield"
  BY <1>1, Zenon DEF ProcInv, Stacks, CpuOK
<1>5. cpu[c].proc # Nobody => pc[cpu[c].proc] \in Interruptible
  BY <1>3, <1>4 DEF Depth, Active, On, Interruptible
<1>6. \A l \in Locks : ~Needs(c, l)
  BY <1>3, <1>5, Zenon DEF Needs, Keeps, Interruptible
<1>7. \A l \in Locks : lock[l] # c
  BY <1>6, Zenon DEF ProcInv, Locking
<1> QED
  BY <1>1, <1>2, <1>3, <1>5, <1>6, <1>7, Zenon

\* The thread that was interrupted is about to yield, or to exit.
LEMMA InterruptedFacts ==
  ASSUME ProcInv, NEW c \in CPUs, NEW p \in P, cpu[c].proc = p, pc[p] \in Interruptible,
         \/ Goto(p, "exit") /\ loc' = loc
         \/ Goto(p, "yield") /\ loc' = [loc EXCEPT ![p].back = pc[p]],
         proc'[p].state = proc[p].state
  PROVE  /\ pc' \in [P -> ThreadLabels] /\ pc'[p] \in {"exit", "yield"}
         /\ \A q \in P : q # p => pc'[q] = pc[q] /\ loc'[q] = loc[q]
         /\ loc' \in [P -> LocStruct] /\ StateOK(p)' /\ LocalsOK(p)' /\ proc[p].state = "RUNNING"
         /\ InFork(p)' => InFork(p) /\ loc'[p].arg = loc[p].arg
         /\ Doing(p, "forkRunnable")' => Doing(p, "forkRunnable")
<1>1. /\ loc[p] \in LocStruct /\ LocalsOK(p) /\ StateOK(p) /\ pc \in [P -> ThreadLabels]
      /\ loc \in [P -> LocStruct] /\ pc[p] \in ThreadLabels
  BY Types, Zenon DEF ProcInv, Locals, States, TypeOK, LocStruct
<1>2. proc[p].state = "RUNNING" /\ loc[p].back = "user"
  BY <1>1, Zenon DEF StateOK, On, Interruptible, LocalsOK
<1>3. pc' \in [P -> ThreadLabels] /\ pc'[p] \in {"exit", "yield"} /\ \A q \in P : q # p => pc'[q] = pc[q]
  BY <1>1, Zenon DEF Goto, ThreadLabels
<1>4. /\ loc' \in [P -> LocStruct] /\ \A q \in P : q # p => loc'[q] = loc[q]
      /\ loc'[p].arg = loc[p].arg /\ loc'[p].lk = loc[p].lk
      /\ \/ pc'[p] = "exit" /\ loc'[p].back = "user"
         \/ pc'[p] = "yield" /\ loc'[p].back = pc[p]
  <2>1. CASE Goto(p, "exit") /\ loc' = loc
    BY <1>1, <1>2, <2>1, Zenon DEF Goto
  <2>2. CASE Goto(p, "yield") /\ loc' = [loc EXCEPT ![p].back = pc[p]]
    <3> DEFINE v == [loc[p] EXCEPT !.back = pc[p]]
    <3>1. v \in LocStruct /\ v.arg = loc[p].arg /\ v.lk = loc[p].lk /\ v.back = pc[p]
      BY <1>1, Zenon DEF LocStruct
    <3>2. loc' = [loc EXCEPT ![p] = v] /\ pc'[p] = "yield"
      BY <1>1, <2>2, Zenon DEF Goto
    <3> HIDE DEF v
    <3> QED
      BY <1>1, <3>1, <3>2, Zenon
  <2> QED
    BY <2>1, <2>2, Zenon
<1>5. StateOK(p)'
  BY <1>2, <1>3, Zenon DEF StateOK, On
<1>6. LocalsOK(p)'
  <2>1. Doing(p, "relock")' => Doing(p, "relock")
    BY <1>3, <1>4, Zenon DEF Doing
  <2>2. "user" \in Interruptible
    BY Zenon DEF Interruptible
  <2> QED
    BY <1>1, <1>2, <1>3, <1>4, <2>1, <2>2, Zenon DEF LocalsOK
<1>7. (InFork(p)' => InFork(p)) /\ (Doing(p, "forkRunnable")' => Doing(p, "forkRunnable"))
  BY <1>3, <1>4, Zenon DEF InFork, Doing
<1> QED
  BY <1>2, <1>3, <1>4, <1>5, <1>6, <1>7, Zenon

\* A step of a CPU, with a thread or without, that may wake sleepers and begin or
\* end clockintr.
LEMMA IntrStep ==
  ASSUME ProcInv, NEW c \in CPUs, cpu'[c].proc = cpu[c].proc,
         \A d \in CPUs \ {c} : cpu'[d] = cpu[d] /\ (Ticking(d)' <=> Ticking(d)),
         cpu' \in [CPUs -> CpuStruct], pc' \in [P -> ThreadLabels], loc' \in [P -> LocStruct],
         proc' \in [P -> ProcStruct], lock' \in [Locks -> 0..NCPU],
         tick' \in BOOLEAN, ticks' \in 0..(TickMod - 1), nextpid' = nextpid, panicked' = panicked,
         \A q \in P : q # cpu[c].proc =>
           /\ pc'[q] = pc[q] /\ loc'[q] = loc[q]
           /\ \/ proc'[q].state = proc[q].state /\ proc'[q].chan = proc[q].chan
              \/ pc[q] = "slept" /\ proc[q].state = "SLEEPING" /\ proc'[q].state = "RUNNABLE",
         \A q \in P : proc'[q].parent = proc[q].parent,
         \A q \in P : q = cpu[c].proc =>
           /\ proc'[q].state = proc[q].state
           /\ \/ pc'[q] = pc[q] /\ loc'[q] = loc[q] /\ proc'[q].chan = proc[q].chan
              \/ pc'[q] \in {"exit", "yield"} /\ StateOK(q)' /\ LocalsOK(q)'
           /\ InFork(q)' => InFork(q) /\ loc'[q].arg = loc[q].arg
           /\ Doing(q, "forkRunnable")' => Doing(q, "forkRunnable"),
         \A l \in Locks : IF Needs(c, l)' THEN lock[l] \in {c, Nobody} /\ lock'[l] = c
                          ELSE lock'[l] = IF lock[l] = c THEN Nobody ELSE lock[l],
         CpuOK(c)', Wakeups'
  PROVE  ProcInv'
<1>1. TypeOK'
  BY Zenon DEF ProcInv, TypeOK, LocStruct
<1>2. cpu[c].proc \in P \cup {Nobody} /\ initproc \in P
  BY Types, Consts, ZenonT(30)
<1>3. Stacks' /\ Locking' /\ \A d \in CPUs \ {c} : CpuOK(d)'
  <2>1. cpu[c].proc # Nobody => pc'[cpu[c].proc] \in Active
    BY <1>2, ZenonT(30) DEF ProcInv, Stacks, Active, On
  <2>2. \A q \in P : q # cpu[c].proc =>
          pc'[q] = pc[q] /\ loc'[q] = loc[q] /\ (pc[q] = "swtch" => proc'[q].state = proc[q].state)
    BY ZenonT(30)
  <2> QED
    BY <2>1, <2>2, CpuFrame, ZenonT(30)
<1>4. Cpus'
  BY <1>3, ZenonT(30) DEF Cpus
<1>5. \A q \in P : /\ StateOK(q)' /\ LocalsOK(q)'
                   /\ InFork(q)' => InFork(q) /\ loc'[q].arg = loc[q].arg
                   /\ Doing(q, "forkRunnable")' => Doing(q, "forkRunnable")
  BY BystanderOK, ZenonT(30)
<1>6. States' /\ Locals'
  BY <1>5, ZenonT(30) DEF States, Locals
<1>7. \A q \in P : \/ proc'[q].state = proc[q].state
                   \/ proc[q].state = "SLEEPING" /\ proc'[q].state = "RUNNABLE"
  BY ZenonT(30)
<1>8. Forks'
  BY <1>5, <1>7, ForksFrame, ZenonT(30)
<1>9. Family'
  <2>1. \A q \in P : Childless(q)' => Childless(q)
    BY <1>7, ZenonT(30) DEF Childless
  <2>2. pc'[initproc] = "reparent" => pc[initproc] = "reparent"
    BY <1>2, ZenonT(30)
  <2>3. Childless(initproc)' => Childless(initproc)
    BY <1>2, <2>1, Zenon DEF initproc
  <2>4. \A q \in P : proc'[q].state \notin {"UNUSED", "USED"} =>
          proc[q].state \notin {"UNUSED", "USED"} /\ proc'[q].parent = proc[q].parent
    BY <1>7, ZenonT(30)
  <2> QED
    BY <2>1, <2>2, <2>3, <2>4, FamilyFrame, ZenonT(30)
<1> QED
  BY <1>1, <1>3, <1>4, <1>6, <1>8, <1>9, Zenon DEF ProcInv

\* The scheduler turns interrupts on.
LEMMA IntrOnInv == ASSUME ProcInv, NEW c \in CPUs, schedulerIntrOn(c) PROVE ProcInv'
<1>0. /\ cpu[c].proc = Nobody /\ ~Ticking(c) /\ UNCHANGED <<proc, lock, pc, loc>>
      /\ tick' = tick /\ ticks' = ticks /\ nextpid' = nextpid /\ panicked' = panicked
  BY Zenon DEF schedulerIntrOn, Others, Ticking
<1>1. CpuOK(c) /\ cpu[c] \in CpuStruct
  BY Types, Zenon DEF ProcInv, Cpus
<1>2. /\ cpu' \in [CPUs -> CpuStruct] /\ \A d \in CPUs \ {c} : cpu'[d] = cpu[d]
      /\ cpu'[c].proc = cpu[c].proc /\ cpu'[c].noff = cpu[c].noff
  <2> DEFINE k == [cpu[c] EXCEPT !.intr = TRUE]
  <2>1. k \in CpuStruct /\ k.proc = cpu[c].proc /\ k.noff = cpu[c].noff
    BY <1>1, Zenon DEF CpuStruct
  <2>2. cpu' = [cpu EXCEPT ![c] = k]
    BY Zenon DEF schedulerIntrOn, Set
  <2> HIDE DEF k
  <2> QED
    BY <2>1, <2>2, Zenon DEF ProcInv, TypeOK
<1>3. \A d \in CPUs : Ticking(d)' <=> Ticking(d)
  BY <1>0, Zenon DEF Ticking
<1>4. CpuOK(c)'
  BY <1>0, <1>1, <1>2, <1>3 DEF CpuOK
<1>5. \A l \in Locks : IF Needs(c, l)' THEN lock[l] \in {c, Nobody} /\ lock'[l] = c
                       ELSE lock'[l] = IF lock[l] = c THEN Nobody ELSE lock[l]
  BY <1>0, <1>2, <1>3, Zenon DEF ProcInv, Locking, Needs
<1>6. Wakeups'
  BY <1>0, WakeupsFrame, Zenon
<1>7. /\ pc' \in [P -> ThreadLabels] /\ loc' \in [P -> LocStruct] /\ proc' \in [P -> ProcStruct]
      /\ lock' \in [Locks -> 0..NCPU] /\ tick' \in BOOLEAN /\ ticks' \in 0..(TickMod - 1)
      /\ \A q \in P : q # cpu[c].proc
  BY <1>0, Consts, Zenon DEF ProcInv, TypeOK, LocStruct
<1> QED
  BY <1>0, <1>2, <1>3, <1>4, <1>5, <1>6, <1>7, IntrStep, Zenon

\* A timer interrupt on a hart that does not count ticks.
LEMMA TimerInv == ASSUME ProcInv, NEW c \in CPUs, timerIntr(c) PROVE ProcInv'
<1> DEFINE k == [cpu[c] EXCEPT !.intr = FALSE]
<1>0. /\ c # 1 /\ cpu[c].intr /\ cpu[c].proc # Nobody /\ Interrupted(c, k) /\ proc' = proc /\ lock' = lock
      /\ tick' = tick /\ ticks' = ticks /\ nextpid' = nextpid /\ panicked' = panicked
  BY Zenon DEF timerIntr, Others
<1>1. /\ cpu[c].noff = 0 /\ ~Ticking(c) /\ \A l \in Locks : ~Needs(c, l) /\ lock[l] # c
      /\ CpuOK(c) /\ cpu[c] \in CpuStruct
  BY <1>0, IntrFacts, Types, Zenon DEF ProcInv, Cpus
<1>2. PICK p \in P : cpu[c].proc = p /\ pc[p] \in Interruptible /\ p # Nobody
  BY <1>0, IntrFacts, Zenon
<1>3. /\ Set(c, k)
      /\ \/ Goto(p, "exit") /\ loc' = loc
         \/ Goto(p, "yield") /\ loc' = [loc EXCEPT ![p].back = pc[p]]
  BY <1>0, <1>2, Zenon DEF Interrupted
<1>4. /\ cpu' \in [CPUs -> CpuStruct] /\ \A d \in CPUs \ {c} : cpu'[d] = cpu[d]
      /\ cpu'[c].proc = cpu[c].proc /\ cpu'[c].noff = 0 /\ ~cpu'[c].intr
  <2>1. k \in CpuStruct /\ k.proc = cpu[c].proc /\ k.noff = 0 /\ k.intr = FALSE
    BY <1>1, Zenon DEF CpuStruct
  <2>2. cpu' = [cpu EXCEPT ![c] = k]
    BY <1>3, Zenon DEF Set
  <2> HIDE DEF k
  <2> QED
    BY <2>1, <2>2, Zenon DEF ProcInv, TypeOK
<1>5. /\ pc' \in [P -> ThreadLabels] /\ pc'[p] \in {"exit", "yield"}
      /\ \A q \in P : q # p => pc'[q] = pc[q] /\ loc'[q] = loc[q]
      /\ loc' \in [P -> LocStruct] /\ StateOK(p)' /\ LocalsOK(p)' /\ proc[p].state = "RUNNING"
      /\ InFork(p)' => InFork(p) /\ loc'[p].arg = loc[p].arg
      /\ Doing(p, "forkRunnable")' => Doing(p, "forkRunnable")
  BY <1>0, <1>2, <1>3, InterruptedFacts
<1>6. \A d \in CPUs : Ticking(d)' <=> Ticking(d)
  BY <1>0, Zenon DEF Ticking
<1>7. CpuOK(c)'
  BY <1>1, <1>2, <1>4, <1>5, <1>6 DEF CpuOK, Depth
<1>8. \A l \in Locks : IF Needs(c, l)' THEN lock[l] \in {c, Nobody} /\ lock'[l] = c
                       ELSE lock'[l] = IF lock[l] = c THEN Nobody ELSE lock[l]
  <2>1. \A l \in Locks : ~Needs(c, l)'
    BY <1>1, <1>2, <1>4, <1>5, <1>6, Zenon DEF Needs, Keeps
  <2> QED
    BY <1>0, <1>1, <2>1, Zenon
<1>9. Wakeups'
  BY <1>0, <1>5, WakeupsFrame, Zenon
<1>10. /\ proc' \in [P -> ProcStruct]
       /\ lock' \in [Locks -> 0..NCPU] /\ tick' \in BOOLEAN /\ ticks' \in 0..(TickMod - 1)
  BY <1>0, Zenon DEF ProcInv, TypeOK
<1> HIDE DEF k
<1> QED
  BY <1>0, <1>2, <1>4, <1>5, <1>6, <1>7, <1>8, <1>9, <1>10, IntrStep, Zenon

\* Hart 0 takes tickslock and counts the tick.
LEMMA ClockInv == ASSUME ProcInv, clockintr PROVE ProcInv'
<1> DEFINE j == [cpu[1] EXCEPT !.intr = FALSE]
           k == push_off(j)
<1>0. /\ cpu[1].intr /\ Free(tickslock) /\ lock' = [lock EXCEPT ![tickslock] = 1] /\ Set(1, k)
      /\ tick' = TRUE /\ ticks' = (ticks + 1) % TickMod /\ nextpid' = nextpid /\ panicked' = panicked
      /\ proc' = proc /\ pc' = pc /\ loc' = loc /\ 1 \in CPUs
  BY Consts, Zenon DEF clockintr
<1>1. /\ cpu[1].noff = 0 /\ ~Ticking(1) /\ \A l \in Locks : ~Needs(1, l) /\ lock[l] # 1
      /\ CpuOK(1) /\ cpu[1] \in CpuStruct
      /\ cpu[1].proc # Nobody => cpu[1].proc \in P /\ pc[cpu[1].proc] \in Interruptible
  BY <1>0, IntrFacts, Types, Zenon DEF ProcInv, Cpus
<1>2. /\ cpu' \in [CPUs -> CpuStruct] /\ \A d \in CPUs \ {1} : cpu'[d] = cpu[d]
      /\ cpu'[1].proc = cpu[1].proc /\ cpu'[1].noff = 1 /\ ~cpu'[1].intr /\ ~cpu'[1].intena
  <2>1. j \in CpuStruct /\ j.proc = cpu[1].proc /\ j.noff = 0 /\ j.intr = FALSE
    BY <1>1, Zenon DEF CpuStruct
  <2> HIDE DEF j
  <2>2. k \in CpuStruct /\ k.proc = j.proc /\ k.noff = 1 /\ ~k.intr /\ k.intena = j.intr
    BY <2>1, PushFacts
  <2>3. cpu' = [cpu EXCEPT ![1] = k]
    BY <1>0, Zenon DEF Set
  <2> HIDE DEF k
  <2> QED
    BY <1>0, <2>1, <2>2, <2>3, Zenon DEF ProcInv, TypeOK
<1> HIDE DEF k, j
<1>3. /\ Ticking(1)' /\ \A d \in CPUs \ {1} : Ticking(d)' <=> Ticking(d)
  BY <1>0, Zenon DEF Ticking
<1>4. CpuOK(1)'
  <2>1. cpu'[1].noff > 0 => ~cpu'[1].intr
    BY <1>2, Zenon
  <2>2. CASE cpu[1].proc = Nobody
    BY <1>2, <1>3, <2>2 DEF CpuOK
  <2>3. CASE cpu[1].proc # Nobody
    <3>1. Depth(pc[cpu[1].proc]) = 0
      BY <1>1, <2>3, Zenon DEF Depth, Interruptible
    <3>2. pc[cpu[1].proc] \notin {"yield", "scan", "nap", "sleep", "sleeping", "swtch"}
      BY <1>1, <2>3, Zenon DEF Interruptible
    <3> QED
      BY <1>0, <1>1, <1>2, <1>3, <2>3, <3>1, <3>2 DEF CpuOK
  <2> QED
    BY <2>2, <2>3, Zenon
<1>5. \A l \in Locks : IF Needs(1, l)' THEN lock[l] \in {1, Nobody} /\ lock'[l] = 1
                       ELSE lock'[l] = IF lock[l] = 1 THEN Nobody ELSE lock[l]
  <2>1. \A l \in Locks : Needs(1, l)' <=> l = tickslock
    <3>1. \A l \in Locks : Needs(1, l)' => l = tickslock
      BY <1>0, <1>1, <1>2, Zenon DEF Needs, Keeps, Interruptible, tickslock
    <3>2. Needs(1, tickslock)'
      BY <1>3, Zenon DEF Needs
    <3> QED
      BY <3>1, <3>2, Zenon DEF tickslock
  <2>2. lock \in [Locks -> 0..NCPU] /\ lock[tickslock] = Nobody /\ tickslock \in Locks
    BY <1>0, Consts, Zenon DEF ProcInv, TypeOK, Free
  <2> QED
    BY <1>0, <1>1, <2>1, <2>2, Zenon
<1>6. Wakeups'
  <2>1. Wakeups
    BY Zenon DEF ProcInv
  <2>2. \A q \in P : AsleepInWait(q)' <=> AsleepInWait(q)
    BY <1>0, Zenon DEF AsleepInWait
  <2>3. ASSUME NEW q \in P, \/ AsleepInWait(q)'
                            \/ pc'[q] \in {"sleep", "sleeping"} /\ loc'[q].lk = wait_lock
        PROVE  \A r \in P : proc'[r].parent = q => proc'[r].state # "ZOMBIE"
    BY <1>0, <2>1, <2>2, <2>3, Zenon DEF Wakeups
  <2>4. \A e \in P : pc'[e] = "zombie" => \A q \in P : proc'[e].parent = q => ~AsleepInWait(q)'
    BY <1>0, <2>1, <2>2, Zenon DEF Wakeups
  <2>5. \A q \in P : ~(pc[q] \in {"sleep", "sleeping"} /\ loc[q].lk = tickslock)
    <3> SUFFICES ASSUME NEW q \in P, pc[q] \in {"sleep", "sleeping"}, loc[q].lk = tickslock PROVE FALSE
      BY Zenon
    <3>1. Keeps(q, tickslock) /\ tickslock \in Locks
      BY Consts, Zenon DEF Keeps
    <3> QED
      BY <1>0, <3>1, OneKeeper, Zenon
  <2>6. TicksChan' = TicksChan /\ wait_lock' = wait_lock /\ tickslock' = tickslock
    BY Zenon DEF TicksChan, wait_lock, tickslock
  <2> QED
    BY <1>0, <2>3, <2>4, <2>5, <2>6, Zenon DEF Wakeups
<1>7. /\ proc' \in [P -> ProcStruct] /\ pc' \in [P -> ThreadLabels] /\ loc' \in [P -> LocStruct]
      /\ lock' \in [Locks -> 0..NCPU] /\ tick' \in BOOLEAN
  BY <1>0, Consts, Zenon DEF ProcInv, TypeOK, LocStruct
<1>8. ticks' \in 0..(TickMod - 1)
  <2>1. ticks \in Nat /\ TickMod \in Nat \ {0}
    BY ProcAssumption DEF ProcInv, TypeOK
  <2> QED
    BY <1>0, <2>1
<1>9. \A q \in P : (InFork(q)' <=> InFork(q)) /\ (Doing(q, "forkRunnable")' <=> Doing(q, "forkRunnable"))
  BY <1>0, Zenon DEF InFork, Doing
<1> QED
  BY <1>0, <1>2, <1>3, <1>4, <1>5, <1>6, <1>7, <1>8, <1>9, IntrStep, Zenon

\* clockintr wakes the sleepers, releases tickslock and returns to what it interrupted.
LEMMA ClockWakeupInv == ASSUME ProcInv, clockintrWakeup PROVE ProcInv'
<1> DEFINE k == pop_off(cpu[1])
<1>0. /\ tick /\ ProcLocksFree(cpu[1].proc) /\ proc' = wakeup(proc, TicksChan)
      /\ lock' = [lock EXCEPT ![tickslock] = Nobody] /\ tick' = FALSE /\ Interrupted(1, k)
      /\ ticks' = ticks /\ nextpid' = nextpid /\ panicked' = panicked /\ 1 \in CPUs
  BY Consts, Zenon DEF clockintrWakeup
<1>1. /\ Ticking(1) /\ CpuOK(1) /\ cpu[1] \in CpuStruct /\ cpu[1].proc \in P \cup {Nobody}
      /\ cpu[1].proc # Nobody => pc[cpu[1].proc] \in Interruptible
  BY <1>0, Types, Zenon DEF ProcInv, Cpus, CpuOK, Ticking
<1>2. cpu[1].noff = 1 /\ ~cpu[1].intr /\ ~cpu[1].intena
  <2>1. cpu[1].proc # Nobody => Depth(pc[cpu[1].proc]) = 0
    BY <1>1, Zenon DEF Depth, Interruptible
  <2>2. cpu[1].noff = 1
    BY <1>1, <2>1 DEF CpuOK
  <2> QED
    BY <1>1, <2>2 DEF CpuOK
<1>3. k \in CpuStruct /\ k.proc = cpu[1].proc /\ k.noff = 0 /\ k.intr = FALSE /\ k.intena = FALSE
  <2>1. cpu[1].noff > 0 /\ cpu[1].noff - 1 = 0 /\ cpu[1].intr \in BOOLEAN /\ cpu[1].intena \in BOOLEAN
    BY <1>1, <1>2 DEF CpuStruct
  <2>2. /\ k \in CpuStruct /\ k.proc = cpu[1].proc /\ k.noff = cpu[1].noff - 1
        /\ k.intena = cpu[1].intena
        /\ k.intr = (cpu[1].intr \/ (cpu[1].noff = 1 /\ cpu[1].intena))
    BY <1>1, <2>1, PopFacts, Zenon
  <2> QED
    BY <1>2, <2>1, <2>2, Zenon
<1> HIDE DEF k
<1>4. PICK i \in CpuStruct : /\ cpu' = [cpu EXCEPT ![1] = i] /\ i.proc = cpu[1].proc /\ i.noff = 0
                             /\ cpu[1].proc # Nobody => i.intr = FALSE
  <2>1. CASE cpu[1].proc = Nobody
    <3> DEFINE i == [k EXCEPT !.intr = TRUE]
    <3>1. i \in CpuStruct /\ i.proc = cpu[1].proc /\ i.noff = 0
      BY <1>3, Zenon DEF CpuStruct
    <3>2. cpu' = [cpu EXCEPT ![1] = i]
      BY <1>0, <2>1, Zenon DEF Interrupted, Set
    <3> QED
      BY <2>1, <3>1, <3>2, Zenon
  <2>2. CASE cpu[1].proc # Nobody
    <3>1. cpu' = [cpu EXCEPT ![1] = k]
      BY <1>0, <2>2, Zenon DEF Interrupted, Set
    <3> QED
      BY <1>3, <3>1, Zenon
  <2> QED
    BY <2>1, <2>2, Zenon
<1>5. /\ cpu' \in [CPUs -> CpuStruct] /\ \A d \in CPUs \ {1} : cpu'[d] = cpu[d]
      /\ cpu'[1].proc = cpu[1].proc /\ cpu'[1].noff = 0
      /\ cpu[1].proc # Nobody => ~cpu'[1].intr
  BY <1>0, <1>4, Zenon DEF ProcInv, TypeOK
<1>6. /\ proc' \in [P -> ProcStruct]
      /\ \A q \in P : /\ proc'[q].parent = proc[q].parent /\ proc'[q].chan = proc[q].chan
                      /\ IF proc[q].state = "SLEEPING" /\ proc[q].chan = TicksChan
                         THEN proc'[q].state = "RUNNABLE"
                         ELSE proc'[q].state = proc[q].state
  <2>1. proc \in [P -> ProcStruct]
    BY Zenon DEF ProcInv, TypeOK
  <2> QED
    BY <1>0, <2>1, WakeupFacts
<1>7. \A q \in P : q = cpu[1].proc => proc[q].state = "RUNNING" /\ proc'[q].state = proc[q].state
  <2>1. \A q \in P : q = cpu[1].proc => pc[q] \in On
    BY <1>1, Consts, Zenon DEF Interruptible, On
  <2>2. \A q \in P : q = cpu[1].proc => proc[q].state = "RUNNING"
    BY <2>1, Zenon DEF ProcInv, States, StateOK
  <2> QED
    BY <1>6, <2>2, Zenon
<1>8. \A q \in P : q # cpu[1].proc =>
        \/ proc'[q].state = proc[q].state /\ proc'[q].chan = proc[q].chan
        \/ pc[q] = "slept" /\ proc[q].state = "SLEEPING" /\ proc'[q].state = "RUNNABLE"
  BY <1>0, <1>6, Sleepers
<1>9. /\ pc' \in [P -> ThreadLabels] /\ loc' \in [P -> LocStruct]
      /\ \A q \in P : q # cpu[1].proc => pc'[q] = pc[q] /\ loc'[q] = loc[q]
      /\ \A q \in P : q = cpu[1].proc =>
           /\ pc'[q] \in {"exit", "yield"} /\ StateOK(q)' /\ LocalsOK(q)'
           /\ InFork(q)' => InFork(q) /\ loc'[q].arg = loc[q].arg
           /\ Doing(q, "forkRunnable")' => Doing(q, "forkRunnable")
  <2>1. CASE cpu[1].proc = Nobody
    <3>1. pc' = pc /\ loc' = loc
      BY <1>0, <2>1, Zenon DEF Interrupted
    <3> QED
      BY <2>1, <3>1, Consts, Zenon DEF ProcInv, TypeOK, LocStruct
  <2>2. CASE cpu[1].proc # Nobody
    <3>1. PICK p \in P : p = cpu[1].proc /\ pc[p] \in Interruptible
      BY <1>1, <2>2, Zenon
    <3>2. \/ Goto(p, "exit") /\ loc' = loc
          \/ Goto(p, "yield") /\ loc' = [loc EXCEPT ![p].back = pc[p]]
      BY <1>0, <2>2, <3>1, Zenon DEF Interrupted
    <3>3. proc'[p].state = proc[p].state
      BY <1>7, <3>1, Zenon
    <3> QED
      BY <1>0, <3>1, <3>2, <3>3, InterruptedFacts
  <2> QED
    BY <2>1, <2>2, Zenon
<1>10. \A d \in CPUs : ~Ticking(d)' /\ (d # 1 => ~Ticking(d))
  BY <1>0, Zenon DEF Ticking
<1>11. CpuOK(1)'
  <2>1. CASE cpu[1].proc = Nobody
    BY <1>0, <1>5, <1>10, <2>1 DEF CpuOK
  <2>2. CASE cpu[1].proc # Nobody
    <3>1. pc'[cpu[1].proc] \in {"exit", "yield"}
      BY <1>1, <1>9, <2>2, Zenon
    <3>2. Depth(pc'[cpu[1].proc]) = 0
      BY <3>1, Zenon DEF Depth
    <3> QED
      BY <1>0, <1>5, <1>10, <2>2, <3>1, <3>2 DEF CpuOK, Depth
  <2> QED
    BY <2>1, <2>2, Zenon
<1>12. \A l \in Locks : IF Needs(1, l)' THEN lock[l] \in {1, Nobody} /\ lock'[l] = 1
                        ELSE lock'[l] = IF lock[l] = 1 THEN Nobody ELSE lock[l]
  <2>1. \A l \in Locks : lock[l] = 1 <=> l = tickslock
    <3>1. \A l \in Locks : Needs(1, l) <=> l = tickslock
      BY <1>1, Zenon DEF Needs, Keeps, Interruptible
    <3> QED
      BY <1>0, <3>1, Zenon DEF ProcInv, Locking
  <2>2. \A l \in Locks : ~Needs(1, l)'
    <3>1. cpu[1].proc # Nobody => pc'[cpu[1].proc] \in {"exit", "yield"}
      BY <1>1, <1>9, Zenon
    <3> QED
      BY <1>0, <1>5, <1>10, <3>1, Zenon DEF Needs, Keeps
  <2>3. lock \in [Locks -> 0..NCPU] /\ tickslock \in Locks
    BY Consts, Zenon DEF ProcInv, TypeOK
  <2> QED
    BY <1>0, <2>1, <2>2, <2>3, Zenon
<1>13. Wakeups'
  <2>1. Wakeups
    BY Zenon DEF ProcInv
  <2>2. \A q \in P : AsleepInWait(q)' => AsleepInWait(q)
    BY <1>6, Zenon DEF AsleepInWait
  <2>3. \A q \in P : pc'[q] \in {"sleep", "sleeping", "zombie"} => pc'[q] = pc[q] /\ loc'[q] = loc[q]
    BY <1>9, Zenon
  <2>4. \A r \in P : proc'[r].state = "ZOMBIE" => proc[r].state = "ZOMBIE"
    BY <1>6, Zenon
  <2>5. ASSUME NEW q \in P, \/ AsleepInWait(q)'
                            \/ pc'[q] \in {"sleep", "sleeping"} /\ loc'[q].lk = wait_lock
        PROVE  \A r \in P : proc'[r].parent = q => proc'[r].state # "ZOMBIE"
    <3>1. AsleepInWait(q) \/ (pc[q] \in {"sleep", "sleeping"} /\ loc[q].lk = wait_lock)
      BY <2>2, <2>3, <2>5, Zenon
    <3>2. \A r \in P : proc[r].parent = q => proc[r].state # "ZOMBIE"
      BY <2>1, <3>1, Zenon DEF Wakeups
    <3> QED
      BY <1>6, <2>4, <3>2, Zenon
  <2>6. \A e \in P : pc'[e] = "zombie" => \A q \in P : proc'[e].parent = q => ~AsleepInWait(q)'
    BY <1>6, <2>1, <2>2, <2>3 DEF Wakeups
  <2>7. \A q \in P : ~(proc'[q].state = "SLEEPING" /\ proc'[q].chan = TicksChan)
    BY <1>6, Zenon
  <2>8. \A q \in P : pc'[q] \in {"sleep", "sleeping"} /\ loc'[q].lk = tickslock => Elapsed(q)' < loc'[q].n
    BY <1>0, <2>1, <2>3, Zenon DEF Wakeups, Elapsed
  <2>9. TicksChan' = TicksChan /\ wait_lock' = wait_lock /\ tickslock' = tickslock
    BY Zenon DEF TicksChan, wait_lock, tickslock
  <2> QED
    BY <2>5, <2>6, <2>7, <2>8, <2>9, Zenon DEF Wakeups
<1>14. lock' \in [Locks -> 0..NCPU] /\ tick' \in BOOLEAN /\ ticks' \in 0..(TickMod - 1)
  BY <1>0, Consts, Zenon DEF ProcInv, TypeOK
<1>15. \A q \in P : proc'[q].parent = proc[q].parent
  BY <1>6, Zenon
<1>16. \A d \in CPUs \ {1} : cpu'[d] = cpu[d] /\ (Ticking(d)' <=> Ticking(d))
  BY <1>5, <1>10, Zenon
<1>17. \A q \in P : q # cpu[1].proc =>
         /\ pc'[q] = pc[q] /\ loc'[q] = loc[q]
         /\ \/ proc'[q].state = proc[q].state /\ proc'[q].chan = proc[q].chan
            \/ pc[q] = "slept" /\ proc[q].state = "SLEEPING" /\ proc'[q].state = "RUNNABLE"
  BY <1>8, <1>9, Zenon
<1>18. 1 \in CPUs /\ nextpid' = nextpid /\ panicked' = panicked
  BY <1>0, Zenon
<1>19. \A q \in P : q = cpu[1].proc =>
         /\ proc'[q].state = proc[q].state
         /\ pc'[q] \in {"exit", "yield"} /\ StateOK(q)' /\ LocalsOK(q)'
         /\ InFork(q)' => InFork(q) /\ loc'[q].arg = loc[q].arg
         /\ Doing(q, "forkRunnable")' => Doing(q, "forkRunnable")
  BY <1>7, <1>9, Zenon
<1>20. proc' \in [P -> ProcStruct] /\ pc' \in [P -> ThreadLabels] /\ loc' \in [P -> LocStruct]
  BY <1>6, <1>9, Zenon
<1> HIDE DEF clockintrWakeup
<1> QED
  BY <1>5, <1>11, <1>12, <1>13, <1>14, <1>15, <1>16, <1>17, <1>18, <1>19, <1>20, IntrStep, ZenonT(30)

\* The zombie that wait reaps is a child of the caller that has left its stack.
LEMMA ZombieFacts ==
  ASSUME ProcInv, NEW p \in P, NEW z \in P, FirstZombie(p, z), Free(z)
  PROVE  proc[z].parent = p /\ proc[z].state = "ZOMBIE" /\ pc[z] = "dead"
<1>4. proc[z].parent = p /\ proc[z].state = "ZOMBIE"
  BY Zenon DEF FirstZombie, Zombies, Children
<1>5. pc[z] \in ThreadLabels /\ StateOK(z) /\ z \in Locks
  BY <1>4, Types, Consts, Zenon DEF ProcInv, States
<1>6. pc[z] \in {"swtch", "dead"}
  BY <1>4, <1>5, Zenon DEF StateOK, On, ThreadLabels
<1>7. pc[z] = "swtch" => ~Free(z)
  BY <1>4, <1>5, OneKeeper, Zenon DEF Keeps
<1> QED
  BY <1>4, <1>6, <1>7, Zenon

\* wait frees the slot of a zombie child.
LEMMA WaitReapInv == ASSUME ProcInv, NEW c \in CPUs, NEW p \in P, waitReap(c, p) PROVE ProcInv'
<1>0. PICK z \in P : /\ FirstZombie(p, z) /\ Free(z)
                     /\ proc' = [proc EXCEPT ![z] = FreeProc] \/ UNCHANGED proc
  BY Zenon DEF waitReap
<1>1. CASE UNCHANGED proc
  BY <1>1, LeaveStep, Zenon DEF waitReap
<1>2. CASE proc' = [proc EXCEPT ![z] = FreeProc]
  <2>1. z \in P /\ proc[z].parent = p /\ proc[z].state = "ZOMBIE" /\ pc[z] = "dead"
    BY <1>0, ZombieFacts, Zenon
  <2>2. /\ FreeProc \in ProcStruct /\ FreeProc.state = "UNUSED" /\ FreeProc.parent = Nobody
    BY ProcAssumption DEF FreeProc, ProcStruct, Nobody
  <2>3. /\ proc' \in [P -> ProcStruct] /\ proc'[z].state = "UNUSED" /\ proc'[z].parent = Nobody
        /\ \A q \in P : q # z => proc'[q] = proc[q]
    BY <1>2, <2>1, <2>2, Zenon DEF ProcInv, TypeOK
  <2>4. At(c, p, "scan") /\ Leave(c, p, wait_lock) /\ Others
    BY Zenon DEF waitReap
  <2>5. pc[p] = "scan" /\ p # z /\ proc'[p] = proc[p]
    BY <2>1, <2>3, <2>4, RunFacts
  <2>6. /\ pc' \in [P -> ThreadLabels] /\ pc'[p] = "user" /\ \A q \in P : q # p => pc'[q] = pc[q]
        /\ loc' \in [P -> LocStruct] /\ \A q \in P : q # p => loc'[q] = loc[q]
        /\ cpu' \in [CPUs -> CpuStruct] /\ \A d \in CPUs \ {c} : cpu'[d] = cpu[d]
        /\ cpu[c].proc = p /\ cpu'[c].proc = p /\ proc[p].state = "RUNNING"
        /\ lock' \in [Locks -> 0..NCPU]
        /\ \A x \in Locks : IF Needs(c, x)' THEN lock[x] \in {c, Nobody} /\ lock'[x] = c
                            ELSE lock'[x] = IF lock[x] = c THEN Nobody ELSE lock[x]
        /\ CpuOK(c)' /\ LocalsOK(p)' /\ ~InFork(p)' /\ StateOK(p)'
    BY <2>4, <2>5, Consts, LeaveEffect
  <2>7. tick' = tick /\ ticks' = ticks /\ nextpid' = nextpid /\ panicked' = panicked
    BY <2>4, Zenon DEF Others
  <2>8. TypeOK'
    BY <2>3, <2>6, <2>7, Zenon DEF ProcInv, TypeOK, LocStruct
  <2>9. Stacks' /\ Locking' /\ \A d \in CPUs \ {c} : CpuOK(d)'
    <3>1. \A d \in CPUs \ {c} : cpu'[d] = cpu[d] /\ (Ticking(d)' <=> Ticking(d))
      BY <2>6, <2>7, Zenon DEF Ticking
    <3>2. \A q \in P : q # p => /\ pc'[q] = pc[q] /\ loc'[q] = loc[q]
                                /\ pc[q] = "swtch" => proc'[q].state = proc[q].state
      BY <2>1, <2>3, <2>6, Zenon
    <3>3. "user" \in Active
      BY Zenon DEF Active, On
    <3> QED
      BY <2>6, <3>1, <3>2, <3>3, CpuFrame
  <2>10. \A q \in P : q # p /\ q # z => /\ StateOK(q)' /\ LocalsOK(q)' /\ (InFork(q)' <=> InFork(q))
                                        /\ Doing(q, "forkRunnable")' <=> Doing(q, "forkRunnable")
    BY <2>3, <2>6, BystanderOK, Zenon
  <2>11. StateOK(z)' /\ LocalsOK(z)' /\ ~InFork(z)'
    <3>1. pc'[z] = "dead" /\ loc'[z] = loc[z] /\ LocalsOK(z)
      BY <2>1, <2>5, <2>6, Zenon DEF ProcInv, Locals
    <3>2. loc[z].back = "user"
      BY <2>1, <3>1, Zenon DEF LocalsOK
    <3>3. StateOK(z)'
      BY <2>3, <3>1, Zenon DEF StateOK, On
    <3>4. LocalsOK(z)'
      BY <2>3, <3>1, <3>2, Zenon DEF LocalsOK, Doing, Interruptible
    <3>5. ~InFork(z)'
      BY <3>1, <3>2, Zenon DEF InFork, Doing
    <3> QED
      BY <3>3, <3>4, <3>5, Zenon
  <2>12. Forks'
    <3>1. \A q \in P : /\ InFork(q)' => InFork(q) /\ loc'[q].arg = loc[q].arg
                       /\ Doing(q, "forkRunnable")' => Doing(q, "forkRunnable")
      <4>1. \A q \in P : Doing(q, "forkRunnable")' => InFork(q)'
        BY Zenon DEF InFork
      <4> QED
        BY <2>6, <2>10, <2>11, <4>1, Zenon
    <3> QED
      BY <2>1, <2>3, <3>1, ForksFrame, Zenon
  <2>13. \A q \in P : Childless(q)' => Childless(q)
    BY <2>1, <2>3, <2>6, Zenon DEF Childless
  <2>14. Family'
    <3>1. pc'[initproc] = "reparent" => pc[initproc] = "reparent"
      BY <2>6, Consts, Zenon
    <3>2. Childless(initproc)' => Childless(initproc)
      BY <2>13, Consts, Zenon DEF initproc
    <3>3. \A q, r \in P : proc'[q].parent = r => proc[q].parent = r
      BY <2>3, Consts, Zenon
    <3>4. \A q \in P : proc'[q].state \notin {"UNUSED", "USED"} =>
            proc[q].state \notin {"UNUSED", "USED"} /\ proc'[q].parent = proc[q].parent
      BY <2>3, Zenon
    <3> QED
      BY <2>13, <3>1, <3>2, <3>3, <3>4, FamilyFrame, Zenon
  <2>15. Wakeups'
    BY <2>1, <2>3, <2>5, <2>6, <2>7, WakeupsFrame, ZenonT(30)
  <2>16. States' /\ Locals'
    BY <2>6, <2>10, <2>11, Zenon DEF States, Locals
  <2>17. Cpus'
    BY <2>6, <2>9, Zenon DEF Cpus
  <2> QED
    BY <2>8, <2>9, <2>12, <2>14, <2>15, <2>16, <2>17, Zenon DEF ProcInv
<1> QED
  BY <1>0, <1>1, <1>2, Zenon

-----------------------------------------------------------------------------
(* The invariant and what follows from it.                                 *)

\* A panic stops the system where it is.
LEMMA PanicInv ==
  ASSUME ProcInv, UNCHANGED <<proc, cpu, lock, pc, loc, tick, ticks, nextpid>>, panicked' \in BOOLEAN
  PROVE  ProcInv'
<1> USE DEF ProcInv
<1>0. /\ proc' = proc /\ cpu' = cpu /\ lock' = lock /\ pc' = pc /\ loc' = loc /\ tick' = tick
      /\ ticks' = ticks /\ nextpid' = nextpid
  BY Zenon
<1>1. TypeOK'
  BY <1>0, Zenon DEF TypeOK
<1>2. Stacks'
  BY <1>0, Zenon DEF Stacks
<1>3. States'
  BY <1>0, Zenon DEF States, StateOK
<1>4. Locking'
  BY <1>0 DEF Locking, Needs, Ticking, Keeps
<1>5. Cpus'
  <2>1. \A c \in CPUs : CpuOK(c)' <=> CpuOK(c)
    BY <1>0 DEF CpuOK, Ticking
  <2> QED
    BY <2>1, Zenon DEF Cpus
<1>6. Locals'
  BY <1>0 DEF Locals, LocalsOK, Doing, SleepChan
<1>7. Forks'
  BY <1>0 DEF Forks, InFork, Doing
<1>8. Family'
  BY <1>0, Zenon DEF Family, Childless, initproc
<1>9. Wakeups'
  BY <1>0, WakeupsFrame, Zenon
<1> QED
  BY <1>1, <1>2, <1>3, <1>4, <1>5, <1>6, <1>7, <1>8, <1>9, Zenon

\* procinit and userinit establish the invariant.
LEMMA InitProcInv == ASSUME Init PROVE ProcInv
<1> USE DEF Init
<1>0. /\ \A p \in P : pc[p] = "forkret" /\ loc[p] = NoLocals
      /\ \A c \in CPUs : cpu[c] = [proc |-> Nobody, noff |-> 0, intena |-> FALSE, intr |-> TRUE]
      /\ \A l \in Locks : lock[l] = Nobody
      /\ ~tick
  BY Zenon
<1>1. \A p \in P : /\ proc[p].parent = Nobody /\ proc[p].chan = 0
                   /\ p = initproc => proc[p].state = "RUNNABLE"
                   /\ p # initproc => proc[p].state = "UNUSED"
                   /\ proc[p] \in ProcStruct
  <2> DEFINE r == [FreeProc EXCEPT !.state = "RUNNABLE", !.pid = 1]
  <2>1. 0 \in 0..(NPROC + 2) /\ 0 \in 0..MaxPid /\ 1 \in 0..MaxPid /\ Nobody \in 0..NPROC
    BY ProcAssumption, Consts
  <2>2. /\ r.parent = Nobody /\ r.chan = 0 /\ r.state = "RUNNABLE" /\ r \in ProcStruct
        /\ FreeProc.parent = Nobody /\ FreeProc.chan = 0 /\ FreeProc.state = "UNUSED"
        /\ FreeProc \in ProcStruct
    BY <2>1, Zenon DEF FreeProc, ProcStruct
  <2> HIDE DEF r
  <2>3. \A p \in P : proc[p] = IF p = initproc THEN r ELSE FreeProc
    BY Zenon DEF r
  <2> QED
    BY <2>2, <2>3, Zenon
<1>2. \A c \in CPUs : cpu[c].proc = Nobody /\ cpu[c].noff = 0 /\ cpu[c].intr /\ cpu[c] \in CpuStruct
  BY <1>0, Consts DEF CpuStruct
<1>3. \A p \in P : loc[p].back = "user" /\ loc[p].lk = 0 /\ loc[p] \in LocStruct
  <2>1. 0 \in 0..(NPROC + TickMod) /\ 0 \in 0..TickMod
    BY ProcAssumption
  <2> QED
    BY <1>0, <2>1, Zenon DEF NoLocals, LocStruct, ThreadLabels
<1>4. TypeOK
  <2>1. proc \in [P -> ProcStruct]
    BY <1>1, Zenon
  <2>2. cpu \in [CPUs -> CpuStruct]
    BY <1>2, Zenon
  <2>3. lock \in [Locks -> 0..NCPU]
    BY Consts, Zenon
  <2>4. pc \in [P -> ThreadLabels]
    BY Zenon DEF ThreadLabels
  <2>5. loc \in [P -> LocStruct]
    BY <1>3, Zenon
  <2>6. ticks \in 0..(TickMod - 1) /\ nextpid \in 1..(MaxPid + 1)
    BY ProcAssumption
  <2> HIDE DEF Init
  <2>7. tick \in BOOLEAN /\ panicked \in BOOLEAN
    BY Zenon DEF Init
  <2> QED
    BY <2>1, <2>2, <2>3, <2>4, <2>5, <2>6, <2>7, Zenon DEF TypeOK, LocStruct
<1> HIDE DEF Init
<1>5. Stacks
  BY <1>0, <1>2, Zenon DEF Stacks, Active, On
<1>6. States
  BY <1>0, <1>1, Zenon DEF States, StateOK, On
<1>7. Locking
  BY <1>0, <1>2, Consts, Zenon DEF Locking, Needs, Ticking
<1>8. Cpus
  BY <1>0, <1>2 DEF Cpus, CpuOK, Ticking
<1>9. Locals
  BY <1>0, <1>1, <1>3, Zenon DEF Locals, LocalsOK, Doing, Interruptible
<1>10. Forks
  BY <1>0, <1>3, Zenon DEF Forks, InFork, Doing
<1>11. Family
  BY <1>0, <1>1, Consts, Zenon DEF Family, Childless
<1>12. Wakeups
  BY <1>0, <1>1, Zenon DEF Wakeups, AsleepInWait
<1> QED
  BY <1>4, <1>5, <1>6, <1>7, <1>8, <1>9, <1>10, <1>11, <1>12, Zenon DEF ProcInv

\* Every step keeps it.
LEMMA NextProcInv == ASSUME ProcInv, [Next]_vars PROVE ProcInv'
<1>1. CASE UNCHANGED vars
  <2>1. UNCHANGED <<proc, cpu, lock, pc, loc, tick, ticks, nextpid>> /\ panicked' \in BOOLEAN
    BY <1>1, Zenon DEF vars, ProcInv, TypeOK
  <2> QED
    BY <2>1, PanicInv, Zenon
<1>2. CASE clockintr
  BY <1>2, ClockInv, Zenon
<1>3. CASE clockintrWakeup
  BY <1>3, ClockWakeupInv, Zenon
<1>4. ASSUME NEW c \in CPUs, timerIntr(c) \/ schedulerIntrOn(c) PROVE ProcInv'
  BY <1>4, TimerInv, IntrOnInv, Zenon
<1>5. ASSUME NEW c \in CPUs, NEW p \in P, scheduler(c, p) PROVE ProcInv'
  BY <1>5, SchedulerInv, Zenon
<1>6. ASSUME NEW c \in CPUs, NEW p \in P, forkNoSlot(c, p) \/ exitInit(c, p) PROVE ProcInv'
  <2>1. UNCHANGED <<proc, cpu, lock, pc, loc, tick, ticks, nextpid>> /\ panicked' \in BOOLEAN
    BY <1>6, Zenon DEF forkNoSlot, exitInit
  <2> QED
    BY <2>1, PanicInv, Zenon
<1>7. ASSUME NEW c \in CPUs, NEW p \in P, Thread(c, p) PROVE ProcInv'
  BY <1>6, <1>7, UsertrapInv, ForkParentInv, ForkRunnableInv, TakeLockInv, SleepMarkInv, SchedInv,
     YieldInv, WaitReapInv, LoopInv, ReparentInv, ExitWakeupInv, ExitZombieInv, Zenon DEF Thread
<1>8. ASSUME NEW c \in CPUs, NEW p \in P, User(c, p) PROVE ProcInv'
  BY <1>6, <1>8, ForkInv, TakeLockInv, UsertrapInv, KillInv, Zenon DEF User
<1> QED
  BY <1>1, <1>2, <1>3, <1>4, <1>5, <1>7, <1>8, Zenon DEF Next

\* ProcInv holds in every reachable state, for every number of slots and CPUs.
THEOREM ProcInvariant == Safe => []ProcInv
<1>1. Init => ProcInv
  BY InitProcInv, Zenon
<1>2. ProcInv /\ [Next]_vars => ProcInv'
  BY NextProcInv, Zenon
<1> QED
  BY <1>1, <1>2, PTL DEF Safe

\* No wakeup is lost between a test and the sleep that follows it: exit wakes the
\* parent before it can become a zombie, and nobody's parent is a free slot.
THEOREM NoLostWakeupAlways == Safe => []NoLostWakeup
<1>1. ProcInv => NoLostWakeup
  <2> SUFFICES ASSUME ProcInv PROVE NoLostWakeup
    BY Zenon
  <2>1. \A p \in P : proc[p].state = "SLEEPING" /\ proc[p].chan = p => Zombies(p) = {}
    BY Zenon DEF ProcInv, Wakeups, AsleepInWait, Zombies, Children
  <2>2. Free(tickslock) =>
          \A p \in P : proc[p].state = "SLEEPING" /\ proc[p].chan = TicksChan => Elapsed(p) < loc[p].n
    <3>1. Free(tickslock) => ~tick
      <4>1. tick => lock[tickslock] = 1
        BY Consts, Zenon DEF ProcInv, Locking, Needs, Ticking
      <4> QED
        BY <4>1, Consts, Zenon DEF Free
    <3> QED
      BY <3>1, Zenon DEF ProcInv, Wakeups
  <2>3. \A p \in P \ {initproc} :
          proc[p].state \notin {"UNUSED", "USED"} =>
            /\ proc[p].parent # Nobody
            /\ proc[proc[p].parent].state \notin {"UNUSED", "USED", "ZOMBIE"}
    <3> SUFFICES ASSUME NEW p \in P \ {initproc}, proc[p].state \notin {"UNUSED", "USED"}
                 PROVE  /\ proc[p].parent # Nobody
                        /\ proc[proc[p].parent].state \notin {"UNUSED", "USED", "ZOMBIE"}
      BY Zenon
    <3>1. proc[p].parent # Nobody /\ proc[p].parent \in P
      BY Types, Zenon DEF ProcInv, Family
    <3>2. ~Childless(proc[p].parent)
      BY <3>1, Zenon DEF ProcInv, Family
    <3> QED
      BY <3>1, <3>2, Zenon DEF Childless
  <2> QED
    BY <2>1, <2>2, <2>3, Zenon DEF NoLostWakeup
<1> QED
  BY <1>1, ProcInvariant, PTL

\* A process is on one kernel stack at most, and a CPU that leaves it holds its
\* lock and no other.
THEOREM OneStackAlways == Safe => []OneStack
<1>1. ProcInv => OneStack
  <2> SUFFICES ASSUME ProcInv PROVE OneStack
    BY Zenon
  <2>1. ASSUME NEW c \in CPUs, cpu[c].proc # Nobody
        PROVE  /\ proc[cpu[c].proc].state \notin {"UNUSED", "USED"}
               /\ proc[cpu[c].proc].state = "RUNNING" \/ lock[cpu[c].proc] = c
               /\ \A d \in CPUs \ {c} : cpu[d].proc # cpu[c].proc
    <3>1. PICK p \in P : p = cpu[c].proc
      BY <2>1, Types, Zenon
    <3>2. pc[p] \in Active /\ StateOK(p) /\ p \in Locks
      BY <2>1, <3>1, Consts, Zenon DEF ProcInv, Stacks, States
    <3>3. proc[p].state \notin {"UNUSED", "USED"}
      BY <3>2, Zenon DEF Active, StateOK
    <3>4. proc[p].state = "RUNNING" \/ lock[p] = c
      <4>1. pc[p] = "swtch" => lock[p] = c
        BY <2>1, <3>1, <3>2, Zenon DEF ProcInv, Locking, Needs, Keeps
      <4> QED
        BY <3>2, <4>1, Zenon DEF Active, StateOK
    <3>5. \A d \in CPUs \ {c} : cpu[d].proc # p
      BY <2>1, <3>1, Zenon DEF ProcInv, Stacks
    <3> QED
      BY <3>1, <3>3, <3>4, <3>5, Zenon
  <2>2. ASSUME NEW c \in CPUs, NEW p \in P, cpu[c].proc = p, pc[p] = "swtch"
        PROVE  /\ {l \in Locks : lock[l] = c} = {p} /\ cpu[c].noff = 1
               /\ proc[p].state # "RUNNING" /\ ~cpu[c].intr
    <3>1. StateOK(p) /\ CpuOK(c) /\ p # Nobody /\ p \in Locks
      BY Consts, Zenon DEF ProcInv, States, Cpus
    <3>2. ~Ticking(c)
      BY <2>2, <3>1, Zenon DEF CpuOK, Interruptible
    <3>3. cpu[c].noff = 1 /\ ~cpu[c].intr
      BY <2>2, <3>1, <3>2 DEF CpuOK, Depth
    <3>4. \A l \in Locks : lock[l] = c <=> l = p
      BY <2>2, <3>1, <3>2 DEF ProcInv, Locking, Needs, Keeps
    <3> QED
      BY <2>2, <3>1, <3>3, <3>4, Zenon DEF StateOK
  <2> QED
    BY <2>1, <2>2, Zenon DEF OneStack, ProcInv
<1> QED
  BY <1>1, ProcInvariant, PTL

\* A CPU that wants a lock and holds one holds wait_lock or tickslock and wants
\* process locks; whoever holds a process lock and wants something does not exist.
THEOREM NoSpinCycleAlways == Safe => []NoSpinCycle
<1>1. ProcInv => NoSpinCycle
  <2> SUFFICES ASSUME ProcInv PROVE NoSpinCycle
    BY Zenon
  <2> SUFFICES ASSUME NEW c \in CPUs, NEW d \in CPUs, NEW l \in Wants(c), NEW m \in Wants(d),
                      lock[l] = d, lock[m] = c
               PROVE  FALSE
    BY Zenon DEF NoSpinCycle
  <2>1. ASSUME NEW e \in CPUs, NEW x \in Wants(e)
        PROVE  /\ x \in Locks
               /\ \A y \in Locks : lock[y] = e => y \in {wait_lock, tickslock} /\ x \in P
    <3>1. CpuOK(e) /\ cpu[e].proc \in P \cup {Nobody} /\ \A y \in Locks : lock[y] = e <=> Needs(e, y)
      BY Types, Zenon DEF ProcInv, Cpus, Locking
    <3>2. CASE Ticking(e)
      <4>1. x \in P
        BY <2>1, <3>2, Zenon DEF Wants, Ticking
      <4>2. \A y \in Locks : Needs(e, y) => y = tickslock
        BY <3>1, <3>2, Zenon DEF Needs, Keeps, CpuOK, Interruptible
      <4> QED
        BY <3>1, <4>1, <4>2, Consts, Zenon
    <3>3. CASE ~Ticking(e)
      <4>1. cpu[e].proc # Nobody
        BY <2>1, <3>3, Zenon DEF Wants, Ticking
      <4>2. PICK p \in P : p = cpu[e].proc
        BY <3>1, <4>1, Zenon
      <4>3. \A y \in Locks : lock[y] = e <=> Keeps(p, y)
        BY <3>1, <3>3, <4>1, <4>2, Zenon DEF Needs
      <4>4. LocalsOK(p)
        BY Zenon DEF ProcInv, Locals
      <4>5. x \in CASE pc[p] \in {"forkParent", "exit"} -> {wait_lock}
                    [] pc[p] = "forkRunnable" -> {loc[p].arg}
                    [] pc[p] \in {"sleep", "yield", "zombie"} -> {p}
                    [] pc[p] = "relock" -> {loc[p].lk}
                    [] pc[p] = "scan" -> Zombies(p)
                    [] pc[p] \in {"reparent", "wakeParent"} -> P \ {p}
                    [] OTHER -> {}
        BY <2>1, <3>3, <4>1, <4>2, Zenon DEF Wants, Ticking
      <4>6. CASE pc[p] \in {"forkParent", "exit"}
        <5>1. x = wait_lock
          BY <4>5, <4>6, Zenon
        <5> QED
          BY <4>3, <4>6, <5>1, Consts, Zenon DEF Keeps
      <4>7. CASE pc[p] = "forkRunnable"
        <5>1. x = loc[p].arg
          BY <4>5, <4>7, Zenon
        <5>2. x \in P
          BY <4>7, <5>1, Zenon DEF ProcInv, Forks, InFork, Doing
        <5> QED
          BY <4>3, <4>7, <5>2, Consts, Zenon DEF Keeps
      <4>8. CASE pc[p] \in {"sleep", "yield", "zombie"}
        <5>1. x = p
          BY <4>5, <4>8, Zenon
        <5> QED
          BY <4>3, <4>4, <4>8, <5>1, Consts, Zenon DEF Keeps, LocalsOK
      <4>9. CASE pc[p] = "relock"
        <5>1. x = loc[p].lk
          BY <4>5, <4>9, Zenon
        <5>2. x \in Locks
          BY <4>4, <4>9, <5>1, Consts, Zenon DEF LocalsOK, Doing
        <5> QED
          BY <4>3, <4>9, <5>2, Zenon DEF Keeps
      <4>10. CASE pc[p] = "scan"
        <5>1. x \in P
          BY <4>5, <4>10, Zenon DEF Zombies, Children
        <5> QED
          BY <4>3, <4>10, <5>1, Consts, Zenon DEF Keeps
      <4>11. CASE pc[p] \in {"reparent", "wakeParent"}
        <5>1. x \in P
          BY <4>5, <4>11, Zenon
        <5> QED
          BY <4>3, <4>11, <5>1, Consts, Zenon DEF Keeps
      <4> QED
        BY <4>5, <4>6, <4>7, <4>8, <4>9, <4>10, <4>11, Zenon
    <3> QED
      BY <3>2, <3>3, Zenon
  <2>2. l \in Locks /\ m \in Locks
    BY <2>1, Zenon
  <2>3. m \in {wait_lock, tickslock} /\ l \in P
    BY <2>1, <2>2, Zenon
  <2>4. l \in {wait_lock, tickslock}
    BY <2>1, <2>2, Zenon
  <2> QED
    BY <2>3, <2>4, Consts, Zenon
<1> QED
  BY <1>1, ProcInvariant, PTL

-----------------------------------------------------------------------------
(* noff counts locks: the cardinality of finite sets.                      *)
INSTANCE FiniteSetTheorems

\* A system call that holds no lock has interrupts on, noff counts the spinlocks a
\* CPU holds, and with one held interrupts are off.
THEOREM InterruptsRestoredAlways == Safe => []InterruptsRestored
<1>1. ProcInv => InterruptsRestored
  <2> SUFFICES ASSUME ProcInv PROVE InterruptsRestored
    BY Zenon
  <2>1. ASSUME NEW c \in CPUs, NEW p \in P, At(c, p, pc[p]),
               pc[p] \in {"forkParent", "forkRunnable", "relock"}
        PROVE  cpu[c].intr
    <3>1. CpuOK(c) /\ ~Ticking(c) /\ cpu[c].proc = p /\ p # Nobody
      BY <2>1, Consts, Zenon DEF ProcInv, Cpus, At, Ticking
    <3> QED
      BY <2>1, <3>1, Zenon DEF CpuOK
  <2>2. ASSUME NEW c \in CPUs
        PROVE  cpu[c].noff = Cardinality({l \in Locks : lock[l] = c})
    <3> DEFINE H == {l \in Locks : lock[l] = c}
    <3>1. CpuOK(c) /\ cpu[c].proc \in P \cup {Nobody} /\ \A l \in Locks : l \in H <=> Needs(c, l)
      BY Types, Zenon DEF ProcInv, Cpus, Locking
    <3>2. H \subseteq Locks
      BY Zenon
    <3> SUFFICES cpu[c].noff = Cardinality(H)
      BY Zenon
    <3> HIDE DEF H
    <3>3. CASE Ticking(c)
      <4>1. \A l \in Locks : Needs(c, l) <=> l = tickslock
        BY <3>1, <3>3, Zenon DEF Needs, Keeps, CpuOK, Interruptible
      <4>2. H = {tickslock}
        BY <3>1, <3>2, <4>1, Consts, Zenon
      <4>3. cpu[c].noff = 1
        <5>1. cpu[c].proc # Nobody => Depth(pc[cpu[c].proc]) = 0
          BY <3>1, <3>3, Zenon DEF CpuOK, Interruptible, Depth
        <5> QED
          BY <3>1, <3>3, <5>1 DEF CpuOK
      <4>4. Cardinality(H) = 1
        BY <4>2, FS_Singleton, Zenon
      <4> QED
        BY <4>3, <4>4, Zenon
    <3>4. CASE ~Ticking(c) /\ cpu[c].proc = Nobody
      <4>1. H = {}
        BY <3>1, <3>2, <3>4, Zenon DEF Needs
      <4>2. cpu[c].noff = 0
        BY <3>1, <3>4 DEF CpuOK
      <4>3. Cardinality(H) = 0
        BY <4>1, FS_EmptySet, Zenon
      <4> QED
        BY <4>2, <4>3, Zenon
    <3>5. CASE ~Ticking(c) /\ cpu[c].proc # Nobody
      <4>1. PICK p \in P : p = cpu[c].proc
        BY <3>1, <3>5, Zenon
      <4>2. \A l \in Locks : l \in H <=> Keeps(p, l)
        BY <3>1, <3>5, <4>1, Zenon DEF Needs
      <4>3. cpu[c].noff = Depth(pc[p])
        <5>1. Depth(pc[p]) \in Nat
          BY Zenon DEF Depth
        <5> QED
          BY <3>1, <3>5, <4>1, <5>1 DEF CpuOK
      <4>4. LocalsOK(p) /\ p \in Locks /\ p # wait_lock /\ p # tickslock
            /\ wait_lock \in Locks /\ tickslock \in Locks /\ wait_lock # tickslock
        BY Consts, Zenon DEF ProcInv, Locals
      <4>5. CASE Depth(pc[p]) = 0
        <5>1. H = {}
          BY <3>2, <4>2, <4>5 DEF Keeps, Depth
        <5> QED
          BY <4>3, <4>5, <5>1, FS_EmptySet, Zenon
      <4>6. CASE Depth(pc[p]) = 1
        <5>1. \E l \in Locks : \A m \in Locks : Keeps(p, m) <=> m = l
          <6>1. CASE pc[p] \in {"scan", "reparent", "wakeParent", "zombie"}
            BY <4>4, <6>1, Zenon DEF Keeps
          <6>2. CASE pc[p] = "nap"
            BY <4>4, <6>2, Zenon DEF Keeps
          <6>3. CASE pc[p] = "sleep"
            <7>1. loc[p].lk \in Locks
              BY <4>4, <6>3, Zenon DEF LocalsOK
            <7> QED
              BY <6>3, <7>1, Zenon DEF Keeps
          <6>4. CASE pc[p] = "swtch"
            BY <4>4, <6>4, Zenon DEF Keeps
          <6> QED
            BY <4>6, <6>1, <6>2, <6>3, <6>4 DEF Depth
        <5>2. PICK l \in Locks : \A m \in Locks : Keeps(p, m) <=> m = l
          BY <5>1, Zenon
        <5>3. H = {l}
          BY <3>2, <4>2, <5>2, Zenon
        <5> QED
          BY <4>3, <4>6, <5>3, FS_Singleton, Zenon
      <4>7. CASE Depth(pc[p]) = 2
        <5>1. pc[p] = "sleeping"
          BY <4>7 DEF Depth
        <5>2. PICK lk \in {wait_lock, tickslock} : lk = loc[p].lk
          BY <4>4, <5>1, Zenon DEF LocalsOK
        <5>3. \A m \in Locks : Keeps(p, m) <=> m = p \/ m = lk
          BY <5>1, <5>2, Zenon DEF Keeps
        <5>4. H = {p} \cup {lk} /\ lk \notin {p}
          BY <3>2, <4>2, <4>4, <5>2, <5>3, Zenon
        <5>5. IsFiniteSet({p}) /\ Cardinality({p}) = 1
          BY FS_Singleton, Zenon
        <5>6. Cardinality({p} \cup {lk}) = Cardinality({p}) + 1
          BY <5>4, <5>5, FS_AddElement, Zenon
        <5>7. Cardinality(H) = 2
          BY <5>4, <5>5, <5>6
        <5> QED
          BY <4>3, <4>7, <5>7, Zenon
      <4> QED
        BY <4>5, <4>6, <4>7, Zenon DEF Depth
    <3> QED
      BY <3>3, <3>4, <3>5, Zenon
  <2>3. \A c \in CPUs : cpu[c].noff > 0 => ~cpu[c].intr
    BY Zenon DEF ProcInv, Cpus, CpuOK
  <2> QED
    BY <2>1, <2>2, <2>3, Zenon DEF InterruptsRestored
<1> QED
  BY <1>1, ProcInvariant, PTL
=============================================================================

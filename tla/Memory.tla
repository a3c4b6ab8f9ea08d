------------------------------- MODULE Memory -------------------------------
(***************************************************************************)
(* Physical pages and page tables: kernel/kalloc.c, the user half of vm.c, *)
(* and the calls that build, grow, copy, replace and free an address space *)
(* (proc.c, exec.c).                                                       *)
(*                                                                         *)
(* An operator maps x, the allocator with the page table at hand, to what  *)
(* the code leaves; x.ok is its result.  Other processes only matter by    *)
(* the pages they hold, so a call is one step with a quota: the number of  *)
(* kallocs that find a page while it runs.  Every error path is taken at   *)
(* every point.  A page table is its root, one table per region (the three *)
(* levels of Sv39 are two here) and its leaves.  A page has PG bytes, and  *)
(* sizes are unsigned and wrap at Word.  initproc keeps slot 1.            *)
(***************************************************************************)
EXTENDS Integers, Sequences, FiniteSets, SequencesExt, Copy

CONSTANTS NPages,     \* physical pages
          NVA,        \* virtual pages, TRAPFRAME and TRAMPOLINE the last two
          Region,     \* virtual pages per page-table page
          Word,
          Procs,
          Deltas,     \* what sbrk is called with
          Programs,   \* the ends of a program's segments
          MaxArg      \* arguments of exec, at most

Pages == 1..NPages
VAs == 0..(NVA - 1)
TRAMPOLINE == NVA - 1
TRAPFRAME == NVA - 2
Regions == {va \div Region : va \in VAs}

ASSUME MemoryAssumption ==
  /\ 1 \in Procs /\ PG > 0 /\ PG * NVA <= Word
  /\ NPages < TRAPFRAME + 3   \* memory runs out before addresses do

VARIABLES free,    \* kmem.freelist
          junk,    \* pages handed out and not yet written
          proc,    \* the process table: trapframe page, page table and size
          panic,   \* why the kernel stopped
          ret      \* whether the last call succeeded

vars == <<free, junk, proc, panic, ret>>

NoPage == 0
NoTable == [root |-> NoPage, mid |-> [r \in Regions |-> NoPage], leaf |-> [va \in {} |-> NoPage],
            user |-> {}]
Unused == [tf |-> NoPage, pt |-> NoTable, sz |-> 0]

-----------------------------------------------------------------------------
(* kalloc.c.  The free list is a set: which page is handed out does not    *)
(* matter.  kalloc leaves NoPage in x.pg when it fails.                    *)
kalloc(x) ==
  IF x.quota = 0 \/ x.free = {} THEN [x EXCEPT !.pg = NoPage, !.ok = FALSE]
  ELSE LET pg == Min(x.free)
       IN [x EXCEPT !.free = @ \ {pg}, !.junk = @ \cup {pg}, !.quota = @ - 1, !.pg = pg, !.ok = TRUE]

\* The pages S back to the free list.
kfree(x, S) ==
  [x EXCEPT !.free = @ \cup S, !.junk = @ \ S,
            !.panic = IF S \cap x.free = {} THEN @ ELSE "double free"]

Zeroed(x) == [x EXCEPT !.junk = @ \ {x.pg}]

-----------------------------------------------------------------------------
(* vm.c.                                                                   *)

\* With the table of va's region, allocated if need be.
walk(x, va) ==
  LET r == va \div Region
      y == kalloc(x)
  IN IF x.pt.mid[r] # NoPage THEN [x EXCEPT !.ok = TRUE]
     ELSE IF ~y.ok THEN y ELSE [Zeroed(y) EXCEPT !.pt.mid[r] = y.pg]

\* The entry of va, in the table that walk found.
SetPte(x, va, pg, user) ==
  IF ~x.ok THEN x
  ELSE IF va \in DOMAIN x.pt.leaf THEN [x EXCEPT !.panic = "remap"]
  ELSE [x EXCEPT !.pt.leaf = [v \in (DOMAIN @) \cup {va} |-> IF v = va THEN pg ELSE @[v]],
                 !.pt.user = IF user THEN @ \cup {va} ELSE @]

mappages(x, va, pg, user) == SetPte(walk(x, va), va, pg, user)

uvmunmap(x, V, do_free) ==
  IF ~(V \subseteq DOMAIN x.pt.leaf) THEN [x EXCEPT !.panic = "uvmunmap"]
  ELSE [(IF do_free THEN kfree(x, {x.pt.leaf[va] : va \in V}) ELSE x) EXCEPT
          !.pt.leaf = [va \in (DOMAIN @) \ V |-> @[va]], !.pt.user = @ \ V]

RoundUp(n) == (n + PG - 1) \div PG

uvmcreate(x) ==
  LET y == kalloc([x EXCEPT !.pt = NoTable])
  IN IF y.ok THEN [Zeroed(y) EXCEPT !.pt.root = y.pg] ELSE y

uvminit(x) == LET y == kalloc(x) IN mappages(Zeroed(y), 0, y.pg, TRUE)

uvmdealloc(x, oldsz, newsz) ==
  IF newsz >= oldsz THEN x ELSE uvmunmap(x, RoundUp(newsz)..(RoundUp(oldsz) - 1), TRUE)

\* Mutant of GrowPage: a table that cannot be had undoes nothing.
GrowPageKeeps(x, oldsz, a) ==
  LET y == kalloc(x)
      z == mappages(Zeroed(y), a \div PG, y.pg, TRUE)
  IN IF ~x.ok THEN x
     ELSE IF ~y.ok THEN [uvmdealloc(y, a, oldsz) EXCEPT !.ok = FALSE]
     ELSE IF ~z.ok THEN kfree(z, {y.pg})
     ELSE z

\* One page more at address a, unless one before it failed.  Without the page, or
\* the table it needs, the pages from oldsz up to a are given back.
GrowPage(x, oldsz, a) ==
  LET y == kalloc(x)
      z == mappages(Zeroed(y), a \div PG, y.pg, TRUE)
  IN IF ~x.ok THEN x
     ELSE IF ~y.ok THEN [uvmdealloc(y, a, oldsz) EXCEPT !.ok = FALSE]
     ELSE IF ~z.ok THEN [uvmdealloc(kfree(z, {y.pg}), a, oldsz) EXCEPT !.ok = FALSE]
     ELSE z

\* From oldsz, rounded up, to newsz.
uvmalloc(x, oldsz, newsz) ==
  LET old == PG * RoundUp(oldsz)
      n == IF newsz <= old THEN 0 ELSE RoundUp(newsz - old)
  IN FoldLeft(LAMBDA t, a : GrowPage(t, old, a), [x EXCEPT !.ok = TRUE],
              [k \in 1..n |-> old + (k - 1) * PG])

\* The size uvmalloc returns, or 0.
uvmallocSize(y, oldsz, newsz) == IF ~y.ok THEN 0 ELSE IF newsz < oldsz THEN oldsz ELSE newsz

\* Mutant of freewalk: the root page is kept.
freewalkTables(x) ==
  IF DOMAIN x.pt.leaf # {} THEN [x EXCEPT !.panic = "freewalk: leaf"]
  ELSE [kfree(x, {x.pt.mid[r] : r \in Regions} \ {NoPage}) EXCEPT !.pt = NoTable]

\* The tables of a page table without leaves.
freewalk(x) ==
  IF DOMAIN x.pt.leaf # {} THEN [x EXCEPT !.panic = "freewalk: leaf"]
  ELSE [kfree(x, ({x.pt.root} \cup {x.pt.mid[r] : r \in Regions}) \ {NoPage}) EXCEPT !.pt = NoTable]

uvmfree(x, sz) == freewalk(uvmunmap(x, 0..(RoundUp(sz) - 1), TRUE))

\* One page of pt copied to the same place in x's page table.  Without memory for
\* it, those before it are unmapped.
CopyPage(x, pt, va) ==
  LET y == kalloc(x)
      z == mappages(Zeroed(y), va, y.pg, va \in pt.user)
      err(t) == [uvmunmap(t, 0..(va - 1), TRUE) EXCEPT !.ok = FALSE]
  IN IF ~x.ok THEN x
     ELSE IF va \notin DOMAIN pt.leaf THEN [x EXCEPT !.panic = "uvmcopy", !.ok = FALSE]
     ELSE IF ~y.ok THEN err(y) ELSE IF ~z.ok THEN err(kfree(z, {y.pg})) ELSE z

\* The pages of pt below sz.
uvmcopy(x, pt, sz) ==
  FoldLeft(LAMBDA t, va : CopyPage(t, pt, va), [x EXCEPT !.ok = TRUE], [k \in 1..RoundUp(sz) |-> k - 1])

\* The guard page below the stack.
uvmclear(x, va) ==
  IF x.pt.mid[va \div Region] = NoPage THEN [x EXCEPT !.panic = "uvmclear"]
  ELSE [x EXCEPT !.pt.user = @ \ {va}]

-----------------------------------------------------------------------------
(* proc.c and exec.c.                                                      *)
Trampoline == -1

proc_pagetable(x, tf) ==
  LET a == uvmcreate(x)
      b == mappages(a, TRAMPOLINE, Trampoline, FALSE)
      c == mappages(b, TRAPFRAME, tf, FALSE)
  IN IF ~a.ok THEN a
     ELSE IF ~b.ok THEN [uvmfree(b, 0) EXCEPT !.ok = FALSE]
     ELSE IF ~c.ok THEN [uvmfree(uvmunmap(c, {TRAMPOLINE}, FALSE), 0) EXCEPT !.ok = FALSE] ELSE c

proc_freepagetable(x, sz) ==
  uvmfree(uvmunmap(uvmunmap(x, {TRAMPOLINE}, FALSE), {TRAPFRAME}, FALSE), sz)

freeproc(x, tf, sz) ==
  LET y == IF tf = NoPage THEN x ELSE kfree(x, {tf})
  IN IF y.pt.root = NoPage THEN y ELSE proc_freepagetable(y, sz)

\* With the new process's trapframe page in x.tf.
allocproc(x) ==
  LET a == kalloc(x)
      b == proc_pagetable([a EXCEPT !.tf = a.pg], a.pg)
  IN IF ~a.ok THEN [freeproc(a, NoPage, 0) EXCEPT !.ok = FALSE]
     ELSE IF ~b.ok THEN [freeproc(b, a.pg, 0) EXCEPT !.ok = FALSE] ELSE b

\* The allocator with page table pt, and k pages that kalloc will find.
Start(pt, k) ==
  [free |-> free, junk |-> junk, quota |-> k, panic |-> "", ok |-> TRUE, pg |-> NoPage,
   tf |-> NoPage, sz |-> 0, args |-> {}, pt |-> pt]
Quotas == 0..Cardinality(free)

Finish(x) == free' = x.free /\ junk' = x.junk /\ panic' = x.panic

\* userinit: allocproc, and one page for initcode.
Init ==
  LET x0 == [free |-> Pages, junk |-> {}, quota |-> NPages, panic |-> "", ok |-> TRUE,
             pg |-> NoPage, tf |-> NoPage, sz |-> 0, args |-> {}, pt |-> NoTable]
      x == allocproc(x0)
      y == uvminit(x)
  IN /\ free = y.free /\ junk = y.junk /\ panic = y.panic /\ ret = TRUE
     /\ proc = [p \in Procs |-> IF p = 1 THEN [tf |-> x.tf, pt |-> y.pt, sz |-> PG] ELSE Unused]

Live(p) == proc[p].pt.root # NoPage

\* sbrk.  A size that wraps does not change.
growproc(p) ==
  /\ Live(p)
  /\ \E n \in Deltas, k \in Quotas :
       LET sz == proc[p].sz
           new == (sz + n) % Word
           y == IF n > 0 THEN uvmalloc(Start(proc[p].pt, k), sz, new)
                ELSE uvmdealloc(Start(proc[p].pt, k), sz, new)
           got == IF n > 0 THEN uvmallocSize(y, sz, new) ELSE IF new >= sz THEN sz ELSE new
       IN /\ ret' = (n > 0 => got # 0)
          /\ proc' = [proc EXCEPT ![p].pt = y.pt, ![p].sz = IF n > 0 /\ got = 0 THEN sz ELSE got]
          /\ Finish(y)

\* fork into slot c.  Without memory it panics, in allocproc's or uvmcopy's name.
fork(p, c) ==
  /\ Live(p) /\ ~Live(c)
  /\ \E k \in Quotas :
       \E x \in {allocproc(Start(NoTable, k))} :
       \E y \in {uvmcopy(x, proc[p].pt, proc[p].sz)} :
          IF ~x.ok THEN Finish([x EXCEPT !.panic = IF @ = "" THEN "1" ELSE @]) /\ ret' = FALSE /\ UNCHANGED proc
          ELSE IF ~y.ok
          THEN Finish([y EXCEPT !.panic = IF @ = "" THEN "2" ELSE @]) /\ ret' = FALSE /\ UNCHANGED proc
          ELSE /\ proc' = [proc EXCEPT ![c] = [tf |-> x.tf, pt |-> y.pt, sz |-> proc[p].sz]]
               /\ Finish([y EXCEPT !.junk = @ \ {x.tf}]) /\ ret' = TRUE

\* exit, and the parent's wait.
exitAndWait(p) ==
  /\ p # 1 /\ Live(p)
  /\ Finish(freeproc(Start(proc[p].pt, 0), proc[p].tf, proc[p].sz))
  /\ proc' = [proc EXCEPT ![p] = Unused] /\ ret' = TRUE

\* Mutant of LoadSegment: the size stays behind.
LoadSegmentStale(x, end) ==
  LET y == uvmalloc(x, x.sz, end)
      got == uvmallocSize(y, x.sz, end)
  IN IF ~x.ok THEN x ELSE [y EXCEPT !.ok = got # 0]

\* The next segment of a program; x.sz follows.
LoadSegment(x, end) ==
  LET y == uvmalloc(x, x.sz, end)
      got == uvmallocSize(y, x.sz, end)
  IN IF ~x.ok THEN x
     ELSE [y EXCEPT !.ok = got # 0, !.sz = IF got = 0 THEN @ ELSE got]

\* The label bad: the new page table, as far as it got, is freed.
execBad(x) == [proc_freepagetable(x, x.sz) EXCEPT !.ok = FALSE]

\* The guard and stack pages behind the segments.
execStack(x, sz, stage) ==
  LET y == uvmalloc(x, sz, sz + 2 * PG)
      z == uvmclear([y EXCEPT !.sz = sz + 2 * PG], RoundUp(sz))
  IN IF ~y.ok THEN execBad([y EXCEPT !.sz = sz])
     ELSE IF stage = "argument" THEN execBad(z) ELSE z

\* exec of a program: a table with its segments and stack.  At its stage, a bad
\* header, segment or argument ends it.
execLoad(x, p, ends, stage) ==
  LET a == proc_pagetable(x, proc[p].tf)
      b == FoldLeft(LoadSegment, [a EXCEPT !.sz = 0], ends)
  IN IF stage = "header" THEN [x EXCEPT !.ok = FALSE]
     ELSE IF ~a.ok THEN a
     ELSE IF ~b.ok \/ stage = "segment" THEN execBad(b)
     ELSE execStack(b, PG * RoundUp(b.sz), stage)

\* A page for the ith argument.
ArgPage(x, i) ==
  LET y == kalloc(x) IN IF ~x.ok THEN x ELSE [y EXCEPT !.args = @ \cup ({y.pg} \ {NoPage})]

\* sys_exec: pages for the arguments, exec, and the pages back on every path.
sys_exec(p) ==
  /\ Live(p)
  /\ \E ends \in Programs, n \in 0..MaxArg, k \in Quotas,
        stage \in {"header", "segment", "argument", "done"} :
     \E x \in {FoldLeft(ArgPage, Start(NoTable, k), [i \in 1..n |-> i])} :
     \E y \in {IF x.ok THEN execLoad(x, p, ends, stage) ELSE x} :
       IF y.ok
       THEN /\ Finish(kfree(proc_freepagetable([y EXCEPT !.pt = proc[p].pt], proc[p].sz), x.args))
            /\ proc' = [proc EXCEPT ![p].pt = y.pt, ![p].sz = y.sz] /\ ret' = TRUE
       ELSE Finish(kfree(y, x.args)) /\ ret' = FALSE /\ UNCHANGED proc

Next ==
  \/ /\ panic = ""
     /\ \E p \in Procs : \/ growproc(p) \/ exitAndWait(p) \/ sys_exec(p)
                         \/ \E c \in Procs : fork(p, c)
  \/ panic # "" /\ UNCHANGED vars

Spec == Init /\ [][Next]_vars

-----------------------------------------------------------------------------
\* Sizes fit, and pages are pages.
TypeOK ==
  /\ free \subseteq Pages /\ junk \subseteq Pages \ free
  /\ \A p \in Procs : proc[p].sz \in 0..(Word - 1) /\ proc[p].tf \in Pages \cup {NoPage}

UserPages(p) == {va \in DOMAIN proc[p].pt.leaf : va < TRAPFRAME}
\* Who has a page: as trapframe, root, table or memory.
Uses(pg) ==
  {<<p, "tf">> : p \in {p \in Procs : proc[p].tf = pg}}
    \cup {<<p, "root">> : p \in {p \in Procs : proc[p].pt.root = pg}}
    \cup {<<x[1], "mid", x[2]>> : x \in {x \in Procs \X Regions : proc[x[1]].pt.mid[x[2]] = pg}}
    \cup {<<x[1], "va", x[2]>> : x \in {x \in Procs \X VAs :
            x[2] \in UserPages(x[1]) /\ proc[x[1]].pt.leaf[x[2]] = pg}}

\* Every page is free or has one use: no call, whatever fails inside it, leaks
\* a page, frees one that is used or gives one to two users.  And none, but for a
\* trapframe, shows what the page's last user left there.  (With the types of all
\* variables.)
PagesConserved ==
  /\ TypeOK
  /\ panic = "" =>
       /\ \A pg \in Pages : Cardinality(Uses(pg)) = IF pg \in free THEN 0 ELSE 1
       /\ \A pg \in junk : \A u \in Uses(pg) : u[2] = "tf"

\* None of the panics of vm.c and kalloc.c is met; fork's own, "1" and "2", are.
\* A process has exactly the pages below its size mapped, and its trampoline and
\* trapframe, so that the next call finds what it expects.
NoVmPanic ==
  /\ panic \in {"", "1", "2"}
  /\ panic = "" =>
       \A p \in Procs : Live(p) =>
         /\ UserPages(p) = 0..(RoundUp(proc[p].sz) - 1)
         /\ proc[p].pt.leaf[TRAMPOLINE] = Trampoline /\ proc[p].pt.leaf[TRAPFRAME] = proc[p].tf
         /\ proc[p].pt.user \subseteq UserPages(p)

\* A call that fails leaves every process's memory and size as they were: the
\* pages that sbrk or exec has mapped when memory runs out, between a page and
\* its table too, are found again by the undo, which knows only where it got to.
FailureChangesNothing ==
  [][~ret' /\ panic' = "" =>
       \A p \in Procs : /\ proc'[p].sz = proc[p].sz
                        /\ proc'[p].pt.leaf = proc[p].pt.leaf /\ proc'[p].pt.user = proc[p].pt.user]_vars

\* The pages walkaddr finds: valid, and with PTE_U.
Accessible(p) == {pg \in Pgs : pg \in DOMAIN proc[p].pt.leaf /\ pg \in proc[p].pt.user}

\* With the page table a process has, every copy to or from it reports failure
\* exactly when it meets a page outside its memory or its guard page.  One that
\* reports success has copied len bytes, as the comments on copyout and copyin
\* say, if the two addresses are not aligned alike or the range ends with a word;
\* of the others mymemmove drops the end.  A string argument is fetched exactly
\* when it ends in time and before the first page that is not accessible.
CopyExact ==
  \A p \in Procs : Live(p) =>
    <<Accessible(p), TRUE>> \in CopiesMean /\ <<Accessible(p), TRUE>> \in StringsMean
=============================================================================

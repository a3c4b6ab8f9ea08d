----------------------------- MODULE DiskProofs -----------------------------
(***************************************************************************)
(* Proofs about Disk, for every number of processes, buffers, blocks and   *)
(* descriptors: the inductive invariant, the steps that keep it without a  *)
(* count (the sleep locks, the requests, the interrupt handler and the     *)
(* device), those that count users or descriptors, and the theorems.       *)
(***************************************************************************)
EXTENDS Disk, TLAPS

-----------------------------------------------------------------------------
(* The inductive invariant.                                                *)
Places == {"idle", "lock", "lockwait", "rw", "descwait", "rwwait", "hold", "release"}
DescStruct == [addr : Bufs \cup {None}, write : BOOLEAN, next : 0..num]
ReqStruct ==
  [block : Blocks \cup {None}, b : Bufs \cup {None}, write : BOOLEAN, head : 0..num]

Shape ==
  /\ buf \in [Bufs -> BufStruct]
  /\ lru \in [Bufs -> Bufs] /\ IsInjective(lru)
  /\ num \in Nums /\ free \subseteq 1..num
  /\ desc \in [1..num -> DescStruct] /\ info \in [1..num -> Bufs \cup {None}]
  /\ avail \in Seq(1..num) /\ taken \subseteq 1..num /\ used \in Seq(1..num)
  /\ irq \in BOOLEAN /\ intr \in BOOLEAN /\ panicked \in BOOLEAN
  /\ fresh \in [Blocks -> BOOLEAN]
  /\ pc \in [Procs -> Places] /\ req \in [Procs -> ReqStruct]

\* The places at which a process holds the sleep lock of its buffer.
Holds(p) == pc[p] \in {"rw", "descwait", "rwwait", "hold"}

\* A process between bget and brelse has a buffer of the block it asked for, and
\* the sleep lock exactly at the places above.
Users ==
  /\ \A p \in Procs : IF pc[p] = "idle" THEN req[p].b = None
                      ELSE req[p].b \in Bufs /\ req[p].block \in Blocks
                           /\ buf[req[p].b].blockno = req[p].block
  /\ \A p \in Procs : Holds(p) => buf[req[p].b].lock = p
  /\ \A b \in Bufs : buf[b].lock # None => Holds(buf[b].lock) /\ req[buf[b].lock].b = b

OneBuffer ==
  \A a, b \in Bufs : buf[a].blockno = buf[b].blockno /\ buf[a].blockno # None => a = b

UsersOf(b) == {p \in Procs : req[p].b = b}
Counted ==
  \A b \in Bufs : buf[b].refcnt = Cardinality(UsersOf(b)) + (IF buf[b].pinned THEN 1 ELSE 0)

\* The requests the device has not answered, and those the driver has not seen
\* the answer of.
Pending == taken \cup Range(avail)
Open == Pending \cup Range(used)
Waiting == {p \in Procs : pc[p] = "rwwait"}

\* The three sets of requests are disjoint and hold a request once; b->disk says
\* whether the request is in one of them.
Queues ==
  /\ IsInjective(avail) /\ IsInjective(used)
  /\ taken \cap Range(avail) = {} /\ Pending \cap Range(used) = {}
  /\ \A d \in Open : \E p \in Waiting : req[p].head = d
  /\ \A p \in Waiting : buf[req[p].b].disk <=> req[p].head \in Open
  /\ \A b \in Bufs : buf[b].disk => \E p \in Waiting : req[p].b = b

\* The descriptors in use are the chains of the requests that wait.
Second(p) == desc[req[p].head].next
Third(p) == desc[Second(p)].next
Chain(p) == {req[p].head, Second(p), Third(p)}

Chains ==
  /\ \A p \in Waiting :
       /\ req[p].head \in 1..num /\ Second(p) \in 1..num /\ Third(p) \in 1..num
       /\ req[p].head # Second(p) /\ req[p].head # Third(p) /\ Second(p) # Third(p)
       /\ Chain(p) \cap free = {}
       /\ info[req[p].head] = req[p].b /\ desc[Second(p)].addr = req[p].b
       /\ desc[req[p].head].write = req[p].write
  /\ \A p, q \in Waiting : p # q => Chain(p) \cap Chain(q) = {}
  /\ \A d \in 1..num \ free : \E p \in Waiting : d \in Chain(p)

\* The process has its buffer written, and the device has not done so yet.
Writer(p) ==
  /\ req[p].write
  /\ pc[p] \in {"rw", "descwait"} \/ (pc[p] = "rwwait" /\ req[p].head \in Pending)

\* A block whose latest contents are not on the disk is in a valid buffer that is
\* pinned or on its way to the disk.
Kept(k) ==
  \E b \in Bufs :
    /\ buf[b].blockno = k /\ buf[b].valid
    /\ buf[b].pinned \/ \E p \in Procs : req[p].b = b /\ Writer(p)

Fresh ==
  /\ \A b \in Bufs : buf[b].valid => buf[b].fresh
  /\ \A p \in Procs :
       /\ pc[p] \in {"lock", "lockwait"} => ~req[p].write
       /\ pc[p] \in {"rw", "descwait", "rwwait"} => (req[p].write <=> buf[req[p].b].valid)
       /\ pc[p] = "hold" => buf[req[p].b].valid
       /\ pc[p] = "rwwait" /\ req[p].head \notin Pending => buf[req[p].b].fresh
  /\ \A k \in Blocks : ~fresh[k] => Kept(k)

\* Nobody sleeps for a sleep lock that is free, or for descriptors when three are.
NoneForgotten ==
  \A p \in Procs : /\ pc[p] = "lockwait" => buf[req[p].b].lock # None
                   /\ pc[p] = "descwait" => Cardinality(free) < 3

DiskInv ==
  Shape /\ Users /\ OneBuffer /\ Counted /\ Queues /\ Chains /\ Fresh /\ NoneForgotten

-----------------------------------------------------------------------------
\* None is no process, buffer or block, and every field has its type.
LEMMA Facts ==
  ASSUME DiskInv
  PROVE  /\ None \notin Procs /\ None \notin Bufs /\ None \notin Blocks
         /\ \A b \in Bufs : /\ buf[b] \in BufStruct /\ buf[b].lock \in Procs \cup {None}
                            /\ buf[b].refcnt \in Nat /\ buf[b].blockno \in Blocks \cup {None}
         /\ \A p \in Procs : /\ pc[p] \in Places /\ req[p] \in ReqStruct
                             /\ pc[p] # "idle" => req[p].b \in Bufs
<1>1. None \notin Procs /\ None \notin Bufs /\ None \notin Blocks
  BY DiskAssumption DEF None, Bufs
<1>2. \A p \in Procs : pc[p] \in Places /\ req[p] \in ReqStruct /\ (pc[p] # "idle" => req[p].b \in Bufs)
  BY Zenon DEF DiskInv, Shape, Users
<1>3. \A b \in Bufs : buf[b] \in BufStruct
  BY Zenon DEF DiskInv, Shape
<1>4. \A r \in BufStruct : r.lock \in Procs \cup {None} /\ r.refcnt \in Nat /\ r.blockno \in Blocks \cup {None}
  BY DEF BufStruct
<1> QED
  BY <1>1, <1>2, <1>3, <1>4, Zenon

\* A sequence without duplicates, with an element more.
LEMMA AppendFacts ==
  ASSUME NEW S, NEW s \in Seq(S), IsInjective(s), NEW e \in S, e \notin Range(s)
  PROVE  /\ Append(s, e) \in Seq(S) /\ IsInjective(Append(s, e))
         /\ Range(Append(s, e)) = Range(s) \cup {e}
<1> DEFINE t == Append(s, e)
<1>1. t \in Seq(S) /\ Len(t) = Len(s) + 1 /\ t[Len(s) + 1] = e /\ \A i \in 1..Len(s) : t[i] = s[i]
  OBVIOUS
<1>2. DOMAIN s = 1..Len(s) /\ DOMAIN t = 1..Len(t) /\ Len(s) \in Nat
  BY <1>1
<1> HIDE DEF t
<1>3. IsInjective(t)
  <2>1. \A i \in 1..Len(s) : s[i] # e
    BY <1>2, Zenon DEF Range
  <2>2. \A i \in 1..Len(t) : i \in 1..Len(s) \/ i = Len(s) + 1
    BY <1>1, <1>2
  <2>3. \A i, j \in 1..Len(t) : t[i] = t[j] => i = j
    BY <1>1, <1>2, <2>1, <2>2, Zenon DEF IsInjective
  <2> QED
    BY <1>2, <2>3, Zenon DEF IsInjective
<1>4. Range(t) = Range(s) \cup {e}
  BY <1>1, <1>2 DEF Range
<1> QED
  BY <1>1, <1>3, <1>4, Zenon DEF t

\* A sequence without duplicates, without its head.
LEMMA TailFacts ==
  ASSUME NEW S, NEW s \in Seq(S), IsInjective(s), s # <<>>
  PROVE  /\ Tail(s) \in Seq(S) /\ IsInjective(Tail(s)) /\ Head(s) \in Range(s) /\ Head(s) \in S
         /\ Range(Tail(s)) = Range(s) \ {Head(s)}
<1> DEFINE t == Tail(s)
<1>1. /\ t \in Seq(S) /\ Len(s) >= 1 /\ Len(s) \in Nat /\ Len(t) = Len(s) - 1 /\ Head(s) = s[1]
      /\ \A i \in 1..Len(t) : t[i] = s[i + 1]
  OBVIOUS
<1>2. DOMAIN s = 1..Len(s) /\ DOMAIN t = 1..Len(t)
  BY <1>1
<1>3. Head(s) \in Range(s) /\ Head(s) \in S
  BY <1>1, <1>2 DEF Range
<1> HIDE DEF t
<1>4. IsInjective(t)
  <2>1. \A i \in 1..Len(t) : i + 1 \in 1..Len(s)
    BY <1>1
  <2>2. \A i, j \in 1..Len(s) : s[i] = s[j] => i = j
    BY <1>2, Zenon DEF IsInjective
  <2>3. ASSUME NEW i \in 1..Len(t), NEW j \in 1..Len(t), t[i] = t[j] PROVE i = j
    <3>1. s[i + 1] = s[j + 1]
      BY <1>1, <2>3, Zenon
    <3>2. i + 1 = j + 1
      BY <2>1, <2>2, <3>1, Zenon
    <3> QED
      BY <1>1, <3>2
  <2> QED
    BY <1>2, <2>3, Zenon DEF IsInjective
<1>5. Range(t) = Range(s) \ {Head(s)}
  <2>1. ASSUME NEW x \in Range(t) PROVE x \in Range(s) /\ x # s[1]
    <3>1. PICK i \in 1..Len(t) : x = t[i]
      BY <1>2, Zenon DEF Range
    <3>2. x = s[i + 1] /\ i + 1 \in 1..Len(s) /\ i + 1 # 1
      BY <1>1, <3>1
    <3> QED
      BY <1>1, <1>2, <3>2 DEF Range, IsInjective
  <2>2. ASSUME NEW x \in Range(s), x # s[1] PROVE x \in Range(t)
    <3>1. PICK i \in 1..Len(s) : x = s[i]
      BY <1>2, Zenon DEF Range
    <3>2. i - 1 \in 1..Len(t) /\ t[i - 1] = x
      BY <1>1, <2>2, <3>1
    <3> QED
      BY <1>2, <3>2, Zenon DEF Range
  <2> QED
    BY <1>1, <2>1, <2>2, Zenon
<1> QED
  BY <1>1, <1>3, <1>4, <1>5, Zenon DEF t

-----------------------------------------------------------------------------
(* What a step that leaves part of the state alone preserves.              *)

\* Queues and descriptor chains, when neither they nor the requests that wait change.
LEMMA QueueFrame ==
  ASSUME DiskInv, UNCHANGED <<num, free, desc, info, avail, taken, used>>,
         Waiting' = Waiting, \A q \in Waiting : req'[q] = req[q],
         \A b \in Bufs : buf'[b].disk = buf[b].disk
  PROVE  Queues' /\ Chains' /\ Pending' = Pending
<1> USE DEF DiskInv
<1>1. Pending' = Pending /\ Open' = Open
  BY Zenon DEF Pending, Open
<1>2. \A q \in Waiting : q \in Procs /\ req[q].b \in Bufs
  BY Zenon DEF Users, Waiting
<1>3. Queues'
  BY <1>1, <1>2 DEF Queues
<1>4. \A q \in Waiting : Second(q)' = Second(q) /\ Third(q)' = Third(q) /\ Chain(q)' = Chain(q)
  BY Zenon DEF Second, Third, Chain
<1>5. Chains'
  BY <1>4 DEF Chains
<1> QED
  BY <1>1, <1>3, <1>5, Zenon

\* The buffers that keep what the disk lacks.
LEMMA KeptFrame ==
  ASSUME NEW k, Kept(k),
         \A b \in Bufs : buf[b].blockno = k /\ buf[b].valid =>
           buf'[b].blockno = k /\ buf'[b].valid /\ (buf[b].pinned => buf'[b].pinned),
         \A q \in Procs : Writer(q) => Writer(q)' /\ req'[q].b = req[q].b
  PROVE  Kept(k)'
  BY Zenon DEF Kept

\* The processes that count as users, when only other fields of req change.
LEMMA UsersFrame ==
  ASSUME \A q \in Procs : req'[q].b = req[q].b
  PROVE  \A c \in Bufs : UsersOf(c)' = UsersOf(c)
  BY Zenon DEF UsersOf

\* Steps that only move the interrupt line, the handler or the panic flag.
LEMMA StillInv ==
  ASSUME DiskInv, irq' \in BOOLEAN, intr' \in BOOLEAN, panicked' \in BOOLEAN,
         UNCHANGED <<buf, lru, num, free, desc, info, avail, taken, used, fresh, pc, req>>
  PROVE  DiskInv'
<1> USE DEF DiskInv
<1>1. Shape'
  BY Zenon DEF Shape, ReqStruct, DescStruct
<1>2. Users' /\ OneBuffer' /\ Counted' /\ NoneForgotten'
  BY DEF Users, Holds, OneBuffer, Counted, UsersOf, NoneForgotten
<1>3. Waiting' = Waiting
  BY Zenon DEF Waiting
<1>4. Queues' /\ Chains' /\ Pending' = Pending
  BY <1>3, QueueFrame, Zenon
<1>5. Fresh'
  BY <1>4 DEF Fresh, Kept, Writer
<1> QED
  BY <1>1, <1>2, <1>4, <1>5, Zenon

-----------------------------------------------------------------------------
(* The sleep lock of a buffer, and storing into a held buffer.             *)

\* acquiresleep and what bread does next keep the invariant.
LEMMA AcquiresleepInv == ASSUME DiskInv, NEW p \in Procs, acquiresleep(p) PROVE DiskInv'
<1> USE DiskAssumption DEF DiskInv
<1> DEFINE b == req[p].b
<1>1. pc[p] = "lock" /\ b \in Bufs /\ buf[b] \in BufStruct
  BY Zenon DEF acquiresleep, Users, Shape
<1>2. UNCHANGED <<lru, num, free, desc, info, avail, taken, used, irq, intr, fresh, req, panicked>>
  BY Zenon DEF acquiresleep, queue, device, Rest
<1> HIDE DEF b
<1>3. \E to \in {"lockwait", "rw", "hold"} :
        /\ pc' = [pc EXCEPT ![p] = to]
        /\ IF to = "lockwait" THEN buf[b].lock # None /\ UNCHANGED buf
           ELSE /\ buf[b].lock = None /\ buf' = [buf EXCEPT ![b] = [buf[b] EXCEPT !.lock = p]]
                /\ buf[b].valid <=> to = "hold"
  BY <1>1, Zenon DEF acquiresleep, Goto, AfterLock, b, BufStruct
<1>4. PICK to \in {"lockwait", "rw", "hold"} :
        /\ pc' = [pc EXCEPT ![p] = to]
        /\ IF to = "lockwait" THEN buf[b].lock # None /\ UNCHANGED buf
           ELSE /\ buf[b].lock = None /\ buf' = [buf EXCEPT ![b] = [buf[b] EXCEPT !.lock = p]]
                /\ buf[b].valid <=> to = "hold"
  BY <1>3, Zenon
<1>5. /\ pc' \in [Procs -> Places] /\ pc'[p] = to
      /\ \A q \in Procs : q # p => pc'[q] = pc[q]
  BY <1>4, Zenon DEF Shape, Places
<1>6. /\ buf' \in [Bufs -> BufStruct]
      /\ \A c \in Bufs :
           /\ buf'[c].blockno = buf[c].blockno /\ buf'[c].valid = buf[c].valid
           /\ buf'[c].disk = buf[c].disk /\ buf'[c].refcnt = buf[c].refcnt
           /\ buf'[c].pinned = buf[c].pinned /\ buf'[c].fresh = buf[c].fresh
           /\ buf'[c].lock = IF c = b /\ to # "lockwait" THEN p ELSE buf[c].lock
  <2> DEFINE r == [buf[b] EXCEPT !.lock = p]
  <2>1. /\ r \in BufStruct /\ r.blockno = buf[b].blockno /\ r.valid = buf[b].valid
        /\ r.disk = buf[b].disk /\ r.refcnt = buf[b].refcnt
        /\ r.pinned = buf[b].pinned /\ r.fresh = buf[b].fresh /\ r.lock = p
    BY <1>1, Zenon DEF BufStruct
  <2> HIDE DEF r
  <2>2. buf' = buf \/ buf' = [buf EXCEPT ![b] = r]
    BY <1>4, Zenon DEF r
  <2>3. buf' \in [Bufs -> BufStruct]
    BY <2>1, <2>2 DEF Shape
  <2> QED
    BY <1>1, <1>4, <2>1, <2>3, Zenon DEF Shape, r
<1>7. Shape'
  BY <1>2, <1>5, <1>6, Zenon DEF Shape, ReqStruct, DescStruct, Places, BufStruct
<1>8. Users'
  BY <1>1, <1>2, <1>4, <1>5, <1>6, Facts DEF Users, Holds, b
<1>9. OneBuffer' /\ Counted'
  <2>1. \A c \in Bufs : UsersOf(c)' = UsersOf(c)
    BY <1>2, Zenon DEF UsersOf
  <2>2. Counted'
    BY <1>6, <2>1 DEF Counted
  <2> QED
    BY <1>6, <2>2 DEF OneBuffer
<1>10. Waiting' = Waiting
  BY <1>1, <1>5, Zenon DEF Waiting
<1>11. Queues' /\ Chains' /\ Pending' = Pending
  BY <1>2, <1>6, <1>10, QueueFrame, Zenon
<1>12. Fresh'
  <2>1. \A q \in Procs : Writer(q) => Writer(q)' /\ req'[q].b = req[q].b
    BY <1>1, <1>2, <1>5, <1>11, Zenon DEF Writer
  <2>2. \A k \in Blocks : ~fresh'[k] => Kept(k)'
    BY <1>2, <1>6, <2>1, KeptFrame DEF Fresh
  <2>3. \A q \in Procs : pc[q] # "idle" => req[q].b \in Bufs
    BY Zenon DEF Users
  <2> QED
    BY <1>1, <1>2, <1>4, <1>5, <1>6, <1>11, <2>2, <2>3 DEF Fresh, b
<1>13. NoneForgotten'
  BY <1>1, <1>2, <1>4, <1>5, <1>6 DEF NoneForgotten, Users, b
<1> QED
  BY <1>7, <1>8, <1>9, <1>11, <1>12, <1>13, Zenon

\* Storing into a held buffer and starting to write it through keeps the invariant.
LEMMA BwriteInv == ASSUME DiskInv, NEW p \in Procs, bwrite(p) PROVE DiskInv'
<1> USE DiskAssumption DEF DiskInv
<1> DEFINE b == req[p].b
           k == req[p].block
<1>1. /\ pc[p] = "hold" /\ pc' = [pc EXCEPT ![p] = "rw"] /\ req' = [req EXCEPT ![p].write = TRUE]
      /\ fresh' = [fresh EXCEPT ![k] = FALSE]
  BY Zenon DEF bwrite, Goto
<1>2. UNCHANGED <<buf, lru, num, free, desc, info, avail, taken, used, irq, intr, panicked>>
  BY Zenon DEF bwrite, bio, queue, Rest
<1>3. b \in Bufs /\ k \in Blocks /\ buf[b].blockno = k /\ buf[b].valid /\ req[p] \in ReqStruct
  BY <1>1, Facts, Zenon DEF Users, Fresh
<1> HIDE DEF b, k
<1>4. /\ pc' \in [Procs -> Places] /\ pc'[p] = "rw"
      /\ \A q \in Procs : q # p => pc'[q] = pc[q]
  BY <1>1, Zenon DEF Shape, Places
<1>5. /\ req' \in [Procs -> ReqStruct] /\ req'[p].b = b /\ req'[p].block = k /\ req'[p].write
      /\ \A q \in Procs : q # p => req'[q] = req[q]
  <2> DEFINE r == [req[p] EXCEPT !.write = TRUE]
  <2>1. r \in ReqStruct /\ r.b = b /\ r.block = k /\ r.write
    BY <1>3, Zenon DEF ReqStruct, b, k
  <2>2. req' = [req EXCEPT ![p] = r]
    BY <1>1, Zenon
  <2> HIDE DEF r
  <2> QED
    BY <2>1, <2>2, Zenon DEF Shape
<1>6. /\ fresh' \in [Blocks -> BOOLEAN]
      /\ \A j \in Blocks : j # k => fresh'[j] = fresh[j]
  BY <1>1, <1>3, Zenon DEF Shape
<1>7. Shape'
  BY <1>2, <1>4, <1>5, <1>6, Zenon DEF Shape, ReqStruct, DescStruct, Places, BufStruct
<1>8. \A q \in Procs : req'[q].b = req[q].b /\ req'[q].block = req[q].block
  BY <1>5, Zenon DEF b, k
<1>9. Users'
  BY <1>1, <1>2, <1>4, <1>8, Facts DEF Users, Holds
<1>10. OneBuffer' /\ Counted'
  BY <1>2, <1>8, UsersFrame, Zenon DEF OneBuffer, Counted
<1>11. Waiting' = Waiting /\ p \notin Waiting
  BY <1>1, <1>4, Zenon DEF Waiting
<1>12. Queues' /\ Chains' /\ Pending' = Pending
  <2>1. \A q \in Waiting : req'[q] = req[q]
    BY <1>5, <1>11, Zenon DEF Waiting
  <2> QED
    BY <1>2, <1>11, <2>1, QueueFrame, Zenon
<1>13. Fresh'
  <2>1. \A q \in Procs : Writer(q) => Writer(q)' /\ req'[q].b = req[q].b
    BY <1>1, <1>4, <1>5, <1>8, <1>12, Zenon DEF Writer
  <2>2. ASSUME NEW j \in Blocks, ~fresh'[j] PROVE Kept(j)'
    <3>1. CASE j # k
      <4>1. Kept(j)
        BY <1>6, <2>2, <3>1, Zenon DEF Fresh
      <4> QED
        BY <1>2, <2>1, <4>1, KeptFrame, Zenon
    <3>2. CASE j = k
      <4>1. Writer(p)'
        BY <1>4, <1>5, Zenon DEF Writer
      <4> QED
        BY <1>2, <1>3, <1>5, <3>2, <4>1, Zenon DEF Kept
    <3> QED
      BY <3>1, <3>2, Zenon
  <2> QED
    BY <1>1, <1>2, <1>3, <1>4, <1>5, <1>12, <2>2 DEF Fresh
<1>14. NoneForgotten'
  <2>1. ASSUME NEW q \in Procs, pc'[q] \in {"lockwait", "descwait"}
        PROVE  pc[q] = pc'[q] /\ req'[q].b = req[q].b
    BY <1>4, <1>8, <2>1, Zenon
  <2> QED
    BY <1>2, <2>1, Zenon DEF NoneForgotten
<1> QED
  BY <1>7, <1>9, <1>10, <1>12, <1>13, <1>14, Zenon

\* releasesleep wakes every process that waits for the lock.
LEMMA ReleasesleepInv == ASSUME DiskInv, NEW p \in Procs, releasesleep(p) PROVE DiskInv'
<1> USE DiskAssumption DEF DiskInv
<1> DEFINE b == req[p].b
<1>1. /\ pc[p] = "hold" /\ buf[b].lock = p /\ buf' = [buf EXCEPT ![b].lock = None]
      /\ pc' = [Awake("lockwait", b, "lock") EXCEPT ![p] = "release"]
  BY Zenon DEF releasesleep
<1>2. UNCHANGED <<lru, num, free, desc, info, avail, taken, used, irq, intr, fresh, req, panicked>>
  BY Zenon DEF releasesleep, queue, device, Rest
<1>3. b \in Bufs /\ buf[b] \in BufStruct /\ b # None
  BY <1>1, Facts, Zenon
<1> HIDE DEF b
<1>4. /\ pc' \in [Procs -> Places] /\ pc'[p] = "release"
      /\ \A q \in Procs : q # p =>
           pc'[q] = IF pc[q] = "lockwait" /\ req[q].b = b THEN "lock" ELSE pc[q]
  BY <1>1, <1>3, Zenon DEF Awake, Shape, Places
<1>5. /\ buf' \in [Bufs -> BufStruct]
      /\ \A c \in Bufs :
           /\ buf'[c].blockno = buf[c].blockno /\ buf'[c].valid = buf[c].valid
           /\ buf'[c].disk = buf[c].disk /\ buf'[c].refcnt = buf[c].refcnt
           /\ buf'[c].pinned = buf[c].pinned /\ buf'[c].fresh = buf[c].fresh
           /\ buf'[c].lock = IF c = b THEN None ELSE buf[c].lock
  <2> DEFINE r == [buf[b] EXCEPT !.lock = None]
  <2>1. /\ r \in BufStruct /\ r.blockno = buf[b].blockno /\ r.valid = buf[b].valid
        /\ r.disk = buf[b].disk /\ r.refcnt = buf[b].refcnt
        /\ r.pinned = buf[b].pinned /\ r.fresh = buf[b].fresh /\ r.lock = None
    BY <1>3, Zenon DEF BufStruct
  <2>2. buf' = [buf EXCEPT ![b] = r]
    BY <1>1, Zenon
  <2> HIDE DEF r
  <2>3. buf' \in [Bufs -> BufStruct] /\ buf'[b] = r /\ \A c \in Bufs : c # b => buf'[c] = buf[c]
    BY <1>3, <2>1, <2>2, Zenon DEF Shape
  <2> QED
    BY <2>1, <2>3, Zenon
<1>6. Shape'
  BY <1>2, <1>4, <1>5, Zenon DEF Shape, ReqStruct, DescStruct, Places, BufStruct
<1>7. Users'
  <2>1. ASSUME NEW q \in Procs PROVE
          /\ IF pc'[q] = "idle" THEN req'[q].b = None
             ELSE req'[q].b \in Bufs /\ req'[q].block \in Blocks /\ buf'[req'[q].b].blockno = req'[q].block
          /\ Holds(q)' => buf'[req'[q].b].lock = q
    BY <1>1, <1>2, <1>3, <1>4, <1>5, Facts DEF Users, Holds, b
  <2>2. ASSUME NEW c \in Bufs, buf'[c].lock # None PROVE (Holds(buf[c].lock) /\ req[buf[c].lock].b = c)'
    <3>1. c # b /\ buf'[c].lock = buf[c].lock
      BY <1>5, <2>2, Zenon
    <3>2. buf[c].lock \in Procs /\ Holds(buf[c].lock) /\ req[buf[c].lock].b = c /\ buf[c].lock # p
      BY <2>2, <3>1, Facts, Zenon DEF Users, b
    <3> QED
      BY <1>2, <1>4, <3>1, <3>2, Zenon DEF Holds
  <2> QED
    BY <2>1, <2>2, Zenon DEF Users
<1>8. OneBuffer' /\ Counted'
  BY <1>2, <1>5, UsersFrame DEF OneBuffer, Counted
<1>9. Waiting' = Waiting
  BY <1>1, <1>4, Zenon DEF Waiting
<1>10. Queues' /\ Chains' /\ Pending' = Pending
  BY <1>2, <1>5, <1>9, QueueFrame, Zenon
<1>11. Fresh'
  <2>1. \A q \in Procs : Writer(q) => Writer(q)' /\ req'[q].b = req[q].b
    BY <1>1, <1>2, <1>4, <1>10, Zenon DEF Writer
  <2>2. \A k \in Blocks : ~fresh'[k] => Kept(k)'
    <3>1. \A c \in Bufs : /\ buf'[c].blockno = buf[c].blockno /\ buf'[c].valid = buf[c].valid
                          /\ buf'[c].pinned = buf[c].pinned
      BY <1>5, Zenon
    <3> QED
      BY <1>2, <2>1, <3>1, KeptFrame, Zenon DEF Fresh
  <2> QED
    BY <1>1, <1>2, <1>4, <1>5, <1>10, <2>2, Facts DEF Fresh
<1>12. NoneForgotten'
  BY <1>2, <1>4, <1>5, Facts, ZenonT(60) DEF NoneForgotten
<1> QED
  BY <1>6, <1>7, <1>8, <1>10, <1>11, <1>12, Zenon

-----------------------------------------------------------------------------
(* The driver's steps for a request.                                       *)

\* A process that waits for its request has its buffer to itself.
LEMMA WaitFacts ==
  ASSUME DiskInv, NEW p \in Waiting
  PROVE  /\ p \in Procs /\ pc[p] = "rwwait" /\ req[p].b \in Bufs /\ buf[req[p].b].lock = p
         /\ \A q \in Procs : Holds(q) /\ req[q].b = req[p].b => q = p
         /\ \A q \in Waiting : req[q].b = req[p].b => q = p
  BY DEF DiskInv, Users, Holds, Waiting

\* virtio_disk_rw goes to sleep when it gets fewer than three descriptors.
LEMMA DescwaitInv ==
  ASSUME DiskInv, NEW p \in Procs, pc[p] = "rw", Cardinality(free) < 3,
         pc' = [(IF free = {} THEN pc ELSE Awake("descwait", None, "rw")) EXCEPT ![p] = "descwait"],
         UNCHANGED <<buf, lru, num, free, desc, info, avail, taken, used, irq, intr, fresh, req, panicked>>
  PROVE  DiskInv'
<1> USE DEF DiskInv
<1>1. /\ pc' \in [Procs -> Places] /\ pc'[p] = "descwait"
      /\ \A q \in Procs : q # p => pc'[q] = pc[q] \/ (pc[q] = "descwait" /\ pc'[q] = "rw")
  BY Zenon DEF Awake, Shape, Places
<1>2. \A q \in Procs : (Holds(q) <=> Holds(q)') /\ (q \in Waiting <=> q \in Waiting')
                       /\ (pc[q] = "idle" <=> pc'[q] = "idle")
  BY <1>1, Zenon DEF Holds, Waiting
<1>3. Shape'
  BY <1>1, Zenon DEF Shape, ReqStruct, DescStruct, Places, BufStruct
<1>4. Users'
  <2>1. \A q \in Procs :
          /\ IF pc'[q] = "idle" THEN req'[q].b = None
             ELSE req'[q].b \in Bufs /\ req'[q].block \in Blocks /\ buf'[req'[q].b].blockno = req'[q].block
          /\ Holds(q)' => buf'[req'[q].b].lock = q
    BY <1>2, Zenon DEF Users
  <2>2. ASSUME NEW c \in Bufs, buf'[c].lock # None PROVE (Holds(buf[c].lock) /\ req[buf[c].lock].b = c)'
    <3>1. buf[c].lock \in Procs /\ Holds(buf[c].lock) /\ req[buf[c].lock].b = c
      BY <2>2, Facts, Zenon DEF Users
    <3> QED
      BY <1>1, <3>1, Zenon DEF Holds
  <2> QED
    BY <2>1, <2>2, Zenon DEF Users
<1>5. OneBuffer' /\ Counted'
  BY UsersFrame, Zenon DEF OneBuffer, Counted
<1>6. Waiting' = Waiting
  BY <1>2, Zenon DEF Waiting
<1>7. Queues' /\ Chains' /\ Pending' = Pending
  BY <1>6, QueueFrame, Zenon
<1>8. Fresh'
  <2>1. \A q \in Procs : Writer(q) => Writer(q)' /\ req'[q].b = req[q].b
    BY <1>1, <1>7, Zenon DEF Writer
  <2>2. \A k \in Blocks : ~fresh'[k] => Kept(k)'
    BY <2>1, KeptFrame, Zenon DEF Fresh
  <2> QED
    BY <1>1, <1>7, <2>2, Zenon DEF Fresh
<1>9. NoneForgotten'
  BY <1>1, Zenon DEF NoneForgotten
<1> QED
  BY <1>3, <1>4, <1>5, <1>7, <1>8, <1>9, Zenon

\* What virtio_disk_rw does to the descriptors it gets.
SubmitOn(p, b, x, y, z) ==
  /\ free' = free \ {x, y, z}
  /\ desc' = [desc EXCEPT ![x] = [NoDesc EXCEPT !.write = req[p].write, !.next = y],
                          ![y] = [NoDesc EXCEPT !.addr = b, !.next = z]]
  /\ buf' = [buf EXCEPT ![b].disk = TRUE] /\ info' = [info EXCEPT ![x] = b]
  /\ avail' = Append(avail, x) /\ req' = [req EXCEPT ![p].head = x]
  /\ pc' = [pc EXCEPT ![p] = "rwwait"]

\* virtio_disk_rw queues the request on three free descriptors.
LEMMA SubmitStep ==
  ASSUME DiskInv, NEW p \in Procs, pc[p] = "rw", \A q \in Procs : pc[q] # "descwait",
         NEW b \in Bufs, b = req[p].b, NEW x \in free, NEW y \in free, NEW z \in free,
         x # y, x # z, y # z, SubmitOn(p, b, x, y, z),
         UNCHANGED <<lru, num, taken, used, irq, intr, fresh, panicked>>
  PROVE  DiskInv'
<1> USE DiskAssumption DEF DiskInv
<1>0. b = req[p].b
  BY Zenon
<1>1. x # y /\ x # z /\ y # z /\ SubmitOn(p, b, x, y, z)
  BY Zenon
<1>2. num \in Nat /\ free \subseteq 1..num /\ x \in 1..num /\ y \in 1..num /\ z \in 1..num
  BY Zenon DEF Shape
<1>3. /\ pc' \in [Procs -> Places] /\ pc'[p] = "rwwait"
      /\ \A q \in Procs : q # p => pc'[q] = pc[q]
  BY <1>1 DEF SubmitOn, Shape, Places
<1>4. /\ req' \in [Procs -> ReqStruct] /\ req'[p].head = x
      /\ \A q \in Procs : q # p => req'[q] = req[q]
      /\ \A q \in Procs : req'[q].b = req[q].b /\ req'[q].block = req[q].block /\ req'[q].write = req[q].write
  <2> DEFINE r == [req[p] EXCEPT !.head = x]
  <2>1. /\ r \in ReqStruct /\ r.head = x /\ r.b = req[p].b /\ r.block = req[p].block
        /\ r.write = req[p].write
    BY <1>2, Facts DEF ReqStruct
  <2>2. req' = [req EXCEPT ![p] = r]
    BY <1>1, Zenon DEF SubmitOn
  <2> HIDE DEF r
  <2>3. req' \in [Procs -> ReqStruct] /\ req'[p] = r /\ \A q \in Procs : q # p => req'[q] = req[q]
    BY <2>1, <2>2, Zenon DEF Shape
  <2> QED
    BY <2>1, <2>3, Zenon
<1>5. /\ buf' \in [Bufs -> BufStruct] /\ buf'[b].disk
      /\ \A c \in Bufs :
           /\ buf'[c].blockno = buf[c].blockno /\ buf'[c].valid = buf[c].valid
           /\ buf'[c].lock = buf[c].lock /\ buf'[c].refcnt = buf[c].refcnt
           /\ buf'[c].pinned = buf[c].pinned /\ buf'[c].fresh = buf[c].fresh
           /\ c # b => buf'[c].disk = buf[c].disk
  <2> DEFINE r == [buf[b] EXCEPT !.disk = TRUE]
  <2>1. /\ r \in BufStruct /\ r.blockno = buf[b].blockno /\ r.valid = buf[b].valid
        /\ r.lock = buf[b].lock /\ r.refcnt = buf[b].refcnt
        /\ r.pinned = buf[b].pinned /\ r.fresh = buf[b].fresh /\ r.disk
    <3>1. buf[b] \in BufStruct
      BY Facts, Zenon
    <3> QED
      BY <3>1, Zenon DEF BufStruct
  <2>2. buf' = [buf EXCEPT ![b] = r]
    BY <1>1, Zenon DEF SubmitOn
  <2> HIDE DEF r
  <2>3. buf' \in [Bufs -> BufStruct] /\ buf'[b] = r /\ \A c \in Bufs : c # b => buf'[c] = buf[c]
    BY <2>1, <2>2, Zenon DEF Shape
  <2> QED
    BY <2>1, <2>3, Zenon
<1>6. /\ desc' \in [1..num -> DescStruct] /\ desc'[x].write = req[p].write /\ desc'[x].next = y
      /\ desc'[y].addr = b /\ desc'[y].next = z
      /\ \A d \in 1..num : d \notin {x, y} => desc'[d] = desc[d]
  <2> DEFINE r == [NoDesc EXCEPT !.write = req[p].write, !.next = y]
             t == [NoDesc EXCEPT !.addr = b, !.next = z]
  <2>1. NoDesc \in DescStruct
    BY <1>2 DEF NoDesc, DescStruct, None
  <2>2. req[p].write \in BOOLEAN /\ y \in 0..num /\ z \in 0..num
    BY <1>2, Facts DEF ReqStruct
  <2>3. r \in DescStruct /\ r.write = req[p].write /\ r.next = y
    BY <2>1, <2>2, Zenon DEF DescStruct
  <2>4. t \in DescStruct /\ t.addr = b /\ t.next = z
    BY <2>1, <2>2, Zenon DEF DescStruct
  <2>5. desc' = [desc EXCEPT ![x] = r, ![y] = t]
    BY <1>1, Zenon DEF SubmitOn
  <2> HIDE DEF r, t
  <2>6. desc' \in [1..num -> DescStruct] /\ desc'[x] = r /\ desc'[y] = t
        /\ \A d \in 1..num : d \notin {x, y} => desc'[d] = desc[d]
    BY <1>1, <1>2, <2>3, <2>4, <2>5, Zenon DEF Shape
  <2> QED
    BY <2>3, <2>4, <2>6, Zenon
<1>7. /\ info' \in [1..num -> Bufs \cup {None}] /\ info'[x] = b
      /\ \A d \in 1..num : d # x => info'[d] = info[d]
  BY <1>1, <1>2 DEF SubmitOn, Shape
<1>8. /\ avail' = Append(avail, x) /\ free' = free \ {x, y, z}
      /\ UNCHANGED <<lru, num, taken, used, irq, intr, fresh, panicked>>
  BY <1>1, Zenon DEF SubmitOn
<1>9. x \notin Open /\ \A q \in Waiting : Chain(q) \cap {x, y, z} = {}
  BY <1>1 DEF Queues, Chains, Chain
<1>10. /\ avail' \in Seq(1..num) /\ IsInjective(avail')
       /\ Pending' = Pending \cup {x} /\ Open' = Open \cup {x}
  <2>1. avail \in Seq(1..num) /\ IsInjective(avail) /\ x \notin Range(avail)
    BY <1>9, Zenon DEF Shape, Queues, Open, Pending
  <2>2. avail' \in Seq(1..num) /\ IsInjective(avail') /\ Range(avail') = Range(avail) \cup {x}
    BY <1>2, <1>8, <2>1, AppendFacts
  <2> QED
    BY <1>8, <2>2, Zenon DEF Open, Pending
<1>11. Waiting' = Waiting \cup {p} /\ p \notin Waiting
  BY <1>3, Zenon DEF Waiting
<1>12. Shape'
  <2>1. num' = num /\ ReqStruct' = ReqStruct /\ DescStruct' = DescStruct
    BY <1>8, Zenon DEF ReqStruct, DescStruct
  <2>2. lru' \in [Bufs -> Bufs] /\ IsInjective(lru') /\ fresh' \in [Blocks -> BOOLEAN]
    BY <1>8, Zenon DEF Shape
  <2>3. irq' \in BOOLEAN /\ intr' \in BOOLEAN /\ panicked' \in BOOLEAN
    BY <1>8, Zenon DEF Shape
  <2>4. num \in Nums /\ free' \subseteq 1..num /\ taken' \subseteq 1..num /\ used' \in Seq(1..num)
    BY <1>8, Zenon DEF Shape
  <2> QED
    BY <1>3, <1>4, <1>5, <1>6, <1>7, <1>10, <2>1, <2>2, <2>3, <2>4 DEF Shape
<1>13. Users'
  <2>1. \A q \in Procs : (Holds(q) <=> Holds(q)') /\ (pc[q] = "idle" <=> pc'[q] = "idle")
    BY <1>3, Zenon DEF Holds
  <2>2. \A q \in Procs :
          /\ IF pc'[q] = "idle" THEN req'[q].b = None
             ELSE req'[q].b \in Bufs /\ req'[q].block \in Blocks /\ buf'[req'[q].b].blockno = req'[q].block
          /\ Holds(q)' => buf'[req'[q].b].lock = q
    BY <1>4, <1>5, <2>1, Facts DEF Users, Holds
  <2>3. ASSUME NEW c \in Bufs, buf'[c].lock # None PROVE (Holds(buf[c].lock) /\ req[buf[c].lock].b = c)'
    <3>1. buf'[c].lock = buf[c].lock /\ buf[c].lock \in Procs /\ Holds(buf[c].lock) /\ req[buf[c].lock].b = c
      BY <1>5, <2>3, Facts DEF Users
    <3> QED
      BY <1>3, <1>4, <3>1 DEF Holds
  <2> QED
    BY <2>2, <2>3, Zenon DEF Users
<1>14. OneBuffer' /\ Counted'
  BY <1>4, <1>5, UsersFrame DEF OneBuffer, Counted
<1>15. \A q \in Waiting : q \in Procs /\ q # p /\ req'[q] = req[q] /\ pc'[q] = pc[q] /\ req[q].b # b
                          /\ req[q].b \in Bufs
  <2>1. Holds(p)
    BY Zenon DEF Holds
  <2>2. \A q \in Waiting : q \in Procs /\ q # p /\ req[q].b # b /\ req[q].b \in Bufs
    BY <1>0, <1>11, <2>1, WaitFacts, Zenon
  <2> QED
    BY <1>3, <1>4, <2>2, Zenon
<1>16. Queues'
  <2>1. /\ IsInjective(avail') /\ IsInjective(used')
        /\ taken' \cap Range(avail') = {} /\ Pending' \cap Range(used') = {}
    <3>1. Range(avail') = Range(avail) \cup {x}
      BY <1>2, <1>8, <1>9, AppendFacts DEF Shape, Queues, Open, Pending
    <3> QED
      BY <1>8, <1>9, <1>10, <3>1 DEF Queues, Open, Pending
  <2>2. \A d \in Open' : \E q \in Waiting' : req'[q].head = d
    BY <1>4, <1>10, <1>11, <1>15 DEF Queues
  <2>3. \A q \in Waiting' : buf'[req'[q].b].disk <=> req'[q].head \in Open'
    <3>1. \A q \in Waiting : req[q].head # x
      BY <1>9, Zenon DEF Chain
    <3>2. req'[p].b = b
      BY <1>0, <1>4, Zenon
    <3> QED
      BY <1>4, <1>5, <1>10, <1>11, <1>15, <3>1, <3>2 DEF Queues
  <2>4. \A c \in Bufs : buf'[c].disk => \E q \in Waiting' : req'[q].b = c
    BY <1>0, <1>4, <1>5, <1>11, <1>15 DEF Queues
  <2> QED
    BY <2>1, <2>2, <2>3, <2>4, Zenon DEF Queues
<1>17. Second(p)' = y /\ Third(p)' = z /\ Chain(p)' = {x, y, z}
  BY <1>4, <1>6, Zenon DEF Second, Third, Chain
<1>18. \A q \in Waiting : Second(q)' = Second(q) /\ Third(q)' = Third(q) /\ Chain(q)' = Chain(q)
                          /\ desc'[Second(q)] = desc[Second(q)]
                          /\ desc'[req[q].head] = desc[req[q].head]
  <2> SUFFICES ASSUME NEW q \in Waiting
               PROVE  /\ Second(q)' = Second(q) /\ Third(q)' = Third(q) /\ Chain(q)' = Chain(q)
                      /\ desc'[Second(q)] = desc[Second(q)]
                      /\ desc'[req[q].head] = desc[req[q].head]
    BY Zenon
  <2>1. /\ req[q].head \in 1..num /\ Second(q) \in 1..num
        /\ req[q].head \notin {x, y} /\ Second(q) \notin {x, y}
    BY <1>9, Zenon DEF Chains, Chain
  <2>2. desc'[Second(q)] = desc[Second(q)] /\ desc'[req[q].head] = desc[req[q].head]
    BY <1>6, <2>1, Zenon
  <2>3. Second(q)' = Second(q)
    BY <1>15, <2>2, Zenon DEF Second
  <2>4. Third(q)' = Third(q)
    BY <2>2, <2>3, Zenon DEF Third
  <2> QED
    BY <1>15, <2>2, <2>3, <2>4, Zenon DEF Chain
<1>20. Chains'
  <2>1. ASSUME NEW q \in Waiting' PROVE
       (/\ req[q].head \in 1..num /\ Second(q) \in 1..num /\ Third(q) \in 1..num
        /\ req[q].head # Second(q) /\ req[q].head # Third(q) /\ Second(q) # Third(q)
        /\ Chain(q) \cap free = {}
        /\ info[req[q].head] = req[q].b /\ desc[Second(q)].addr = req[q].b
        /\ desc[req[q].head].write = req[q].write)'
    <3>1. CASE q = p
      BY <1>0, <1>1, <1>2, <1>4, <1>6, <1>7, <1>8, <1>17, <3>1, Zenon
    <3>2. CASE q \in Waiting
      <4>1. req[q].head # x
        BY <1>9, <3>2, Zenon DEF Chain
      <4> QED
        BY <1>7, <1>8, <1>15, <1>18, <3>2, <4>1 DEF Chains
    <3> QED
      BY <1>11, <3>1, <3>2, Zenon
  <2>2. \A q, r \in Waiting' : q # r => Chain(q)' \cap Chain(r)' = {}
    BY <1>9, <1>11, <1>17, <1>18 DEF Chains
  <2>3. \A d \in (1..num \ free)' : \E q \in Waiting' : d \in Chain(q)'
    BY <1>8, <1>11, <1>17, <1>18 DEF Chains
  <2> QED
    BY <2>1, <2>2, <2>3, Zenon DEF Chains
<1>21. Fresh'
  <2>1. \A q \in Procs : Writer(q) => Writer(q)' /\ req'[q].b = req[q].b
    BY <1>3, <1>4, <1>10, Zenon DEF Writer
  <2>2. \A k \in Blocks : ~fresh'[k] => Kept(k)'
    BY <1>5, <1>8, <2>1, KeptFrame DEF Fresh
  <2>3. \A q \in Procs : pc[q] # "idle" => req[q].b \in Bufs
    BY Facts, Zenon
  <2>4. \A q \in Procs :
       /\ pc'[q] \in {"lock", "lockwait"} => ~req'[q].write
       /\ pc'[q] \in {"rw", "descwait", "rwwait"} => (req'[q].write <=> buf'[req'[q].b].valid)
       /\ pc'[q] = "hold" => buf'[req'[q].b].valid
    BY <1>3, <1>4, <1>5, <2>3 DEF Fresh
  <2>5. \A q \in Procs : pc'[q] = "rwwait" /\ req'[q].head \notin Pending' => buf'[req'[q].b].fresh
    BY <1>3, <1>4, <1>5, <1>10, <2>3 DEF Fresh
  <2> QED
    BY <1>5, <2>2, <2>4, <2>5, Zenon DEF Fresh
<1>22. NoneForgotten'
  BY <1>3, <1>4, <1>5, Facts DEF NoneForgotten
<1> QED
  BY <1>12, <1>13, <1>14, <1>16, <1>20, <1>21, <1>22, Zenon

\* A woken requester whose request is answered.
Finishes(p) == pc[p] = "rwwait" /\ ~buf[req[p].b].disk /\ Finish(p)

\* A woken requester goes on, or sleeps again.
LEMMA RwDoneCases ==
  ASSUME NEW p \in Procs, virtio_disk_rwDone(p)
  PROVE  \/ Finishes(p)
         \/ /\ pc[p] = "rwwait" /\ buf[req[p].b].disk /\ asleep' = asleep \cup {p}
            /\ UNCHANGED <<buf, lru, num, free, desc, info, avail, taken, used, irq, intr, fresh,
                           pc, req, panicked>>
  BY Zenon DEF virtio_disk_rwDone, Finishes, bio, queue, device

\* The requester takes its answered request back and frees the chain.
LEMMA FinishInv == ASSUME DiskInv, NEW p \in Procs, Finishes(p) PROVE DiskInv'
<1> USE DiskAssumption DEF DiskInv
<1>0. PICK b \in Bufs : b = req[p].b
  BY Facts, Zenon DEF Finishes
<1>1. p \in Waiting /\ ~buf[b].disk
  BY <1>0, Zenon DEF Finishes, Waiting
<1>2. PICK h \in 1..num, n \in 1..num, t \in 1..num :
        /\ h = req[p].head /\ n = Second(p) /\ t = Third(p) /\ h # n /\ h # t /\ n # t
        /\ Chain(p) = {h, n, t} /\ {h, n, t} \cap free = {} /\ h \notin Open
  <2>1. /\ req[p].head \in 1..num /\ Second(p) \in 1..num /\ Third(p) \in 1..num
        /\ req[p].head # Second(p) /\ req[p].head # Third(p) /\ Second(p) # Third(p)
        /\ Chain(p) \cap free = {}
    BY <1>1, Zenon DEF Chains
  <2>2. req[p].head \notin Open
    BY <1>0, <1>1, Zenon DEF Queues
  <2>3. Chain(p) = {req[p].head, Second(p), Third(p)}
    BY Zenon DEF Chain
  <2> HIDE DEF Chain, Second, Third
  <2> QED
    BY <2>1, <2>2, <2>3, Zenon
<1>3. /\ info' = [info EXCEPT ![h] = None] /\ free' = free \cup {h, n, t}
      /\ desc' = [d \in 1..num |-> IF d \in {h, n, t} THEN NoDesc ELSE desc[d]]
      /\ pc' = [Awake("descwait", None, "rw") EXCEPT ![p] = "hold"]
      /\ buf' = [buf EXCEPT ![b].valid = TRUE]
      /\ req' = [req EXCEPT ![p].head = None, ![p].write = FALSE]
  <2>1. free_chain(req[p].head) = {h, n, t}
    BY <1>2, Zenon DEF free_chain, Chain, Second, Third
  <2> QED
    BY <1>0, <1>2, <2>1, Zenon DEF Finishes, Finish
<1>4. UNCHANGED <<lru, num, avail, taken, used, irq, intr, fresh, panicked>>
  BY Zenon DEF Finishes, Finish, device, Rest
<1>5. num \in Nat /\ free \subseteq 1..num
  BY Zenon DEF Shape
<1>6. /\ pc' \in [Procs -> Places] /\ pc'[p] = "hold"
      /\ \A q \in Procs : q # p => pc'[q] = IF pc[q] = "descwait" THEN "rw" ELSE pc[q]
  BY <1>3, Zenon DEF Awake, Shape, Places
<1>7. /\ req' \in [Procs -> ReqStruct] /\ \A q \in Procs : q # p => req'[q] = req[q]
      /\ \A q \in Procs : req'[q].b = req[q].b /\ req'[q].block = req[q].block
  <2> DEFINE r == [req[p] EXCEPT !.head = None, !.write = FALSE]
  <2>1. r \in ReqStruct /\ r.b = req[p].b /\ r.block = req[p].block
    <3>1. req[p] \in ReqStruct /\ None \in 0..num
      BY <1>5, Facts DEF None
    <3> QED
      BY <3>1, Zenon DEF ReqStruct
  <2>2. req' = [req EXCEPT ![p] = r]
    BY <1>3, Zenon
  <2> HIDE DEF r
  <2>3. req' \in [Procs -> ReqStruct] /\ req'[p] = r /\ \A q \in Procs : q # p => req'[q] = req[q]
    BY <2>1, <2>2, Zenon DEF Shape
  <2> QED
    BY <2>1, <2>3, Zenon
<1>8. /\ buf' \in [Bufs -> BufStruct] /\ buf'[b].valid
      /\ \A c \in Bufs :
           /\ buf'[c].blockno = buf[c].blockno /\ buf'[c].disk = buf[c].disk
           /\ buf'[c].lock = buf[c].lock /\ buf'[c].refcnt = buf[c].refcnt
           /\ buf'[c].pinned = buf[c].pinned /\ buf'[c].fresh = buf[c].fresh
           /\ c # b => buf'[c].valid = buf[c].valid
  <2> DEFINE r == [buf[b] EXCEPT !.valid = TRUE]
  <2>1. /\ r \in BufStruct /\ r.blockno = buf[b].blockno /\ r.disk = buf[b].disk
        /\ r.lock = buf[b].lock /\ r.refcnt = buf[b].refcnt
        /\ r.pinned = buf[b].pinned /\ r.fresh = buf[b].fresh /\ r.valid
    <3>1. buf[b] \in BufStruct
      BY Facts, Zenon
    <3> QED
      BY <3>1, Zenon DEF BufStruct
  <2>2. buf' = [buf EXCEPT ![b] = r]
    BY <1>3, Zenon
  <2> HIDE DEF r
  <2>3. buf' \in [Bufs -> BufStruct] /\ buf'[b] = r /\ \A c \in Bufs : c # b => buf'[c] = buf[c]
    BY <2>1, <2>2, Zenon DEF Shape
  <2> QED
    BY <2>1, <2>3, Zenon
<1>9. /\ desc' \in [1..num -> DescStruct]
      /\ \A d \in 1..num : d \notin {h, n, t} => desc'[d] = desc[d]
  <2>1. NoDesc \in DescStruct
    BY <1>5 DEF NoDesc, DescStruct, None
  <2> QED
    BY <1>3, <2>1, Zenon DEF Shape
<1>10. /\ info' \in [1..num -> Bufs \cup {None}]
       /\ \A d \in 1..num : d # h => info'[d] = info[d]
  BY <1>3, Zenon DEF Shape
<1>11. Shape'
  <2>1. num' = num /\ ReqStruct' = ReqStruct /\ DescStruct' = DescStruct
    BY <1>4, Zenon DEF ReqStruct, DescStruct
  <2>2. lru' \in [Bufs -> Bufs] /\ IsInjective(lru') /\ fresh' \in [Blocks -> BOOLEAN]
    BY <1>4, Zenon DEF Shape
  <2>3. irq' \in BOOLEAN /\ intr' \in BOOLEAN /\ panicked' \in BOOLEAN
    BY <1>4, Zenon DEF Shape
  <2>4. /\ num \in Nums /\ free' \subseteq 1..num /\ taken' \subseteq 1..num
        /\ avail' \in Seq(1..num) /\ used' \in Seq(1..num)
    BY <1>3, <1>4, Zenon DEF Shape
  <2> QED
    BY <1>6, <1>7, <1>8, <1>9, <1>10, <2>1, <2>2, <2>3, <2>4, Zenon DEF Shape
<1>12. pc[p] = "rwwait" /\ Holds(p) /\ buf[b].lock = p
  BY <1>0, <1>1, WaitFacts, Zenon DEF Holds
<1>13. Users'
  <2>1. \A q \in Procs : (Holds(q) <=> Holds(q)') /\ (pc[q] = "idle" <=> pc'[q] = "idle")
    BY <1>6, <1>12, Zenon DEF Holds
  <2>2. \A q \in Procs :
          /\ IF pc'[q] = "idle" THEN req'[q].b = None
             ELSE req'[q].b \in Bufs /\ req'[q].block \in Blocks /\ buf'[req'[q].b].blockno = req'[q].block
          /\ Holds(q)' => buf'[req'[q].b].lock = q
    BY <1>7, <1>8, <2>1, Facts DEF Users, Holds
  <2>3. ASSUME NEW c \in Bufs, buf'[c].lock # None PROVE (Holds(buf[c].lock) /\ req[buf[c].lock].b = c)'
    <3>1. buf'[c].lock = buf[c].lock /\ buf[c].lock \in Procs /\ Holds(buf[c].lock) /\ req[buf[c].lock].b = c
      BY <1>8, <2>3, Facts DEF Users
    <3> QED
      BY <1>6, <1>7, <3>1 DEF Holds
  <2> QED
    BY <2>2, <2>3, Zenon DEF Users
<1>14. OneBuffer' /\ Counted'
  BY <1>7, <1>8, UsersFrame DEF OneBuffer, Counted
<1>15. Waiting' = Waiting \ {p}
  BY <1>6, Zenon DEF Waiting
<1>16. Pending' = Pending /\ Open' = Open
  BY <1>4, Zenon DEF Pending, Open
<1>17. \A q \in Waiting \ {p} : /\ q \in Procs /\ req'[q] = req[q] /\ req[q].b # b /\ req[q].b \in Bufs
                                /\ Chain(q) \cap {h, n, t} = {}
  BY <1>0, <1>1, <1>2, <1>7, WaitFacts DEF Chains
<1>18. Queues'
  <2>1. /\ IsInjective(avail') /\ IsInjective(used')
        /\ taken' \cap Range(avail') = {} /\ Pending' \cap Range(used') = {}
    BY <1>4, <1>16, Zenon DEF Queues
  <2>2. \A d \in Open' : \E q \in Waiting' : req'[q].head = d
    BY <1>2, <1>15, <1>16, <1>17 DEF Queues
  <2>3. \A q \in Waiting' : buf'[req'[q].b].disk <=> req'[q].head \in Open'
    BY <1>8, <1>15, <1>16, <1>17 DEF Queues
  <2>4. \A c \in Bufs : buf'[c].disk => \E q \in Waiting' : req'[q].b = c
    BY <1>0, <1>1, <1>8, <1>15, <1>17 DEF Queues
  <2> QED
    BY <2>1, <2>2, <2>3, <2>4, Zenon DEF Queues
<1>19. \A q \in Waiting \ {p} :
         /\ Second(q)' = Second(q) /\ Third(q)' = Third(q) /\ Chain(q)' = Chain(q)
         /\ desc'[Second(q)] = desc[Second(q)] /\ desc'[req[q].head] = desc[req[q].head]
  <2> SUFFICES ASSUME NEW q \in Waiting \ {p}
               PROVE  /\ Second(q)' = Second(q) /\ Third(q)' = Third(q) /\ Chain(q)' = Chain(q)
                      /\ desc'[Second(q)] = desc[Second(q)]
                      /\ desc'[req[q].head] = desc[req[q].head]
    BY Zenon
  <2>1. /\ req[q].head \in 1..num /\ Second(q) \in 1..num
        /\ req[q].head \notin {h, n, t} /\ Second(q) \notin {h, n, t}
    BY <1>17, Zenon DEF Chains, Chain
  <2>2. desc'[Second(q)] = desc[Second(q)] /\ desc'[req[q].head] = desc[req[q].head]
    BY <1>9, <2>1, Zenon
  <2>3. Second(q)' = Second(q)
    BY <1>17, <2>2, Zenon DEF Second
  <2>4. Third(q)' = Third(q)
    BY <2>2, <2>3, Zenon DEF Third
  <2> QED
    BY <1>17, <2>2, <2>3, <2>4, Zenon DEF Chain
<1>21. Chains'
  <2>1. ASSUME NEW q \in Waiting' PROVE
       (/\ req[q].head \in 1..num /\ Second(q) \in 1..num /\ Third(q) \in 1..num
        /\ req[q].head # Second(q) /\ req[q].head # Third(q) /\ Second(q) # Third(q)
        /\ Chain(q) \cap free = {}
        /\ info[req[q].head] = req[q].b /\ desc[Second(q)].addr = req[q].b
        /\ desc[req[q].head].write = req[q].write)'
    <3>1. q \in Waiting \ {p} /\ req[q].head # h /\ req[q].head \in 1..num
      BY <1>15, <1>17, Zenon DEF Chain, Chains
    <3>2. info'[req[q].head] = info[req[q].head] /\ req'[q] = req[q] /\ num' = num
      BY <1>4, <1>10, <1>17, <3>1, Zenon
    <3>3. /\ Second(q)' = Second(q) /\ Third(q)' = Third(q) /\ Chain(q)' = Chain(q)
          /\ desc'[Second(q)] = desc[Second(q)] /\ desc'[req[q].head] = desc[req[q].head]
      BY <1>19, <3>1, Zenon
    <3>4. Chain(q) \cap free' = {}
      BY <1>3, <1>17, <3>1, Zenon DEF Chains
    <3> QED
      BY <3>1, <3>2, <3>3, <3>4 DEF Chains
  <2>2. \A q, r \in Waiting' : q # r => Chain(q)' \cap Chain(r)' = {}
    BY <1>15, <1>19 DEF Chains
  <2>3. ASSUME NEW d \in (1..num \ free)' PROVE \E q \in Waiting' : d \in Chain(q)'
    <3>1. d \in 1..num \ free /\ d \notin {h, n, t}
      BY <1>3, <1>4, Zenon
    <3>2. PICK q \in Waiting : d \in Chain(q)
      BY <3>1, Zenon DEF Chains
    <3> QED
      BY <1>2, <1>15, <1>19, <3>1, <3>2
  <2> QED
    BY <2>1, <2>2, <2>3, Zenon DEF Chains
<1>22. Fresh'
  <2>1. buf[b].fresh /\ ~Writer(p)
    BY <1>0, <1>2, <1>12, Zenon DEF Fresh, Writer, Open
  <2>2. \A q \in Procs : Writer(q) => Writer(q)' /\ req'[q].b = req[q].b
    BY <1>6, <1>7, <1>16, <2>1, Zenon DEF Writer
  <2>3. \A k \in Blocks : ~fresh'[k] => Kept(k)'
    BY <1>4, <1>8, <2>2, KeptFrame, Zenon DEF Fresh
  <2>4. ASSUME NEW q \in Procs PROVE
       /\ pc'[q] \in {"lock", "lockwait"} => ~req'[q].write
       /\ pc'[q] \in {"rw", "descwait", "rwwait"} => (req'[q].write <=> buf'[req'[q].b].valid)
       /\ pc'[q] = "hold" => buf'[req'[q].b].valid
       /\ pc'[q] = "rwwait" /\ req'[q].head \notin Pending' => buf'[req'[q].b].fresh
    <3>1. CASE q = p
      BY <1>0, <1>6, <1>7, <1>8, <3>1, Zenon
    <3>2. CASE q # p
      <4>1. Holds(q) => req[q].b \in Bufs /\ req[q].b # b
        BY <1>0, <1>1, <3>2, WaitFacts, Facts, Zenon DEF Holds
      <4>2. req'[q] = req[q] /\ pc'[q] = IF pc[q] = "descwait" THEN "rw" ELSE pc[q]
        BY <1>6, <1>7, <3>2, Zenon
      <4>3. /\ pc[q] \in {"lock", "lockwait"} => ~req[q].write
            /\ pc[q] \in {"rw", "descwait", "rwwait"} => (req[q].write <=> buf[req[q].b].valid)
            /\ pc[q] = "hold" => buf[req[q].b].valid
            /\ pc[q] = "rwwait" /\ req[q].head \notin Pending => buf[req[q].b].fresh
        BY Zenon DEF Fresh
      <4>4. /\ Pending' = Pending
            /\ pc[q] \in {"rw", "descwait", "rwwait", "hold"} =>
                 /\ buf'[req[q].b].valid = buf[req[q].b].valid
                 /\ buf'[req[q].b].fresh = buf[req[q].b].fresh
        BY <1>8, <1>16, <4>1, Zenon DEF Holds
      <4> QED
        BY <4>2, <4>3, <4>4, Zenon
    <3> QED
      BY <3>1, <3>2, Zenon
  <2>5. \A c \in Bufs : buf'[c].valid => buf'[c].fresh
    BY <1>8, <2>1 DEF Fresh
  <2> QED
    BY <2>3, <2>4, <2>5, Zenon DEF Fresh
<1>23. NoneForgotten'
  BY <1>6, <1>7, <1>8, Facts DEF NoneForgotten
<1> QED
  BY <1>11, <1>13, <1>14, <1>18, <1>21, <1>22, <1>23, Zenon

-----------------------------------------------------------------------------
(* The interrupt handler and the device.                                   *)

\* A step of the interrupt handler or of the device that moves no process and
\* touches only the disk and fresh fields of the buffers keeps what relates
\* processes, buffers and descriptors.
LEMMA DeviceFrame ==
  ASSUME DiskInv, UNCHANGED <<lru, num, free, desc, info, pc, req>>,
         buf' \in [Bufs -> BufStruct],
         \A c \in Bufs : /\ buf'[c].blockno = buf[c].blockno /\ buf'[c].lock = buf[c].lock
                         /\ buf'[c].refcnt = buf[c].refcnt /\ buf'[c].pinned = buf[c].pinned
                         /\ buf'[c].valid = buf[c].valid
  PROVE  Users' /\ OneBuffer' /\ Counted' /\ Chains' /\ NoneForgotten' /\ Waiting' = Waiting
<1> USE DEF DiskInv
<1>1. \A q \in Procs : Holds(q)' <=> Holds(q)
  BY Zenon DEF Holds
<1>2. Users'
  <2>1. \A q \in Procs :
          /\ IF pc'[q] = "idle" THEN req'[q].b = None
             ELSE req'[q].b \in Bufs /\ req'[q].block \in Blocks /\ buf'[req'[q].b].blockno = req'[q].block
          /\ Holds(q)' => buf'[req'[q].b].lock = q
    BY <1>1, Facts DEF Users, Holds
  <2>2. ASSUME NEW c \in Bufs, buf'[c].lock # None PROVE (Holds(buf[c].lock) /\ req[buf[c].lock].b = c)'
    <3>1. buf'[c].lock = buf[c].lock /\ buf[c].lock \in Procs /\ Holds(buf[c].lock) /\ req[buf[c].lock].b = c
      BY <2>2, Facts, Zenon DEF Users
    <3> QED
      BY <3>1, Zenon DEF Holds
  <2> QED
    BY <2>1, <2>2, Zenon DEF Users
<1>3. OneBuffer' /\ Counted'
  BY UsersFrame DEF OneBuffer, Counted
<1>4. Waiting' = Waiting
  BY Zenon DEF Waiting
<1>5. \A q \in Waiting : Second(q)' = Second(q) /\ Third(q)' = Third(q) /\ Chain(q)' = Chain(q)
  BY Zenon DEF Second, Third, Chain
<1>6. Chains'
  BY <1>4, <1>5 DEF Chains
<1>7. NoneForgotten'
  BY Facts, Zenon DEF NoneForgotten
<1> QED
  BY <1>2, <1>3, <1>4, <1>6, <1>7, Zenon

\* Two requests that wait have different heads.
LEMMA HeadsDiffer ==
  ASSUME DiskInv, NEW p \in Waiting, NEW q \in Waiting, p # q PROVE req[p].head # req[q].head
<1>1. Chain(p) \cap Chain(q) = {}
  BY Zenon DEF DiskInv, Chains
<1> QED
  BY <1>1, Zenon DEF Chain

\* The device takes the oldest request: which requests are open does not change.
LEMMA TakeInv == ASSUME DiskInv, DeviceTake PROVE DiskInv'
<1> USE DiskAssumption DEF DiskInv
<1>1. /\ taken' = taken \cup {Head(avail)} /\ avail' = Tail(avail)
      /\ UNCHANGED <<buf, lru, num, free, desc, info, used, irq, intr, fresh, pc, req, panicked>>
  BY Zenon DEF DeviceTake, bio, Rest
<1>2. avail # <<>> /\ avail \in Seq(1..num) /\ IsInjective(avail)
  BY Zenon DEF DeviceTake, Shape, Queues
<1>3. /\ avail' \in Seq(1..num) /\ IsInjective(avail') /\ Head(avail) \in Range(avail)
      /\ Head(avail) \in 1..num /\ Range(avail') = Range(avail) \ {Head(avail)}
  BY <1>1, <1>2, TailFacts, Zenon
<1>4. taken' \subseteq 1..num /\ taken' \cap Range(avail') = {}
  BY <1>1, <1>3, Zenon DEF Shape, Queues
<1>5. Pending' = Pending /\ Open' = Open
  BY <1>1, <1>3, Zenon DEF Pending, Open
<1>6. /\ Users' /\ OneBuffer' /\ Counted' /\ Chains' /\ NoneForgotten' /\ Waiting' = Waiting
  BY <1>1, DeviceFrame, Zenon DEF Shape
<1>7. Shape'
  BY <1>1, <1>3, <1>4, Zenon DEF Shape, ReqStruct, DescStruct
<1>8. Queues'
  BY <1>1, <1>3, <1>4, <1>5, <1>6, Zenon DEF Queues
<1>9. Fresh'
  <2>1. \A q \in Procs : Writer(q) => Writer(q)' /\ req'[q].b = req[q].b
    BY <1>1, <1>5, Zenon DEF Writer
  <2>2. \A k \in Blocks : ~fresh'[k] => Kept(k)'
    BY <1>1, <2>1, KeptFrame, Zenon DEF Fresh
  <2> QED
    BY <1>1, <1>5, <2>2, Zenon DEF Fresh
<1> QED
  BY <1>6, <1>7, <1>8, <1>9, Zenon

\* The handler releases the buffer of the answered request at the head.
LEMMA IntrEntryInv == ASSUME DiskInv, virtio_disk_intrEntry PROVE DiskInv'
<1> USE DiskAssumption DEF DiskInv
<1> DEFINE d == Head(used)
<1>1. /\ buf' = [buf EXCEPT ![info[d]].disk = FALSE] /\ used' = Tail(used)
      /\ UNCHANGED <<lru, num, free, desc, info, avail, taken, irq, intr, fresh, pc, req, panicked>>
  BY Zenon DEF virtio_disk_intrEntry, queue, Rest
<1>2. used # <<>> /\ used \in Seq(1..num) /\ IsInjective(used)
  BY Zenon DEF virtio_disk_intrEntry, Shape, Queues
<1>3. /\ used' \in Seq(1..num) /\ IsInjective(used') /\ d \in Range(used)
      /\ d \in 1..num /\ Range(used') = Range(used) \ {d}
  BY <1>1, <1>2, TailFacts, Zenon
<1> HIDE DEF d
<1>4. PICK p \in Waiting : req[p].head = d
  BY <1>3, Zenon DEF Queues, Open
<1>5. PICK b \in Bufs : b = req[p].b
  BY WaitFacts, Zenon
<1>6. info[d] = b
  BY <1>4, <1>5, Zenon DEF Chains
<1>7. /\ buf' \in [Bufs -> BufStruct] /\ ~buf'[b].disk
      /\ \A c \in Bufs :
           /\ buf'[c].blockno = buf[c].blockno /\ buf'[c].lock = buf[c].lock
           /\ buf'[c].refcnt = buf[c].refcnt /\ buf'[c].pinned = buf[c].pinned
           /\ buf'[c].valid = buf[c].valid /\ buf'[c].fresh = buf[c].fresh
           /\ c # b => buf'[c].disk = buf[c].disk
  <2> DEFINE r == [buf[b] EXCEPT !.disk = FALSE]
  <2>1. /\ r \in BufStruct /\ r.blockno = buf[b].blockno /\ r.valid = buf[b].valid
        /\ r.lock = buf[b].lock /\ r.refcnt = buf[b].refcnt
        /\ r.pinned = buf[b].pinned /\ r.fresh = buf[b].fresh /\ ~r.disk
    <3>1. buf[b] \in BufStruct
      BY Facts, Zenon
    <3> QED
      BY <3>1, Zenon DEF BufStruct
  <2>2. buf' = [buf EXCEPT ![b] = r]
    BY <1>1, <1>6, Zenon
  <2> HIDE DEF r
  <2>3. buf' \in [Bufs -> BufStruct] /\ buf'[b] = r /\ \A c \in Bufs : c # b => buf'[c] = buf[c]
    BY <2>1, <2>2, Zenon DEF Shape
  <2> QED
    BY <2>1, <2>3, Zenon
<1>8. Users' /\ OneBuffer' /\ Counted' /\ Chains' /\ NoneForgotten' /\ Waiting' = Waiting
  BY <1>1, <1>7, DeviceFrame, Zenon
<1>9. Shape'
  <2>1. num' = num /\ ReqStruct' = ReqStruct /\ DescStruct' = DescStruct
    BY <1>1, Zenon DEF ReqStruct, DescStruct
  <2>2. lru' \in [Bufs -> Bufs] /\ IsInjective(lru') /\ fresh' \in [Blocks -> BOOLEAN]
    BY <1>1, Zenon DEF Shape
  <2>3. irq' \in BOOLEAN /\ intr' \in BOOLEAN /\ panicked' \in BOOLEAN
    BY <1>1, Zenon DEF Shape
  <2> QED
    BY <1>1, <1>3, <1>7, <2>1, <2>2, <2>3, Zenon DEF Shape
<1>10. Pending' = Pending /\ Open' = Open \ {d}
  BY <1>1, <1>3 DEF Pending, Open, Queues
<1>11. \A q \in Waiting : /\ req[q].b \in Bufs
                          /\ q # p => req[q].b # b /\ req[q].head # d
  BY <1>4, <1>5, WaitFacts, HeadsDiffer, Zenon
<1>12. Queues'
  <2>1. /\ IsInjective(avail') /\ IsInjective(used')
        /\ taken' \cap Range(avail') = {} /\ Pending' \cap Range(used') = {}
    BY <1>1, <1>3, <1>10, Zenon DEF Queues
  <2>2. \A e \in Open' : \E q \in Waiting' : req'[q].head = e
    BY <1>1, <1>8, <1>10, Zenon DEF Queues
  <2>3. \A q \in Waiting' : buf'[req'[q].b].disk <=> req'[q].head \in Open'
    <3> SUFFICES ASSUME NEW q \in Waiting PROVE buf'[req[q].b].disk <=> req[q].head \in Open \ {d}
      BY <1>1, <1>8, <1>10, Zenon
    <3>1. CASE q = p
      BY <1>4, <1>5, <1>7, <3>1, Zenon
    <3>2. CASE q # p
      BY <1>7, <1>11, <3>2, Zenon DEF Queues
    <3> QED
      BY <3>1, <3>2, Zenon
  <2>4. \A c \in Bufs : buf'[c].disk => \E q \in Waiting' : req'[q].b = c
    BY <1>1, <1>7, <1>8 DEF Queues
  <2> QED
    BY <2>1, <2>2, <2>3, <2>4, Zenon DEF Queues
<1>13. Fresh'
  <2>1. \A q \in Procs : Writer(q) => Writer(q)' /\ req'[q].b = req[q].b
    BY <1>1, <1>10, Zenon DEF Writer
  <2>2. \A k \in Blocks : ~fresh'[k] => Kept(k)'
    BY <1>1, <1>7, <2>1, KeptFrame DEF Fresh
  <2>3. \A q \in Procs : pc[q] # "idle" => req[q].b \in Bufs
    BY Facts, Zenon
  <2> QED
    BY <1>1, <1>7, <1>10, <2>2, <2>3 DEF Fresh
<1> QED
  BY <1>8, <1>9, <1>12, <1>13, Zenon

\* The device answers a request: a block it writes gets the newest content,
\* and a block it reads was the newest content already, since a block whose
\* latest write is not on disk has a valid buffer and is not read again.
LEMMA AnswerInv == ASSUME DiskInv, NEW d \in Descs, DeviceAnswer(d) PROVE DiskInv'
<1> USE DiskAssumption DEF DiskInv
<1>1. d \in taken /\ d \in Pending /\ d \in Open /\ d \in 1..num
  BY Zenon DEF DeviceAnswer, Pending, Open, Shape
<1>2. PICK p \in Waiting : req[p].head = d
  BY <1>1, Zenon DEF Queues
<1>3. PICK b \in Bufs : b = req[p].b
  BY WaitFacts, Zenon
<1>4. PICK k \in Blocks : buf[b].blockno = k
  BY <1>3, WaitFacts, Zenon DEF Users
<1>5. p \in Procs /\ pc[p] = "rwwait" /\ buf[b].lock = p
  BY <1>3, WaitFacts, Zenon
<1>6. desc[desc[d].next].addr = b /\ desc[d].write = req[p].write
  BY <1>2, <1>3, Zenon DEF Chains, Second
<1>7. /\ taken' = taken \ {d} /\ used' = Append(used, d) /\ irq' = TRUE
      /\ UNCHANGED <<lru, num, free, desc, info, avail, intr, pc, req, panicked>>
      /\ IF req[p].write THEN fresh' = [fresh EXCEPT ![k] = buf[b].fresh] /\ UNCHANGED buf
         ELSE buf' = [buf EXCEPT ![b].fresh = fresh[k]] /\ UNCHANGED fresh
  BY <1>4, <1>6, Zenon DEF DeviceAnswer, queue, Rest
<1>8. req[p].write <=> buf[b].valid
  BY <1>3, <1>5, Zenon DEF Fresh
<1>9. /\ used' \in Seq(1..num) /\ IsInjective(used') /\ Range(used') = Range(used) \cup {d}
  <2> DEFINE D == 1..num
  <2>1. used \in Seq(D) /\ IsInjective(used) /\ d \notin Range(used) /\ d \in D
    BY <1>1, Zenon DEF Shape, Queues
  <2> HIDE DEF D
  <2>2. /\ Append(used, d) \in Seq(D) /\ IsInjective(Append(used, d))
        /\ Range(Append(used, d)) = Range(used) \cup {d}
    BY <2>1, AppendFacts
  <2> QED
    BY <1>7, <2>2, Zenon DEF D
<1>10. Pending' = Pending \ {d} /\ Open' = Open
  <2>1. taken \cap Range(avail) = {} /\ avail' = avail
    BY <1>7, Zenon DEF Queues
  <2>2. Pending' = Pending \ {d}
    BY <1>1, <1>7, <2>1, Zenon DEF Pending
  <2>3. Open' = Pending' \cup Range(used')
    BY Zenon DEF Open
  <2>4. Open = Pending \cup Range(used)
    BY Zenon DEF Open
  <2> QED
    BY <1>1, <1>9, <2>2, <2>3, <2>4, Zenon
<1>11. /\ buf' \in [Bufs -> BufStruct] /\ fresh' \in [Blocks -> BOOLEAN]
       /\ \A c \in Bufs :
            /\ buf'[c].blockno = buf[c].blockno /\ buf'[c].lock = buf[c].lock
            /\ buf'[c].refcnt = buf[c].refcnt /\ buf'[c].pinned = buf[c].pinned
            /\ buf'[c].valid = buf[c].valid /\ buf'[c].disk = buf[c].disk
            /\ c # b => buf'[c].fresh = buf[c].fresh
       /\ buf'[b].fresh
       /\ \A j \in Blocks : fresh[j] => fresh'[j]
       /\ req[p].write => fresh'[k]
  <2>1. CASE req[p].write
    <3>1. buf[b].fresh /\ buf' = buf /\ fresh' = [fresh EXCEPT ![k] = buf[b].fresh]
      BY <1>7, <1>8, <2>1, Zenon DEF Fresh
    <3>2. buf[b].fresh \in BOOLEAN
      BY Facts, Zenon DEF BufStruct
    <3>3. fresh' \in [Blocks -> BOOLEAN] /\ fresh'[k] /\ \A j \in Blocks : fresh[j] => fresh'[j]
      BY <3>1, <3>2, Zenon DEF Shape
    <3> QED
      BY <3>1, <3>3, Zenon DEF Shape
  <2>2. CASE ~req[p].write
    <3>1. fresh' = fresh /\ buf' = [buf EXCEPT ![b].fresh = fresh[k]] /\ ~buf[b].valid
      BY <1>7, <1>8, <2>2, Zenon
    <3>2. fresh[k]
      <4>1. SUFFICES ASSUME ~fresh[k] PROVE FALSE
        BY Zenon
      <4>2. PICK c \in Bufs : buf[c].blockno = k /\ buf[c].valid
        BY <4>1, Zenon DEF Fresh, Kept
      <4>3. c = b
        BY <1>4, <4>2, Facts, Zenon DEF OneBuffer
      <4> QED
        BY <3>1, <4>2, <4>3, Zenon
    <3> DEFINE r == [buf[b] EXCEPT !.fresh = fresh[k]]
    <3>3. /\ r \in BufStruct /\ r.blockno = buf[b].blockno /\ r.valid = buf[b].valid
          /\ r.lock = buf[b].lock /\ r.refcnt = buf[b].refcnt
          /\ r.pinned = buf[b].pinned /\ r.disk = buf[b].disk /\ r.fresh
      <4>1. buf[b] \in BufStruct /\ fresh[k] \in BOOLEAN
        BY Facts, Zenon DEF Shape
      <4> QED
        BY <3>2, <4>1, Zenon DEF BufStruct
    <3>4. buf' = [buf EXCEPT ![b] = r]
      BY <3>1, Zenon
    <3> HIDE DEF r
    <3>5. buf' \in [Bufs -> BufStruct] /\ buf'[b] = r /\ \A c \in Bufs : c # b => buf'[c] = buf[c]
      BY <3>3, <3>4, Zenon DEF Shape
    <3> QED
      BY <2>2, <3>1, <3>3, <3>5, Zenon DEF Shape
  <2> QED
    BY <2>1, <2>2, Zenon
<1>12. Users' /\ OneBuffer' /\ Counted' /\ Chains' /\ NoneForgotten' /\ Waiting' = Waiting
  BY <1>7, <1>11, DeviceFrame, Zenon
<1>13. Shape'
  <2>1. num' = num /\ ReqStruct' = ReqStruct /\ DescStruct' = DescStruct
    BY <1>7, Zenon DEF ReqStruct, DescStruct
  <2>2. lru' \in [Bufs -> Bufs] /\ IsInjective(lru') /\ taken' \subseteq 1..num
    BY <1>7, Zenon DEF Shape
  <2>3. irq' \in BOOLEAN /\ intr' \in BOOLEAN /\ panicked' \in BOOLEAN
    BY <1>7, Zenon DEF Shape
  <2> QED
    BY <1>7, <1>9, <1>11, <2>1, <2>2, <2>3, Zenon DEF Shape
<1>14. \A q \in Waiting : req[q].b \in Bufs
  BY WaitFacts, Zenon
<1>15. Queues'
  <2>1. /\ IsInjective(avail') /\ IsInjective(used')
        /\ taken' \cap Range(avail') = {} /\ Pending' \cap Range(used') = {}
    BY <1>7, <1>9, <1>10, Zenon DEF Queues
  <2> QED
    BY <1>7, <1>10, <1>11, <1>12, <1>14, <2>1, Zenon DEF Queues
<1>16. \A q \in Procs : Writer(q) /\ q # p => Writer(q)'
  <2>1. \A q \in Waiting : q # p => req[q].head # d
    BY <1>2, HeadsDiffer, Zenon
  <2> QED
    BY <1>7, <1>10, <2>1, Zenon DEF Writer, Waiting
<1>17. ASSUME NEW j \in Blocks, ~fresh'[j] PROVE Kept(j)'
  <2>1. ~fresh[j] /\ (req[p].write => j # k)
    BY <1>11, <1>17, Zenon
  <2>2. PICK c \in Bufs : /\ buf[c].blockno = j /\ buf[c].valid
                          /\ buf[c].pinned \/ \E q \in Procs : req[q].b = c /\ Writer(q)
    BY <2>1, Zenon DEF Fresh, Kept
  <2>3. \A q \in Procs : req[q].b = c /\ Writer(q) => q # p
    BY <1>3, <1>4, <2>1, <2>2, Zenon DEF Writer
  <2> QED
    BY <1>7, <1>11, <1>16, <2>2, <2>3, Zenon DEF Kept
<1>18. ASSUME NEW q \in Procs PROVE
     /\ pc'[q] \in {"lock", "lockwait"} => ~req'[q].write
     /\ pc'[q] \in {"rw", "descwait", "rwwait"} => (req'[q].write <=> buf'[req'[q].b].valid)
     /\ pc'[q] = "hold" => buf'[req'[q].b].valid
     /\ pc'[q] = "rwwait" /\ req'[q].head \notin Pending' => buf'[req'[q].b].fresh
  <2>1. pc[q] # "idle" => req[q].b \in Bufs
    BY Facts, Zenon
  <2>2. pc[q] = "rwwait" /\ req[q].head \notin Pending' => buf'[req[q].b].fresh
    <3>1. CASE q = p
      BY <1>3, <1>11, <3>1, Zenon
    <3>2. CASE q # p
      <4>1. pc[q] = "rwwait" => req[q].head # d
        BY <1>2, <3>2, HeadsDiffer, Zenon DEF Waiting
      <4> QED
        BY <1>10, <1>11, <2>1, <4>1, Zenon DEF Fresh
    <3> QED
      BY <3>1, <3>2, Zenon
  <2> QED
    BY <1>7, <1>11, <2>1, <2>2 DEF Fresh
<1>19. Fresh'
  BY <1>11, <1>17, <1>18, Zenon DEF Fresh
<1> QED
  BY <1>12, <1>13, <1>15, <1>19, Zenon

-----------------------------------------------------------------------------
(* What follows needs the theorems about finite sets.                      *)
INSTANCE FiniteSetTheorems

\* A set of naturals has a least element.
LEMMA LeastIn ==
  ASSUME NEW S, S \subseteq Nat, S # {}
  PROVE  Least(S) \in S /\ \A e \in S : Least(S) <= e
<1> DEFINE Below == {0..x : x \in S}
           R == StrictSubsetOrdering(Nat)
           F == FiniteSubsetsOf(Nat)
<1>1. IsWellFoundedOn(R, F)
  BY FS_StrictSubsetOrderingWellFounded, Zenon
<1>2. Below \subseteq F
  <2>1. \A x \in S : IsFiniteSet(0..x) /\ (0..x) \in SUBSET Nat
    BY FS_Interval
  <2> QED
    BY <2>1, Zenon DEF FiniteSubsetsOf
<1>3. Below # {}
  BY Zenon
<1>4. \E t \in Below : \A u \in Below : ~(<<u, t>> \in R)
  <2> HIDE DEF Below, R, F
  <2> QED
    BY <1>1, <1>2, <1>3, WFMin, Zenon
<1>5. PICK x \in S : \A u \in Below : ~(<<u, 0..x>> \in R)
  BY <1>4, Zenon
<1>6. ASSUME NEW y \in S PROVE x <= y
  <2>1. x \in Nat /\ y \in Nat
    BY Zenon
  <2>2. SUFFICES ASSUME y < x PROVE FALSE
    BY <2>1
  <2>3. (0..y) \subseteq (0..x) /\ x \in 0..x /\ x \notin 0..y
    BY <2>1, <2>2
  <2>4. 0..y # 0..x
    BY <2>3, Zenon
  <2>5. (0..y) \in SUBSET Nat /\ (0..x) \in SUBSET Nat
    BY <2>1
  <2>6. <<0..y, 0..x>> \in R
    BY <2>3, <2>4, <2>5, Zenon DEF StrictSubsetOrdering
  <2> QED
    BY <2>6, <1>5, Zenon
<1> QED
  BY <1>6, Zenon DEF Least

\* bget's victim is a buffer without a user.
LEMMA VictimUnused ==
  ASSUME DiskInv, Unused # {}
  PROVE  Victim \in Bufs /\ buf[Victim].refcnt = 0
<1> DEFINE S == {NBUF - i : i \in Unused}
<1>1. Unused \subseteq 1..NBUF /\ NBUF \in Nat
  BY DiskAssumption, Zenon DEF Unused, Bufs
<1>2. S \subseteq Nat /\ S # {}
  <2>1. \A i \in Unused : NBUF - i \in Nat
    BY <1>1
  <2> QED
    BY <2>1, Zenon
<1>3. PICK m \in S : \A e \in S : m <= e
  <2> HIDE DEF S
  <2> QED
    BY <1>2, LeastIn, Zenon
<1>4. PICK i \in Unused : m = NBUF - i
  BY Zenon
<1>5. ASSUME NEW j \in Unused PROVE j <= i
  <2>1. NBUF - j \in S
    BY Zenon
  <2>2. NBUF - i <= NBUF - j
    BY <1>3, <1>4, <2>1, Zenon
  <2>3. i \in Nat /\ j \in Nat /\ NBUF \in Nat
    BY <1>1
  <2> HIDE DEF S
  <2> QED
    BY <2>2, <2>3
<1>6. (CHOOSE x \in Unused : \A j \in Unused : j <= x) \in Unused
  BY <1>5, Zenon
<1> QED
  BY <1>6, Zenon DEF Victim, Unused, DiskInv, Shape

\* Moving a buffer to the front of the list leaves it a list of all buffers.
LEMMA ToFrontShape ==
  ASSUME lru \in [Bufs -> Bufs], IsInjective(lru), NEW b \in Bufs
  PROVE  ToFront(b) \in [Bufs -> Bufs] /\ IsInjective(ToFront(b))
<1>1. \E i \in Bufs : lru[i] = b
  <2>1. IsFiniteSet(Bufs)
    BY DiskAssumption, FS_Interval DEF Bufs
  <2>2. lru \in Injection(Bufs, Bufs)
    BY Zenon DEF Injection
  <2>3. lru \in Surjection(Bufs, Bufs)
    BY <2>1, <2>2, FS_Injection, Zenon
  <2> QED
    BY <2>3, Zenon DEF Surjection
<1> DEFINE at == CHOOSE i \in Bufs : lru[i] = b
           new == ToFront(b)
<1>2. at \in Bufs /\ lru[at] = b
  BY <1>1, Zenon
<1>3. new = [i \in Bufs |-> IF i = 1 THEN b ELSE IF i <= at THEN lru[i - 1] ELSE lru[i]]
  BY Zenon DEF ToFront
<1> HIDE DEF at, new
<1>4. \A i \in Bufs : i # 1 => i - 1 \in Bufs
  BY DiskAssumption DEF Bufs
<1>5. new \in [Bufs -> Bufs]
  BY <1>3, <1>4, Zenon
<1>6. Bufs \subseteq Nat
  BY DEF Bufs
<1>7. \A i, j \in Bufs : new[i] = new[j] => i = j
  <2> SUFFICES ASSUME NEW i \in Bufs, NEW j \in Bufs, new[i] = new[j] PROVE i = j
    BY Zenon
  <2> DEFINE old(x) == IF x = 1 THEN at ELSE IF x <= at THEN x - 1 ELSE x
  <2>1. \A x \in Bufs : old(x) \in Bufs /\ new[x] = lru[old(x)]
    BY <1>2, <1>3, <1>4, Zenon
  <2>2. old(i) = old(j)
    <3> HIDE DEF old
    <3> QED
      BY <2>1, Zenon DEF IsInjective
  <2> QED
    BY <1>2, <1>6, <2>2
<1> QED
  BY <1>5, <1>7, Zenon DEF IsInjective, new

-----------------------------------------------------------------------------
(* Taking, pinning and releasing a buffer.                                 *)

\* A process that gets a buffer in bget is a user more of that buffer.
LEMMA UserJoins ==
  ASSUME DiskInv, NEW p \in Procs, pc[p] = "idle", NEW b \in Bufs,
         req' \in [Procs -> ReqStruct], req'[p].b = b,
         \A q \in Procs : q # p => req'[q] = req[q]
  PROVE  /\ IsFiniteSet(UsersOf(b)) /\ Cardinality(UsersOf(b)) \in Nat
         /\ Cardinality(UsersOf(b)') = Cardinality(UsersOf(b)) + 1
         /\ Cardinality(UsersOf(b)') <= Cardinality(Procs) /\ Cardinality(Procs) \in Nat
         /\ \A c \in Bufs : c # b => UsersOf(c)' = UsersOf(c)
<1>1. req[p].b = None /\ None \notin Bufs
  BY Facts, Zenon DEF DiskInv, Users
<1>2. UsersOf(b)' = UsersOf(b) \cup {p} /\ p \notin UsersOf(b)
  BY <1>1, Zenon DEF UsersOf
<1>3. UsersOf(b) \in SUBSET Procs /\ UsersOf(b)' \in SUBSET Procs
  BY Zenon DEF UsersOf
<1>4. IsFiniteSet(UsersOf(b)) /\ IsFiniteSet(Procs)
  BY <1>3, DiskAssumption, FS_Subset, Zenon
<1>5. Cardinality(UsersOf(b)) \in Nat /\ Cardinality(Procs) \in Nat
  BY <1>4, FS_CardinalityType, Zenon
<1>6. Cardinality(UsersOf(b)') = Cardinality(UsersOf(b)) + 1
  BY <1>2, <1>4, FS_AddElement, Zenon
<1>7. Cardinality(UsersOf(b)') <= Cardinality(Procs)
  BY <1>3, <1>4, FS_Subset, Zenon
<1>8. \A c \in Bufs : c # b => UsersOf(c)' = UsersOf(c)
  BY <1>1, Zenon DEF UsersOf
<1> QED
  BY <1>4, <1>5, <1>6, <1>7, <1>8, Zenon

\* A buffer that nobody counts has no user, no holder and no request.
LEMMA UnusedFacts ==
  ASSUME DiskInv, NEW b \in Bufs, buf[b].refcnt = 0
  PROVE  /\ UsersOf(b) = {} /\ ~buf[b].pinned /\ buf[b].lock = None /\ ~buf[b].disk
         /\ \A p \in Procs : req[p].b # b
<1>1. UsersOf(b) \in SUBSET Procs
  BY Zenon DEF UsersOf
<1>2. IsFiniteSet(UsersOf(b))
  BY <1>1, DiskAssumption, FS_Subset, Zenon
<1>3. Cardinality(UsersOf(b)) \in Nat
  BY <1>2, FS_CardinalityType, Zenon
<1>4. Cardinality(UsersOf(b)) = 0 /\ ~buf[b].pinned
  BY <1>3 DEF DiskInv, Counted
<1>5. UsersOf(b) = {}
  BY <1>2, <1>4, FS_EmptySet, Zenon
<1>6. \A p \in Procs : req[p].b # b
  BY <1>5, Zenon DEF UsersOf
<1>7. buf[b].lock = None
  BY <1>6, Facts, Zenon DEF DiskInv, Users
<1>8. ~buf[b].disk
  BY <1>6, Zenon DEF DiskInv, Queues, Waiting
<1> QED
  BY <1>4, <1>5, <1>6, <1>7, <1>8, Zenon

\* What bget does to the buffer it takes.
BgetOn(p, k, b) ==
  /\ req' = [req EXCEPT ![p] = [NoReq EXCEPT !.block = k, !.b = b]]
  /\ buf' = [buf EXCEPT ![b] =
       IF buf[b].blockno = k THEN [buf[b] EXCEPT !.refcnt = buf[b].refcnt + 1]
       ELSE [buf[b] EXCEPT !.blockno = k, !.valid = FALSE, !.fresh = FALSE, !.refcnt = 1]]
  /\ buf[b].blockno # k => buf[b].refcnt = 0 /\ \A c \in Bufs : buf[c].blockno # k

\* bget takes a cached buffer of the block, or recycles one that nobody uses.
LEMMA BgetEffect ==
  ASSUME DiskInv, NEW p \in Procs, NEW k \in Blocks, bget(p, k)
  PROVE  \E b \in Bufs : BgetOn(p, k, b)
<1>1. PICK b \in Cached(k) \cup {Victim : i \in Unused} :
       /\ Cached(k) # {} => b \in Cached(k)
       /\ buf' = [buf EXCEPT ![b] =
            IF b \in Cached(k) THEN [@ EXCEPT !.refcnt = buf[b].refcnt + 1]
            ELSE [@ EXCEPT !.blockno = k, !.valid = FALSE, !.fresh = FALSE, !.refcnt = 1]]
       /\ req' = [req EXCEPT ![p] = [NoReq EXCEPT !.block = k, !.b = b]]
  BY Zenon DEF bget
<1>2. b \notin Cached(k) => Cached(k) = {} /\ b \in Bufs /\ buf[b].refcnt = 0
  BY <1>1, VictimUnused, Zenon
<1>3. b \in Bufs /\ (b \in Cached(k) <=> buf[b].blockno = k)
  BY <1>2, Zenon DEF Cached
<1>4. buf[b].blockno # k => buf[b].refcnt = 0 /\ \A c \in Bufs : buf[c].blockno # k
  BY <1>2, <1>3 DEF Cached
<1>5. BgetOn(p, k, b)
  <2>1. CASE b \in Cached(k)
    <3>1. buf' = [buf EXCEPT ![b] = [buf[b] EXCEPT !.refcnt = buf[b].refcnt + 1]]
      BY <1>1, <2>1, Zenon
    <3> QED
      BY <1>1, <1>3, <2>1, <3>1, Zenon DEF BgetOn
  <2>2. CASE b \notin Cached(k)
    <3>1. buf' = [buf EXCEPT ![b] = [buf[b] EXCEPT !.blockno = k, !.valid = FALSE,
                                                   !.fresh = FALSE, !.refcnt = 1]]
      BY <1>1, <2>2, Zenon
    <3> QED
      BY <1>1, <1>3, <1>4, <2>2, <3>1, Zenon DEF BgetOn
  <2> QED
    BY <2>1, <2>2, Zenon
<1> QED
  BY <1>3, <1>5, Zenon

\* bget keeps the invariant, whether the block is cached or a buffer is recycled.
LEMMA BgetInv == ASSUME DiskInv, NEW p \in Procs, NEW k \in Blocks, bget(p, k) PROVE DiskInv'
<1> USE DiskAssumption DEF DiskInv
<1>1. PICK b \in Bufs : BgetOn(p, k, b)
  BY BgetEffect, Zenon
<1>2. pc[p] = "idle" /\ pc' = [pc EXCEPT ![p] = "lock"]
  BY Zenon DEF bget, Goto
<1>3. UNCHANGED <<lru, num, free, desc, info, avail, taken, used, irq, intr, fresh, panicked>>
  BY Zenon DEF bget, queue, device, Rest
<1>4. /\ pc' \in [Procs -> Places] /\ pc'[p] = "lock"
      /\ \A q \in Procs : q # p => pc'[q] = pc[q]
  BY <1>2, Zenon DEF Shape, Places
<1>5. /\ req' \in [Procs -> ReqStruct] /\ req'[p].b = b /\ req'[p].block = k /\ ~req'[p].write
      /\ \A q \in Procs : q # p => req'[q] = req[q]
  <2>1. num \in Nat
    BY Zenon DEF Shape
  <2> DEFINE r == [NoReq EXCEPT !.block = k, !.b = b]
  <2>2. r \in ReqStruct /\ r.b = b /\ r.block = k /\ ~r.write
    <3>1. NoReq \in ReqStruct /\ ~NoReq.write
      BY <2>1 DEF ReqStruct, NoReq, None
    <3> QED
      BY <3>1, Zenon DEF ReqStruct
  <2>3. req' = [req EXCEPT ![p] = r]
    BY <1>1, Zenon DEF BgetOn
  <2> HIDE DEF r
  <2> QED
    BY <2>2, <2>3, Zenon DEF Shape
<1>6. /\ Cardinality(UsersOf(b)') = Cardinality(UsersOf(b)) + 1 /\ Cardinality(UsersOf(b)) \in Nat
      /\ Cardinality(UsersOf(b)') <= Cardinality(Procs) /\ Cardinality(Procs) \in Nat
      /\ \A c \in Bufs : c # b => UsersOf(c)' = UsersOf(c)
  BY <1>2, <1>5, UserJoins, Zenon
<1>7. buf[b].refcnt = 0 => UsersOf(b) = {} /\ ~buf[b].pinned /\ buf[b].lock = None /\ ~buf[b].disk
                             /\ \A q \in Procs : req[q].b # b
  BY UnusedFacts, Zenon
<1>8. /\ buf' \in [Bufs -> BufStruct]
      /\ \A c \in Bufs : c # b => buf'[c] = buf[c]
      /\ buf'[b].blockno = k /\ buf'[b].refcnt = buf[b].refcnt + 1
      /\ buf'[b].disk = buf[b].disk /\ buf'[b].lock = buf[b].lock /\ buf'[b].pinned = buf[b].pinned
      /\ \/ /\ buf[b].blockno = k /\ buf'[b].valid = buf[b].valid /\ buf'[b].fresh = buf[b].fresh
         \/ /\ buf[b].refcnt = 0 /\ \A c \in Bufs : buf[c].blockno # k
            /\ ~buf'[b].valid /\ ~buf'[b].fresh
  <2>1. /\ buf[b] \in BufStruct /\ buf[b].refcnt \in Nat
        /\ buf[b].refcnt + 1 \in 0..(Cardinality(Procs) + 1)
    BY <1>6, Facts DEF Counted
  <2> DEFINE r == IF buf[b].blockno = k THEN [buf[b] EXCEPT !.refcnt = buf[b].refcnt + 1]
                  ELSE [buf[b] EXCEPT !.blockno = k, !.valid = FALSE, !.fresh = FALSE, !.refcnt = 1]
  <2>2. /\ r \in BufStruct /\ r.blockno = k
        /\ r.disk = buf[b].disk /\ r.lock = buf[b].lock /\ r.pinned = buf[b].pinned
    <3>1. 1 \in 0..(Cardinality(Procs) + 1)
      BY <1>6
    <3>2. CASE buf[b].blockno = k
      BY <2>1, <3>2, Zenon DEF BufStruct
    <3>3. CASE buf[b].blockno # k
      BY <2>1, <3>1, <3>3, Zenon DEF BufStruct
    <3> QED
      BY <3>2, <3>3, Zenon
  <2>3. IF buf[b].blockno = k
        THEN r.valid = buf[b].valid /\ r.fresh = buf[b].fresh /\ r.refcnt = buf[b].refcnt + 1
        ELSE ~r.valid /\ ~r.fresh /\ r.refcnt = 1
    BY <2>1, Zenon DEF BufStruct
  <2>4. buf' = [buf EXCEPT ![b] = r]
    BY <1>1, Zenon DEF BgetOn
  <2> HIDE DEF r
  <2>5. buf' \in [Bufs -> BufStruct] /\ buf'[b] = r /\ \A c \in Bufs : c # b => buf'[c] = buf[c]
    BY <2>2, <2>4, Zenon DEF Shape
  <2>6. buf[b].blockno # k => buf[b].refcnt = 0 /\ \A c \in Bufs : buf[c].blockno # k
    BY <1>1, Zenon DEF BgetOn
  <2> QED
    BY <2>2, <2>3, <2>5, <2>6
<1>9. Shape'
  BY <1>3, <1>4, <1>5, <1>8, Zenon DEF Shape, ReqStruct, DescStruct, Places, BufStruct
<1>10. Users'
  <2>1. ASSUME NEW q \in Procs PROVE
          /\ IF pc'[q] = "idle" THEN req'[q].b = None
             ELSE req'[q].b \in Bufs /\ req'[q].block \in Blocks /\ buf'[req'[q].b].blockno = req'[q].block
          /\ Holds(q)' => buf'[req'[q].b].lock = q
    BY <1>2, <1>4, <1>5, <1>7, <1>8, Facts DEF Users, Holds
  <2>2. ASSUME NEW c \in Bufs, buf'[c].lock # None PROVE (Holds(buf[c].lock) /\ req[buf[c].lock].b = c)'
    <3>1. buf'[c].lock = buf[c].lock
      BY <1>8, Zenon
    <3>2. buf[c].lock \in Procs /\ Holds(buf[c].lock) /\ req[buf[c].lock].b = c /\ buf[c].lock # p
      BY <1>2, <2>2, <3>1, Facts, Zenon DEF Users, Holds
    <3> QED
      BY <1>4, <1>5, <3>1, <3>2, Zenon DEF Holds
  <2> QED
    BY <2>1, <2>2, Zenon DEF Users
<1>11. OneBuffer'
  BY <1>8 DEF OneBuffer
<1>12. Counted'
  BY <1>6, <1>8 DEF Counted
<1>13. Waiting' = Waiting /\ p \notin Waiting
  BY <1>2, <1>4, Zenon DEF Waiting
<1>14. Queues' /\ Chains' /\ Pending' = Pending
  <2>1. \A q \in Waiting : req'[q] = req[q]
    BY <1>5, <1>13, Zenon DEF Waiting
  <2>2. \A c \in Bufs : buf'[c].disk = buf[c].disk
    BY <1>8, Zenon
  <2> QED
    BY <1>3, <1>13, <2>1, <2>2, QueueFrame, Zenon
<1>15. Fresh'
  <2>1. \A q \in Procs : Writer(q) => Writer(q)' /\ req'[q].b = req[q].b
    BY <1>2, <1>4, <1>5, <1>14, Zenon DEF Writer
  <2>2. ASSUME NEW j \in Blocks, ~fresh'[j] PROVE Kept(j)'
    <3>1. Kept(j)
      BY <1>3, <2>2, Zenon DEF Fresh
    <3>2. CASE buf[b].blockno = k /\ buf'[b].valid = buf[b].valid
      BY <1>8, <2>1, <3>1, <3>2, KeptFrame
    <3>3. CASE buf[b].refcnt = 0
      BY <1>7, <1>8, <2>1, <3>1, <3>3 DEF Kept
    <3> QED
      BY <1>8, <3>2, <3>3, Zenon
  <2>3. \A q \in Procs : q # p => req'[q] = req[q] /\ pc'[q] = pc[q]
    BY <1>4, <1>5, Zenon
  <2> QED
    BY <1>4, <1>5, <1>7, <1>8, <1>14, <2>2, <2>3, Facts DEF Fresh
<1>16. NoneForgotten'
  BY <1>3, <1>4, <1>5, <1>8, Facts DEF NoneForgotten
<1> QED
  BY <1>9, <1>10, <1>11, <1>12, <1>14, <1>15, <1>16, Zenon

\* Pinning and unpinning a held buffer.
LEMMA PinInv ==
  ASSUME DiskInv, NEW p \in Procs, bpin(p) \/ bunpin(p) PROVE DiskInv'
<1> USE DiskAssumption DEF DiskInv
<1> DEFINE b == req[p].b
           k == req[p].block
<1>1. pc[p] = "hold" /\ UNCHANGED <<lru, num, free, desc, info, avail, taken, used, irq, intr, pc, req, panicked>>
  BY Zenon DEF bpin, bunpin, queue, device, Rest
<1>2. b \in Bufs /\ k \in Blocks /\ buf[b].blockno = k /\ buf[b].valid /\ buf[b] \in BufStruct
  BY <1>1, Facts, Zenon DEF Users, Fresh
<1>3. /\ UsersOf(b)' = UsersOf(b) /\ Cardinality(UsersOf(b)) \in 1..Cardinality(Procs)
      /\ Cardinality(Procs) \in Nat
  <2>1. UsersOf(b)' = UsersOf(b) /\ p \in UsersOf(b) /\ UsersOf(b) \in SUBSET Procs
    BY <1>1, Zenon DEF UsersOf
  <2>2. IsFiniteSet(UsersOf(b)) /\ Cardinality(UsersOf(b)) <= Cardinality(Procs)
    BY <2>1, FS_Subset, Zenon
  <2>3. Cardinality(UsersOf(b)) \in Nat /\ Cardinality(Procs) \in Nat
    BY <2>2, FS_CardinalityType, Zenon
  <2>4. Cardinality(UsersOf(b)) # 0
    BY <2>1, <2>2, FS_EmptySet, Zenon
  <2> HIDE DEF b
  <2> QED
    BY <2>1, <2>2, <2>3, <2>4
<1>4. buf[b].refcnt = Cardinality(UsersOf(b)) + (IF buf[b].pinned THEN 1 ELSE 0)
  BY <1>2, Zenon DEF Counted
<1>5. \/ /\ ~buf[b].pinned /\ fresh' = [fresh EXCEPT ![k] = FALSE]
         /\ buf' = [buf EXCEPT ![b] = [buf[b] EXCEPT !.pinned = TRUE, !.refcnt = buf[b].refcnt + 1]]
      \/ /\ buf[b].pinned /\ fresh[k] /\ UNCHANGED fresh
         /\ buf' = [buf EXCEPT ![b] = [buf[b] EXCEPT !.pinned = FALSE, !.refcnt = buf[b].refcnt - 1]]
  <2>1. CASE bpin(p)
    BY <1>2, <2>1, Zenon DEF bpin
  <2>2. CASE bunpin(p)
    BY <1>2, <2>2, Zenon DEF bunpin, device
  <2> QED
    BY <2>1, <2>2, Zenon
<1> HIDE DEF b, k
<1>6. /\ buf' \in [Bufs -> BufStruct]
      /\ \A c \in Bufs :
           /\ buf'[c].blockno = buf[c].blockno /\ buf'[c].valid = buf[c].valid /\ buf'[c].disk = buf[c].disk
           /\ buf'[c].lock = buf[c].lock /\ buf'[c].fresh = buf[c].fresh
           /\ c # b => buf'[c].pinned = buf[c].pinned /\ buf'[c].refcnt = buf[c].refcnt
      /\ buf'[b].refcnt = Cardinality(UsersOf(b)) + (IF buf'[b].pinned THEN 1 ELSE 0)
      /\ buf'[b].pinned <=> ~buf[b].pinned
  <2>1. CASE ~buf[b].pinned
    <3> DEFINE r == [buf[b] EXCEPT !.pinned = TRUE, !.refcnt = buf[b].refcnt + 1]
    <3>1. buf' = [buf EXCEPT ![b] = r]
      BY <1>5, <2>1, Zenon
    <3>2. buf[b].refcnt + 1 \in 0..(Cardinality(Procs) + 1) /\ buf[b].refcnt + 1 = Cardinality(UsersOf(b)) + 1
      BY <1>3, <1>4, <2>1
    <3>3. /\ r \in BufStruct /\ r.blockno = buf[b].blockno /\ r.valid = buf[b].valid
          /\ r.disk = buf[b].disk /\ r.lock = buf[b].lock /\ r.fresh = buf[b].fresh /\ r.pinned
          /\ r.refcnt = Cardinality(UsersOf(b)) + 1
      BY <1>2, <3>2, Zenon DEF BufStruct
    <3> HIDE DEF r
    <3>4. buf' \in [Bufs -> BufStruct] /\ buf'[b] = r /\ \A c \in Bufs : c # b => buf'[c] = buf[c]
      BY <1>2, <3>1, <3>3, Zenon DEF Shape
    <3> QED
      BY <2>1, <3>3, <3>4, Zenon
  <2>2. CASE buf[b].pinned
    <3> DEFINE r == [buf[b] EXCEPT !.pinned = FALSE, !.refcnt = buf[b].refcnt - 1]
    <3>1. buf' = [buf EXCEPT ![b] = r]
      BY <1>5, <2>2, Zenon
    <3>2. buf[b].refcnt - 1 \in 0..(Cardinality(Procs) + 1) /\ buf[b].refcnt - 1 = Cardinality(UsersOf(b))
      BY <1>3, <1>4, <2>2
    <3>3. /\ r \in BufStruct /\ r.blockno = buf[b].blockno /\ r.valid = buf[b].valid
          /\ r.disk = buf[b].disk /\ r.lock = buf[b].lock /\ r.fresh = buf[b].fresh /\ ~r.pinned
          /\ r.refcnt = Cardinality(UsersOf(b))
      BY <1>2, <3>2, Zenon DEF BufStruct
    <3> HIDE DEF r
    <3>4. buf' \in [Bufs -> BufStruct] /\ buf'[b] = r /\ \A c \in Bufs : c # b => buf'[c] = buf[c]
      BY <1>2, <3>1, <3>3, Zenon DEF Shape
    <3> QED
      BY <1>3, <2>2, <3>3, <3>4
  <2> QED
    BY <2>1, <2>2, Zenon
<1>7. /\ fresh' \in [Blocks -> BOOLEAN]
      /\ buf[b].pinned => fresh'[k]
      /\ \A j \in Blocks : j # k => fresh'[j] = fresh[j]
  BY <1>2, <1>5, Zenon DEF Shape
<1>8. Shape'
  BY <1>1, <1>6, <1>7, Zenon DEF Shape, ReqStruct, DescStruct, Places, BufStruct
<1>9. Users' /\ OneBuffer'
  BY <1>1, <1>6, Facts DEF Users, Holds, OneBuffer
<1>10. Counted'
  <2>1. \A c \in Bufs : UsersOf(c)' = UsersOf(c)
    BY <1>1, UsersFrame, Zenon
  <2> QED
    BY <1>6, <2>1 DEF Counted
<1>11. Queues' /\ Chains' /\ Pending' = Pending
  <2>1. Waiting' = Waiting
    BY <1>1, Zenon DEF Waiting
  <2> QED
    BY <1>1, <1>6, <2>1, QueueFrame, Zenon
<1>12. Fresh'
  <2>1. \A q \in Procs : Writer(q) => Writer(q)' /\ req'[q].b = req[q].b
    BY <1>1, <1>11, Zenon DEF Writer
  <2>2. ASSUME NEW j \in Blocks, ~fresh'[j] PROVE Kept(j)'
    <3>1. CASE j # k
      <4>1. Kept(j)
        BY <1>7, <2>2, <3>1, Zenon DEF Fresh
      <4>2. \A c \in Bufs : buf[c].blockno = j => c # b
        BY <1>2, <3>1, Zenon
      <4> QED
        BY <1>6, <2>1, <4>1, <4>2, KeptFrame, Zenon
    <3>2. CASE j = k
      <4>1. ~buf[b].pinned /\ buf'[b].pinned
        BY <1>6, <1>7, <2>2, <3>2, Zenon
      <4> QED
        BY <1>2, <1>6, <3>2, <4>1, Zenon DEF Kept
    <3> QED
      BY <3>1, <3>2, Zenon
  <2> QED
    <3>1. \A q \in Procs : pc[q] \in {"rw", "descwait", "rwwait", "hold"} => req[q].b \in Bufs
      BY Facts, Zenon
    <3>2. ASSUME NEW q \in Procs PROVE
       /\ pc'[q] \in {"lock", "lockwait"} => ~req'[q].write
       /\ pc'[q] \in {"rw", "descwait", "rwwait"} => (req'[q].write <=> buf'[req'[q].b].valid)
       /\ pc'[q] = "hold" => buf'[req'[q].b].valid
       /\ pc'[q] = "rwwait" /\ req'[q].head \notin Pending' => buf'[req'[q].b].fresh
      <4>1. pc'[q] = pc[q] /\ req'[q] = req[q] /\ Pending' = Pending
        BY <1>1, <1>11, Zenon
      <4>2. pc[q] \in {"rw", "descwait", "rwwait", "hold"} =>
              /\ buf'[req[q].b].valid = buf[req[q].b].valid
              /\ buf'[req[q].b].fresh = buf[req[q].b].fresh
        BY <1>6, <3>1, Zenon
      <4> QED
        BY <4>1, <4>2, Zenon DEF Fresh
    <3>3. \A c \in Bufs : buf'[c].valid => buf'[c].fresh
      BY <1>6, Zenon DEF Fresh
    <3> QED
      BY <2>2, <3>2, <3>3, Zenon DEF Fresh
<1>13. NoneForgotten'
  BY <1>1, <1>6, Facts DEF NoneForgotten
<1> QED
  BY <1>8, <1>9, <1>10, <1>11, <1>12, <1>13, Zenon

\* brelse gives the reference back and moves a buffer nobody uses to the front.
LEMMA BrelseInv == ASSUME DiskInv, NEW p \in Procs, brelse(p) PROVE DiskInv'
<1> USE DiskAssumption DEF DiskInv
<1>0. PICK b \in Bufs : b = req[p].b
  BY Facts, Zenon DEF brelse, Goto
<1>1. /\ pc[p] = "release" /\ pc' = [pc EXCEPT ![p] = "idle"] /\ req' = [req EXCEPT ![p] = NoReq]
      /\ buf' = [buf EXCEPT ![b].refcnt = @ - 1]
      /\ lru' = IF buf[b].refcnt = 1 THEN ToFront(b) ELSE lru
  BY <1>0, Zenon DEF brelse, Goto
<1>2. UNCHANGED <<num, free, desc, info, avail, taken, used, irq, intr, fresh, panicked>>
  BY Zenon DEF brelse, queue, device, Rest
<1>3. b \in Bufs /\ buf[b] \in BufStruct
  BY Facts, Zenon
<1>4. /\ IsFiniteSet(UsersOf(b)) /\ UsersOf(b) \in SUBSET Procs /\ p \in UsersOf(b)
      /\ Cardinality(UsersOf(b)) \in 1..Cardinality(Procs) /\ Cardinality(Procs) \in Nat
  <2>1. p \in UsersOf(b) /\ UsersOf(b) \in SUBSET Procs
    BY <1>0, Zenon DEF UsersOf
  <2>2. IsFiniteSet(UsersOf(b)) /\ Cardinality(UsersOf(b)) <= Cardinality(Procs)
    BY <2>1, FS_Subset, Zenon
  <2>3. Cardinality(UsersOf(b)) \in Nat /\ Cardinality(Procs) \in Nat
    BY <2>2, FS_CardinalityType, Zenon
  <2>4. Cardinality(UsersOf(b)) # 0
    BY <2>1, <2>2, FS_EmptySet, Zenon
  <2> QED
    BY <2>1, <2>2, <2>3, <2>4
<1>5. /\ pc' \in [Procs -> Places] /\ pc'[p] = "idle"
      /\ \A q \in Procs : q # p => pc'[q] = pc[q]
  BY <1>1, Zenon DEF Shape, Places
<1>6. /\ req' \in [Procs -> ReqStruct] /\ req'[p].b = None
      /\ \A q \in Procs : q # p => req'[q] = req[q]
  <2>1. num \in Nat
    BY Zenon DEF Shape
  <2>2. NoReq \in ReqStruct /\ NoReq.b = None
    BY <2>1 DEF NoReq, None, ReqStruct
  <2> QED
    BY <1>1, <2>2, Zenon DEF Shape
<1>7. /\ Cardinality(UsersOf(b)') = Cardinality(UsersOf(b)) - 1
      /\ \A c \in Bufs : c # b => UsersOf(c)' = UsersOf(c)
  <2>1. UsersOf(b)' = UsersOf(b) \ {p}
    BY <1>0, <1>3, <1>6, Facts, Zenon DEF UsersOf
  <2>2. \A c \in Bufs : c # b => UsersOf(c)' = UsersOf(c)
    BY <1>0, <1>6, Facts, Zenon DEF UsersOf
  <2> QED
    BY <1>4, <2>1, <2>2, FS_RemoveElement, Zenon
<1>8. buf[b].refcnt = Cardinality(UsersOf(b)) + (IF buf[b].pinned THEN 1 ELSE 0)
  BY <1>3, Zenon DEF Counted
<1>9. /\ buf' \in [Bufs -> BufStruct]
      /\ \A c \in Bufs :
           /\ buf'[c].blockno = buf[c].blockno /\ buf'[c].valid = buf[c].valid
           /\ buf'[c].disk = buf[c].disk /\ buf'[c].lock = buf[c].lock
           /\ buf'[c].pinned = buf[c].pinned /\ buf'[c].fresh = buf[c].fresh
           /\ buf'[c].refcnt = IF c = b THEN buf[c].refcnt - 1 ELSE buf[c].refcnt
  <2> DEFINE r == [buf[b] EXCEPT !.refcnt = buf[b].refcnt - 1]
  <2>1. buf[b].refcnt - 1 \in 0..(Cardinality(Procs) + 1)
    BY <1>4, <1>8
  <2>2. /\ r \in BufStruct /\ r.blockno = buf[b].blockno /\ r.valid = buf[b].valid
        /\ r.disk = buf[b].disk /\ r.lock = buf[b].lock
        /\ r.pinned = buf[b].pinned /\ r.fresh = buf[b].fresh /\ r.refcnt = buf[b].refcnt - 1
    BY <1>3, <2>1, Zenon DEF BufStruct
  <2>3. buf' = [buf EXCEPT ![b] = r]
    BY <1>1, Zenon
  <2> HIDE DEF r
  <2>4. buf' \in [Bufs -> BufStruct] /\ buf'[b] = r /\ \A c \in Bufs : c # b => buf'[c] = buf[c]
    BY <1>3, <2>2, <2>3, Zenon DEF Shape
  <2> QED
    BY <2>2, <2>4, Zenon
<1>10. lru' \in [Bufs -> Bufs] /\ IsInjective(lru')
  BY <1>1, <1>3, ToFrontShape, Zenon DEF Shape
<1>11. Shape'
  BY <1>2, <1>5, <1>6, <1>9, <1>10, Zenon DEF Shape, ReqStruct, DescStruct, Places, BufStruct
<1>12. Users'
  <2>1. ASSUME NEW q \in Procs PROVE
          /\ IF pc'[q] = "idle" THEN req'[q].b = None
             ELSE req'[q].b \in Bufs /\ req'[q].block \in Blocks /\ buf'[req'[q].b].blockno = req'[q].block
          /\ Holds(q)' => buf'[req'[q].b].lock = q
    BY <1>1, <1>3, <1>5, <1>6, <1>9, Facts DEF Users, Holds
  <2>2. ASSUME NEW c \in Bufs, buf'[c].lock # None PROVE (Holds(buf[c].lock) /\ req[buf[c].lock].b = c)'
    <3>1. buf'[c].lock = buf[c].lock
      BY <1>9, Zenon
    <3>2. buf[c].lock \in Procs /\ Holds(buf[c].lock) /\ req[buf[c].lock].b = c /\ buf[c].lock # p
      BY <1>1, <2>2, <3>1, Facts, Zenon DEF Users, Holds
    <3> QED
      BY <1>5, <1>6, <3>1, <3>2, Zenon DEF Holds
  <2> QED
    BY <2>1, <2>2, Zenon DEF Users
<1>13. OneBuffer'
  BY <1>9 DEF OneBuffer
<1>14. Counted'
  <2>1. ASSUME NEW c \in Bufs PROVE (buf[c].refcnt = Cardinality(UsersOf(c)) + (IF buf[c].pinned THEN 1 ELSE 0))'
    <3>1. CASE c = b
      BY <1>3, <1>4, <1>7, <1>8, <1>9, <3>1
    <3>2. CASE c # b
      BY <1>7, <1>9, <3>2 DEF Counted
    <3> QED
      BY <3>1, <3>2, Zenon
  <2> QED
    BY <2>1, Zenon DEF Counted
<1>15. Waiting' = Waiting /\ p \notin Waiting
  BY <1>1, <1>5, Zenon DEF Waiting
<1>16. Queues' /\ Chains' /\ Pending' = Pending
  <2>1. \A q \in Waiting : req'[q] = req[q]
    BY <1>6, <1>15, Zenon DEF Waiting
  <2> QED
    BY <1>2, <1>9, <1>15, <2>1, QueueFrame, Zenon
<1>17. Fresh'
  <2>1. \A q \in Procs : Writer(q) => Writer(q)' /\ req'[q].b = req[q].b
    BY <1>1, <1>5, <1>6, <1>16, Zenon DEF Writer
  <2>2. \A k \in Blocks : ~fresh'[k] => Kept(k)'
    BY <1>2, <1>9, <2>1, KeptFrame, Zenon DEF Fresh
  <2> QED
    BY <1>1, <1>5, <1>6, <1>9, <1>16, <2>2, Facts DEF Fresh
<1>18. NoneForgotten'
  BY <1>2, <1>5, <1>6, <1>9, Facts DEF NoneForgotten
<1> QED
  BY <1>11, <1>12, <1>13, <1>14, <1>16, <1>17, <1>18, Zenon

-----------------------------------------------------------------------------
(* The descriptors of a request.                                           *)

\* The sets of descriptors and of waiting processes are finite.
LEMMA DescFinite ==
  ASSUME DiskInv
  PROVE  /\ num \in Nat /\ IsFiniteSet(free) /\ Cardinality(free) \in Nat
         /\ IsFiniteSet(1..num \ free) /\ Cardinality(1..num \ free) \in Nat
         /\ IsFiniteSet(Waiting) /\ Cardinality(Waiting) \in Nat
<1>1. num \in Nat /\ free \in SUBSET (1..num) /\ 1..num \ free \in SUBSET (1..num)
  BY DiskAssumption, Zenon DEF DiskInv, Shape
<1>2. IsFiniteSet(1..num)
  BY <1>1, FS_Interval
<1>3. Waiting \in SUBSET Procs /\ IsFiniteSet(Procs)
  BY DiskAssumption, Zenon DEF Waiting
<1>4. IsFiniteSet(free) /\ IsFiniteSet(1..num \ free) /\ IsFiniteSet(Waiting)
  BY <1>1, <1>2, <1>3, FS_Subset, Zenon
<1> QED
  BY <1>1, <1>4, FS_CardinalityType, Zenon

\* A finite set with three elements more.
LEMMA ThreeMore ==
  ASSUME NEW S, IsFiniteSet(S), NEW x, NEW y, NEW z, x \notin S, y \notin S, z \notin S,
         x # y, x # z, y # z
  PROVE  Cardinality(S \cup {x, y, z}) = Cardinality(S) + 3
<1> DEFINE A == S \cup {x}
           B == A \cup {y}
<1>1. IsFiniteSet(A) /\ Cardinality(A) = Cardinality(S) + 1
  BY FS_AddElement, Zenon
<1>2. y \notin A /\ z \notin B /\ B \cup {z} = S \cup {x, y, z}
  BY Zenon
<1> HIDE DEF A
<1>3. IsFiniteSet(B) /\ Cardinality(B) = Cardinality(A) + 1
  BY <1>1, <1>2, FS_AddElement, Zenon
<1> HIDE DEF B
<1>4. Cardinality(B \cup {z}) = Cardinality(B) + 1
  BY <1>2, <1>3, FS_AddElement, Zenon
<1>5. Cardinality(S) \in Nat
  BY FS_CardinalityType, Zenon
<1> QED
  BY <1>1, <1>2, <1>3, <1>4, <1>5

\* alloc3_desc finds three different free descriptors.
LEMMA Alloc3 ==
  ASSUME DiskInv, Cardinality(free) >= 3
  PROVE  \E x, y, z \in free : /\ x # y /\ x # z /\ y # z
                               /\ alloc3_desc[1] = x /\ alloc3_desc[2] = y /\ alloc3_desc[3] = z
<1> DEFINE x == Least(free)
           y == Least(free \ {x})
           z == Least(free \ {x, y})
<1>1. IsFiniteSet(free) /\ Cardinality(free) \in Nat /\ free \subseteq Nat
  BY DescFinite, DiskAssumption DEF DiskInv, Shape
<1>2. free # {}
  BY <1>1, FS_EmptySet
<1>3. x \in free
  BY <1>1, <1>2, LeastIn, Zenon
<1>4. IsFiniteSet(free \ {x}) /\ Cardinality(free \ {x}) = Cardinality(free) - 1
  BY <1>1, <1>3, FS_RemoveElement, Zenon
<1>5. free \ {x} # {} /\ free \ {x} \subseteq Nat
  <2> HIDE DEF x
  <2>1. Cardinality(free \ {x}) # 0
    BY <1>1, <1>4
  <2> QED
    BY <1>1, <2>1, FS_EmptySet, Zenon
<1>6. y \in free \ {x}
  BY <1>5, LeastIn, Zenon
<1>7. free \ {x, y} = (free \ {x}) \ {y}
  BY Zenon
<1>8. IsFiniteSet(free \ {x, y}) /\ Cardinality(free \ {x, y}) = Cardinality(free) - 2
  <2> HIDE DEF x, y
  <2>1. /\ IsFiniteSet((free \ {x}) \ {y})
        /\ Cardinality((free \ {x}) \ {y}) = Cardinality(free \ {x}) - 1
    BY <1>4, <1>6, FS_RemoveElement, Zenon
  <2> QED
    BY <1>1, <1>4, <1>7, <2>1
<1>9. free \ {x, y} # {} /\ free \ {x, y} \subseteq Nat
  <2> HIDE DEF x, y
  <2>1. Cardinality(free \ {x, y}) # 0
    BY <1>1, <1>8
  <2> QED
    BY <1>1, <2>1, FS_EmptySet, Zenon
<1>10. z \in free \ {x, y}
  BY <1>9, LeastIn, Zenon
<1>11. alloc3_desc = <<x, y, z>>
  BY Zenon DEF alloc3_desc
<1> HIDE DEF x, y, z
<1> QED
  BY <1>3, <1>6, <1>10, <1>11, Zenon

\* virtio_disk_rw finds three descriptors and queues the request.
LEMMA SubmitInv ==
  ASSUME DiskInv, NEW p \in Procs, pc[p] = "rw", Cardinality(free) >= 3, Submit(p),
         UNCHANGED <<lru, num, taken, used, irq, intr, fresh, panicked>>
  PROVE  DiskInv'
<1>1. PICK b \in Bufs : b = req[p].b
  BY Facts, Zenon
<1>2. PICK x, y, z \in free : /\ x # y /\ x # z /\ y # z
                              /\ alloc3_desc[1] = x /\ alloc3_desc[2] = y /\ alloc3_desc[3] = z
  BY Alloc3, Zenon
<1>3. SubmitOn(p, b, x, y, z)
  BY <1>1, <1>2, Zenon DEF Submit, SubmitOn, Goto
<1>4. \A q \in Procs : pc[q] # "descwait"
  <2>1. ~(Cardinality(free) < 3)
    BY DescFinite
  <2> QED
    BY <2>1, Zenon DEF DiskInv, NoneForgotten
<1> QED
  BY <1>1, <1>2, <1>3, <1>4, SubmitStep, Zenon

-----------------------------------------------------------------------------
(* The invariant and what follows from it.                                 *)

\* binit and virtio_disk_init establish the invariant.
LEMMA InitDiskInv == ASSUME Init PROVE DiskInv
<1> USE DiskAssumption DEF Init
<1>0. NBUF \in Nat /\ num \in Nat /\ None \notin Bufs
  BY DEF Bufs, None
<1>1. Shape
  <2>1. buf \in [Bufs -> BufStruct]
    <3>1. Cardinality(Procs) \in Nat
      BY FS_CardinalityType, Zenon
    <3> QED
      BY <3>1 DEF BufStruct
  <2>2. lru \in [Bufs -> Bufs] /\ IsInjective(lru)
    BY <1>0 DEF Bufs, IsInjective
  <2>3. NoDesc \in DescStruct /\ NoReq \in ReqStruct
    BY <1>0 DEF NoDesc, DescStruct, NoReq, ReqStruct, None
  <2>4. /\ desc \in [1..num -> DescStruct] /\ req \in [Procs -> ReqStruct] /\ pc \in [Procs -> Places]
        /\ info \in [1..num -> Bufs \cup {None}] /\ fresh \in [Blocks -> BOOLEAN]
    BY <2>3, Zenon DEF Places
  <2>5. avail \in Seq(1..num) /\ used \in Seq(1..num)
    OBVIOUS
  <2> QED
    BY <2>1, <2>2, <2>4, <2>5, Zenon DEF Shape
<1>2. \A p \in Procs : pc[p] = "idle" /\ req[p].b = None /\ ~Holds(p)
  BY Zenon DEF NoReq, Holds
<1>3. \A b \in Bufs : /\ buf[b].blockno = None /\ ~buf[b].valid /\ buf[b].refcnt = 0 /\ ~buf[b].disk
                      /\ buf[b].lock = None /\ ~buf[b].pinned
  BY Zenon
<1>4. Users /\ OneBuffer /\ NoneForgotten
  BY <1>2, <1>3, Zenon DEF Users, OneBuffer, NoneForgotten
<1>5. Counted
  <2>1. \A b \in Bufs : UsersOf(b) = {}
    BY <1>0, <1>2, Zenon DEF UsersOf
  <2>2. \A b \in Bufs : Cardinality(UsersOf(b)) = 0
    BY <2>1, FS_EmptySet, Zenon
  <2> HIDE DEF Init
  <2> QED
    BY <1>3, <2>2 DEF Counted
<1>6. Waiting = {} /\ Open = {} /\ Pending = {} /\ 1..num \ free = {}
  BY <1>2 DEF Waiting, Open, Pending, Range
<1>7. Queues
  BY <1>3, <1>6 DEF Queues, IsInjective, Open, Pending
<1>8. Chains
  <2> HIDE DEF Init
  <2> QED
    BY <1>6, Zenon DEF Chains
<1>9. Fresh
  BY <1>2, <1>3, Zenon DEF Fresh
<1> QED
  BY <1>1, <1>4, <1>5, <1>7, <1>8, <1>9, Zenon DEF DiskInv

\* Every step of a process, of the handler and of the device keeps it.
LEMMA NextDiskInv == ASSUME DiskInv, [Next]_vars PROVE DiskInv'
<1>1. irq \in BOOLEAN /\ intr \in BOOLEAN /\ panicked \in BOOLEAN
  BY Zenon DEF DiskInv, Shape
<1>2. CASE UNCHANGED vars
  BY <1>1, <1>2, StillInv, Zenon DEF vars, bio, queue, device
<1>3. CASE virtio_disk_intr \/ virtio_disk_intrStatus \/ virtio_disk_intrEnd
  BY <1>1, <1>3, StillInv, Zenon
     DEF virtio_disk_intr, virtio_disk_intrStatus, virtio_disk_intrEnd, bio, queue, device, Rest
<1>4. CASE virtio_disk_intrEntry \/ Device
  BY <1>4, IntrEntryInv, TakeInv, AnswerInv, Zenon DEF Device
<1>5. ASSUME NEW p \in Procs, Kernel(p) PROVE DiskInv'
  <2>1. CASE virtio_disk_rw(p) /\ Cardinality(free) >= 3
    BY <2>1, SubmitInv, Zenon DEF virtio_disk_rw, device, Rest
  <2>2. CASE virtio_disk_rw(p) /\ ~(Cardinality(free) >= 3)
    <3>1. Cardinality(free) < 3
      BY <2>2, DescFinite
    <3> QED
      BY <2>2, <3>1, DescwaitInv, Zenon DEF virtio_disk_rw, device, queue, Rest
  <2>3. CASE virtio_disk_rwDone(p)
    BY <1>1, <2>3, RwDoneCases, StillInv, FinishInv, Zenon
  <2> QED
    BY <1>5, <2>1, <2>2, <2>3, AcquiresleepInv, BrelseInv, Zenon DEF Kernel
<1>6. ASSUME NEW p \in Procs, bwrite(p) \/ bpin(p) \/ bunpin(p) \/ releasesleep(p) PROVE DiskInv'
  BY <1>6, BwriteInv, PinInv, ReleasesleepInv, Zenon
<1>7. ASSUME NEW p \in Procs, NEW k \in Blocks, bget(p, k) PROVE DiskInv'
  BY <1>7, BgetInv, Zenon
<1>8. ASSUME NEW p \in Procs, NEW k \in Blocks, bgetNoBuffers(p, k) PROVE DiskInv'
  BY <1>1, <1>8, StillInv, Zenon DEF bgetNoBuffers, bio, queue, device
<1> QED
  BY <1>2, <1>3, <1>4, <1>5, <1>6, <1>7, <1>8, Zenon DEF Next, Interrupt

\* Every process that waits for the disk has three descriptors. Submit takes three
\* and Finish gives three back; no other step touches them.
ThreeEach == Cardinality(1..num \ free) = 3 * Cardinality(Waiting)

\* Every step keeps the three descriptors of each request.
LEMMA ThreeEachStep == ASSUME DiskInv, DiskInv', ThreeEach, [Next]_vars PROVE ThreeEach'
<1>0. /\ IsFiniteSet(1..num \ free) /\ Cardinality(1..num \ free) \in Nat
      /\ IsFiniteSet(Waiting) /\ Cardinality(Waiting) \in Nat
  BY DescFinite, Zenon
<1>1. CASE UNCHANGED <<num, free>> /\ \A q \in Procs : pc'[q] = "rwwait" <=> pc[q] = "rwwait"
  <2>1. Waiting' = Waiting /\ (1..num \ free)' = 1..num \ free
    BY <1>1, Zenon DEF Waiting
  <2> QED
    BY <2>1, Zenon DEF ThreeEach
<1>2. ASSUME NEW p \in Procs, pc[p] = "rw", Cardinality(free) >= 3, Submit(p), num' = num PROVE ThreeEach'
  <2>1. PICK x, y, z \in free : /\ x # y /\ x # z /\ y # z
                                /\ alloc3_desc[1] = x /\ alloc3_desc[2] = y /\ alloc3_desc[3] = z
    BY <1>2, Alloc3, Zenon
  <2> DEFINE S == 1..num \ free
  <2>2. /\ (1..num \ free)' = S \cup {x, y, z} /\ x \notin S /\ y \notin S /\ z \notin S
    <3>1. free' = free \ {x, y, z} /\ free \subseteq 1..num
      BY <1>2, <2>1, Zenon DEF Submit, DiskInv, Shape
    <3> QED
      BY <1>2, <3>1, Zenon
  <2>3. Waiting' = Waiting \cup {p} /\ p \notin Waiting
    <3>1. pc'[p] = "rwwait" /\ \A q \in Procs : q # p => pc'[q] = pc[q]
      BY <1>2, Zenon DEF Submit, Goto, DiskInv, Shape
    <3> QED
      BY <1>2, <3>1, Zenon DEF Waiting
  <2>4. Cardinality(Waiting') = Cardinality(Waiting) + 1
    BY <1>0, <2>3, FS_AddElement, Zenon
  <2>5. IsFiniteSet(S) /\ Cardinality(S) = 3 * Cardinality(Waiting)
    BY <1>0, Zenon DEF ThreeEach
  <2> HIDE DEF S
  <2>6. Cardinality(S \cup {x, y, z}) = Cardinality(S) + 3
    BY <2>1, <2>2, <2>5, ThreeMore
  <2>7. Cardinality((1..num \ free)') = 3 * Cardinality(Waiting')
    BY <1>0, <2>2, <2>4, <2>5, <2>6
  <2> QED
    BY <2>7, Zenon DEF ThreeEach
<1>3. ASSUME NEW p \in Procs, Finishes(p) PROVE ThreeEach'
  <2>1. p \in Waiting /\ Waiting' = Waiting \ {p}
    BY <1>3, Zenon DEF Finishes, Finish, Awake, Waiting, DiskInv, Shape
  <2>2. PICK h, n, t \in 1..num \ free : /\ h # n /\ h # t /\ n # t
                                        /\ free' = free \cup {h, n, t} /\ num' = num
    <3> DEFINE h == req[p].head
               n == Second(p)
               t == Third(p)
    <3>1. h \in 1..num /\ n \in 1..num /\ t \in 1..num /\ h # n /\ h # t /\ n # t
      BY <2>1, Zenon DEF DiskInv, Chains
    <3>2. {h, n, t} \cap free = {}
      BY <2>1, Zenon DEF DiskInv, Chains, Chain
    <3>3. free' = free \cup {h, n, t} /\ num' = num
      BY <1>3, Zenon DEF Finishes, Finish, free_chain, Second, Third, Rest
    <3> HIDE DEF h, n, t
    <3> QED
      BY <3>1, <3>2, <3>3, Zenon
  <2>3. PICK S : S = (1..num \ free)'
    BY Zenon
  <2>4. /\ 1..num \ free = S \cup {h, n, t} /\ h \notin S /\ n \notin S /\ t \notin S
    BY <2>2, <2>3, Zenon
  <2>5. S \in SUBSET (1..num \ free)
    BY <2>4, Zenon
  <2>6. IsFiniteSet(S) /\ Cardinality(S) \in Nat
    BY <1>0, <2>5, FS_Subset, FS_CardinalityType, Zenon
  <2>7. Cardinality(1..num \ free) = Cardinality(S) + 3
    BY <2>2, <2>4, <2>6, ThreeMore
  <2>8. Cardinality(Waiting') = Cardinality(Waiting) - 1
    BY <1>0, <2>1, FS_RemoveElement, Zenon
  <2>9. Cardinality(S) = 3 * Cardinality(Waiting')
    BY <1>0, <2>6, <2>7, <2>8 DEF ThreeEach
  <2> QED
    BY <2>3, <2>9, Zenon DEF ThreeEach
<1>4. ASSUME NEW p \in Procs, Kernel(p) PROVE ThreeEach'
  <2>1. CASE acquiresleep(p) \/ brelse(p)
    <3>1. pc[p] # "rwwait" /\ pc'[p] # "rwwait" /\ UNCHANGED <<num, free>>
          /\ \A q \in Procs : q # p => pc'[q] = pc[q]
      BY <2>1, Zenon DEF acquiresleep, brelse, AfterLock, Goto, queue, Rest, DiskInv, Shape
    <3> QED
      BY <1>1, <3>1, Zenon
  <2>2. CASE virtio_disk_rw(p) /\ Cardinality(free) >= 3
    BY <1>2, <2>2, Zenon DEF virtio_disk_rw, Rest
  <2>3. CASE virtio_disk_rw(p) /\ ~(Cardinality(free) >= 3)
    <3>1. pc[p] = "rw" /\ pc'[p] = "descwait" /\ UNCHANGED <<num, free>>
      BY <2>3, Zenon DEF virtio_disk_rw, Awake, queue, Rest, DiskInv, Shape
    <3>2. \A q \in Procs : q # p => pc'[q] = pc[q] \/ (pc[q] = "descwait" /\ pc'[q] = "rw")
      BY <2>3, Zenon DEF virtio_disk_rw, Awake, DiskInv, Shape
    <3> QED
      BY <1>1, <3>1, <3>2, Zenon
  <2>4. CASE virtio_disk_rwDone(p)
    BY <1>1, <1>3, <2>4, RwDoneCases, Zenon
  <2> QED
    BY <1>4, <2>1, <2>2, <2>3, <2>4, Zenon DEF Kernel
<1>5. ASSUME NEW p \in Procs, bwrite(p) \/ bpin(p) \/ bunpin(p) \/ releasesleep(p) PROVE ThreeEach'
  <2>1. UNCHANGED <<num, free>>
    BY <1>5, Zenon DEF bwrite, bpin, bunpin, releasesleep, queue, Rest
  <2>2. \A q \in Procs : pc'[q] = "rwwait" <=> pc[q] = "rwwait"
    BY <1>5, Zenon DEF bwrite, bpin, bunpin, releasesleep, Goto, Awake, DiskInv, Shape
  <2> QED
    BY <1>1, <2>1, <2>2, Zenon
<1>6. ASSUME NEW p \in Procs, NEW k \in Blocks, bget(p, k) \/ bgetNoBuffers(p, k) PROVE ThreeEach'
  <2>1. UNCHANGED <<num, free>>
    BY <1>6, Zenon DEF bget, bgetNoBuffers, queue, Rest
  <2>2. \A q \in Procs : pc'[q] = "rwwait" <=> pc[q] = "rwwait"
    BY <1>6, Zenon DEF bget, bgetNoBuffers, Goto, DiskInv, Shape
  <2> QED
    BY <1>1, <2>1, <2>2, Zenon
<1>7. CASE Interrupt \/ virtio_disk_intrStatus \/ Device
  <2>1. UNCHANGED <<num, free, pc>>
    BY <1>7, Zenon DEF Interrupt, virtio_disk_intr, virtio_disk_intrEntry, virtio_disk_intrStatus,
                       virtio_disk_intrEnd, Device, DeviceTake, DeviceAnswer, queue, Rest
  <2> QED
    BY <1>1, <2>1, Zenon
<1>8. CASE UNCHANGED vars
  BY <1>1, <1>8, Zenon DEF vars, queue
<1> QED
  BY <1>4, <1>5, <1>6, <1>7, <1>8, Zenon DEF Next

\* A process that sleeps on its buffer waits for a request that is not finished.
Asleep == asleep \subseteq Waiting /\ \A p \in asleep : buf[req[p].b].disk

\* A step that leaves those who sleep, and the flags of their buffers, alone.
LEMMA AsleepKept ==
  ASSUME DiskInv, Asleep, asleep' \subseteq asleep,
         \A q \in asleep' : /\ pc'[q] = pc[q] /\ req'[q].b = req[q].b
                            /\ buf'[req[q].b].disk = buf[req[q].b].disk
  PROVE  Asleep'
  BY Zenon DEF Asleep, Waiting

\* Only virtio_disk_intr clears b->disk, and it wakes who sleeps on b.
LEMMA AsleepStep == ASSUME DiskInv, Asleep, [Next]_vars PROVE Asleep'
<1>1. \A q \in asleep : q \in Procs /\ pc[q] = "rwwait" /\ req[q].b \in Bufs
  BY Facts, Zenon DEF Asleep, Waiting
<1>2. CASE UNCHANGED <<asleep, pc, req, buf>>
  BY <1>2, AsleepKept, Zenon
<1>3. CASE virtio_disk_intrEntry
  <2>1. PICK b : /\ buf' = [buf EXCEPT ![b].disk = FALSE] /\ pc' = pc /\ req' = req
                 /\ asleep' = {q \in asleep : req[q].b # b}
    BY <1>3, Zenon DEF virtio_disk_intrEntry
  <2>2. \A c \in Bufs : c # b => buf'[c] = buf[c]
    BY <2>1, Zenon DEF DiskInv, Shape
  <2> QED
    BY <1>1, <2>1, <2>2, AsleepKept, Zenon
<1>4. ASSUME NEW d, DeviceAnswer(d) PROVE Asleep'
  <2>1. PICK b, f : /\ buf' = buf \/ buf' = [buf EXCEPT ![b].fresh = f]
                    /\ pc' = pc /\ req' = req /\ asleep' = asleep
    BY <1>4, Zenon DEF DeviceAnswer, Rest
  <2>2. CASE buf' = buf
    BY <1>2, <2>1, <2>2, Zenon
  <2>3. CASE buf' = [buf EXCEPT ![b].fresh = f]
    <3>1. buf \in [Bufs -> BufStruct]
      BY Zenon DEF DiskInv, Shape
    <3>2. \A c \in Bufs : buf'[c].disk = buf[c].disk
      BY <2>3, <3>1 DEF BufStruct
    <3> QED
      BY <1>1, <2>1, <3>2, AsleepKept, Zenon
  <2> QED
    BY <2>1, <2>2, <2>3, Zenon
<1>5. ASSUME NEW p \in Procs, virtio_disk_rw(p) PROVE Asleep'
  <2>1. pc[p] = "rw"
    BY <1>5, Zenon DEF virtio_disk_rw
  <2>2. CASE Cardinality(free) >= 3
    <3>1. /\ buf' = [buf EXCEPT ![req[p].b].disk = TRUE] /\ pc' = [pc EXCEPT ![p] = "rwwait"]
          /\ asleep' = asleep \cup {p}
          /\ \E d : req' = [req EXCEPT ![p].head = d]
      BY <1>5, <2>2, Zenon DEF virtio_disk_rw, Submit, Goto
    <3>2. /\ \A c \in Bufs : buf[c].disk => buf'[c].disk
          /\ req[p].b \in Bufs => buf'[req[p].b].disk
      BY <3>1 DEF DiskInv, Shape, BufStruct
    <3>3. \A q \in Procs : req'[q].b = req[q].b
      BY <3>1 DEF DiskInv, Shape, ReqStruct
    <3>4. pc'[p] = "rwwait" /\ \A q \in Procs : q # p => pc'[q] = pc[q]
      BY <3>1, Zenon DEF DiskInv, Shape
    <3>5. req[p].b \in Bufs
      BY <2>1, Facts
    <3> QED
      BY <1>1, <3>1, <3>2, <3>3, <3>4, <3>5, Zenon DEF Asleep, Waiting
  <2>3. CASE ~(Cardinality(free) >= 3)
    <3>1. UNCHANGED <<buf, req, asleep>>
      BY <1>5, <2>3, Zenon DEF virtio_disk_rw
    <3>2. \A q \in Procs : pc[q] = "rwwait" => pc'[q] = "rwwait"
      BY <1>5, <2>1, <2>3, Zenon DEF virtio_disk_rw, Awake, DiskInv, Shape
    <3> QED
      BY <1>1, <3>1, <3>2, AsleepKept, Zenon
  <2> QED
    BY <2>2, <2>3, Zenon
<1>6. ASSUME NEW p \in Procs, virtio_disk_rwDone(p) PROVE Asleep'
  <2>1. CASE Finishes(p)
    <3>1. /\ ~buf[req[p].b].disk /\ asleep' = asleep /\ buf' = [buf EXCEPT ![req[p].b].valid = TRUE]
          /\ req' = [req EXCEPT ![p].head = None, ![p].write = FALSE]
      BY <2>1, Zenon DEF Finishes, Finish, Rest
    <3>2. \A c \in Bufs : buf'[c].disk = buf[c].disk
      BY <3>1 DEF DiskInv, Shape, BufStruct
    <3>3. \A q \in Procs : req'[q].b = req[q].b
      BY <3>1 DEF DiskInv, Shape, ReqStruct
    <3>4. \A q \in Procs : q # p /\ pc[q] = "rwwait" => pc'[q] = "rwwait"
      BY <2>1, Zenon DEF Finishes, Finish, Awake, DiskInv, Shape
    <3>5. p \notin asleep
      BY <3>1, Zenon DEF Asleep
    <3> QED
      BY <1>1, <3>1, <3>2, <3>3, <3>4, <3>5, AsleepKept, Zenon
  <2>2. CASE pc[p] = "rwwait" /\ buf[req[p].b].disk /\ asleep' = asleep \cup {p} /\ UNCHANGED <<buf, pc, req>>
    BY <2>2, Zenon DEF Asleep, Waiting
  <2> QED
    BY <1>6, <2>1, <2>2, RwDoneCases, Zenon
<1>7. ASSUME NEW p \in Procs, acquiresleep(p) \/ brelse(p) \/ bwrite(p) \/ bpin(p) \/ bunpin(p)
                               \/ releasesleep(p) \/ \E k \in Blocks : bget(p, k)
      PROVE  Asleep'
  <2>1. asleep' = asleep
    BY <1>7, Zenon DEF acquiresleep, brelse, bwrite, bpin, bunpin, releasesleep, bget, Rest
  <2>2. pc[p] # "rwwait" /\ \A q \in Procs : q # p => req'[q] = req[q]
    BY <1>7, Zenon DEF acquiresleep, brelse, bwrite, bpin, bunpin, releasesleep, bget, Goto, DiskInv, Shape
  <2>3. \A q \in Procs : q # p /\ pc[q] = "rwwait" => pc'[q] = "rwwait"
    BY <1>7, Zenon DEF acquiresleep, brelse, bwrite, bpin, bunpin, releasesleep, bget, Goto, Awake,
                       AfterLock, DiskInv, Shape
  <2>4. \A c \in Bufs : buf'[c].disk = buf[c].disk
    <3>0. CASE bwrite(p)
      BY <3>0, Zenon DEF bwrite, bio
    <3>1. CASE acquiresleep(p) \/ brelse(p)
      <4>1. buf \in [Bufs -> BufStruct]
        BY Zenon DEF DiskInv, Shape
      <4>2. PICK b : \/ buf' = buf \/ buf' = [buf EXCEPT ![b].lock = p]
                     \/ buf' = [buf EXCEPT ![b].refcnt = @ - 1]
        BY <3>1, Zenon DEF acquiresleep, brelse
      <4> QED
        BY <4>1, <4>2 DEF BufStruct
    <3>2. CASE bpin(p) \/ bunpin(p) \/ releasesleep(p)
      BY <3>2 DEF bpin, bunpin, releasesleep, DiskInv, Shape, BufStruct
    <3>3. ASSUME NEW k \in Blocks, bget(p, k) PROVE \A c \in Bufs : buf'[c].disk = buf[c].disk
      <4>1. PICK b \in Cached(k) \cup {Victim : i \in Unused} :
              buf' = [buf EXCEPT ![b] =
                IF b \in Cached(k) THEN [@ EXCEPT !.refcnt = buf[b].refcnt + 1]
                ELSE [@ EXCEPT !.blockno = k, !.valid = FALSE, !.fresh = FALSE, !.refcnt = 1]]
        BY <3>3, Zenon DEF bget
      <4>2. buf \in [Bufs -> BufStruct]
        BY Zenon DEF DiskInv, Shape
      <4> QED
        BY <4>1, <4>2 DEF BufStruct
    <3> QED
      BY <1>7, <3>0, <3>1, <3>2, <3>3, Zenon
  <2> QED
    BY <1>1, <2>1, <2>2, <2>3, <2>4, AsleepKept, Zenon
<1>8. CASE virtio_disk_intr \/ virtio_disk_intrStatus \/ virtio_disk_intrEnd \/ DeviceTake
  BY <1>2, <1>8, Zenon DEF virtio_disk_intr, virtio_disk_intrStatus, virtio_disk_intrEnd, DeviceTake, bio, Rest
<1>9. ASSUME NEW p \in Procs, NEW k \in Blocks, bgetNoBuffers(p, k) PROVE Asleep'
  BY <1>2, <1>9, Zenon DEF bgetNoBuffers, bio
<1>10. CASE UNCHANGED vars
  BY <1>2, <1>10, Zenon DEF vars
<1> QED
  BY <1>3, <1>4, <1>5, <1>6, <1>7, <1>8, <1>9, <1>10, Zenon DEF Next, Kernel, Interrupt, Device

\* The inductive invariant of the buffer cache and the disk driver holds for
\* every number of buffers, processes, blocks and descriptors.
THEOREM DiskInvariant == Spec => [](DiskInv /\ ThreeEach /\ Asleep)
<1>1. ASSUME Init PROVE DiskInv /\ ThreeEach /\ Asleep
  <2>1. DiskInv
    BY <1>1, InitDiskInv, Zenon
  <2>2. Waiting = {} /\ 1..num \ free = {}
    BY <1>1, Zenon DEF Init, Waiting
  <2>3. Cardinality({}) = 0
    BY FS_EmptySet, Zenon
  <2>4. ThreeEach
    BY <2>2, <2>3 DEF ThreeEach
  <2>5. Asleep
    BY <1>1, Zenon DEF Init, Asleep
  <2> QED
    BY <2>1, <2>4, <2>5, Zenon
<1>2. DiskInv /\ ThreeEach /\ Asleep /\ [Next]_vars => DiskInv' /\ ThreeEach' /\ Asleep'
  BY NextDiskInv, ThreeEachStep, AsleepStep, Zenon
<1> QED
  BY <1>1, <1>2, PTL DEF Spec

\* What bread returns is the block asked for, as last stored by anyone, and no
\* block is cached twice.
THEOREM ReadsLatestAlways == Spec => []ReadsLatest
<1>1. DiskInv => ReadsLatest
  BY Facts, Zenon DEF DiskInv, Users, OneBuffer, Fresh, Holds, ReadsLatest
<1> QED
  BY <1>1, DiskInvariant, PTL

\* refcnt is the number of processes between bget and brelse plus the log's pin,
\* and every variable keeps its type.
THEOREM RefcountExactAlways == Spec => []RefcountExact
<1>1. ASSUME DiskInv PROVE TypeOK
  <2>1. \A p \in Procs : req[p] \in ReqStruct
    BY <1>1, Facts, Zenon
  <2>2. \A p \in Procs : req[p].block \in Blocks \cup {None} /\ req[p].b \in Bufs \cup {None}
    BY <2>1, Zenon DEF ReqStruct
  <2> QED
    BY <1>1, <2>2, Zenon DEF DiskInv, Shape, TypeOK
<1>2. DiskInv => RefcountExact
  BY <1>1, Zenon DEF DiskInv, Counted, UsersOf, RefcountExact
<1> QED
  BY <1>2, DiskInvariant, PTL

\* A request the device has belongs to a sleeping process that holds the buffer,
\* and the descriptors in use are the chains of the processes that wait.
THEOREM DeviceOwnsBufferAlways == Spec => []DeviceOwnsBuffer
<1>1. ASSUME DiskInv, NEW d \in taken \cup Range(avail)
      PROVE  \E p \in Procs :
               /\ pc[p] = "rwwait" /\ req[p].head = d /\ info[d] = req[p].b
               /\ desc[desc[d].next].addr = req[p].b /\ desc[d].write = req[p].write
               /\ buf[req[p].b].disk /\ buf[req[p].b].lock = p
  <2>1. d \in Open
    BY Zenon DEF Open, Pending
  <2>2. PICK p \in Waiting : req[p].head = d
    BY <1>1, <2>1, Zenon DEF DiskInv, Queues
  <2>3. buf[req[p].b].disk
    BY <1>1, <2>1, <2>2, Zenon DEF DiskInv, Queues
  <2>4. info[d] = req[p].b /\ desc[desc[d].next].addr = req[p].b /\ desc[d].write = req[p].write
    BY <1>1, <2>2, Zenon DEF DiskInv, Chains, Second
  <2>5. p \in Procs /\ pc[p] = "rwwait" /\ buf[req[p].b].lock = p
    BY <1>1, WaitFacts, Zenon
  <2> QED
    BY <2>2, <2>3, <2>4, <2>5, Zenon
<1>2. ASSUME DiskInv PROVE 1..num \ free = UNION {free_chain(req[p].head) : p \in Waiting}
  <2>1. \A p \in Waiting : free_chain(req[p].head) = Chain(p)
    BY Zenon DEF free_chain, Chain, Second, Third
  <2>2. \A p \in Waiting : Chain(p) \subseteq 1..num \ free
    <3> SUFFICES ASSUME NEW p \in Waiting PROVE Chain(p) \subseteq 1..num \ free
      BY Zenon
    <3>1. /\ req[p].head \in 1..num /\ Second(p) \in 1..num /\ Third(p) \in 1..num
          /\ Chain(p) \cap free = {}
      BY <1>2, Zenon DEF DiskInv, Chains
    <3> HIDE DEF Second, Third
    <3> QED
      BY <3>1, Zenon DEF Chain
  <2>3. \A d \in 1..num \ free : \E p \in Waiting : d \in Chain(p)
    BY <1>2, Zenon DEF DiskInv, Chains
  <2> QED
    BY <2>1, <2>2, <2>3, Zenon
<1>3. DiskInv /\ ThreeEach => DeviceOwnsBuffer
  BY <1>1, <1>2, Zenon DEF ThreeEach, Waiting, DeviceOwnsBuffer
<1> QED
  BY <1>3, DiskInvariant, PTL

\* No process sleeps for a sleep lock that is free, for descriptors when three are
\* free, or for a request that is finished: no wakeup of the cache or of the
\* driver is lost.
THEOREM SleepersNotForgottenAlways == Spec => []SleepersNotForgotten
<1>1. DiskInv /\ Asleep => SleepersNotForgotten
  BY Zenon DEF DiskInv, NoneForgotten, Asleep, SleepersNotForgotten
<1> QED
  BY <1>1, DiskInvariant, PTL
=============================================================================

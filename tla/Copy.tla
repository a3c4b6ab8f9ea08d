-------------------------------- MODULE Copy --------------------------------
(***************************************************************************)
(* Copies between the kernel and a process, as functions on memory:        *)
(* mymemmove, copyout, copyin and copyinstr of kernel/vm.c, memmove of     *)
(* string.c, and their callers either_copyout, either_copyin and fetchstr. *)
(*                                                                         *)
(* m maps addresses to bytes.  A process's page number pg is the memory    *)
(* from User + pg * PG on, and acc the set of its pages that are valid     *)
(* and accessible to it.  0 is the byte '\0'.                              *)
(***************************************************************************)
EXTENDS Integers, SequencesExt

CONSTANTS PG,        \* bytes of a page
          UNIT,      \* bytes that mymemmove copies at a time
          NPgs,      \* pages of the process
          MaxLen     \* bound: bytes copied

User == 2 * MaxLen
Pgs == 0..(NPgs - 1)
Addrs == 0..(User + NPgs * PG - 1)

Up(n) == [k \in 1..n |-> k - 1]
Down(n) == [k \in 1..n |-> n - k]

-----------------------------------------------------------------------------
Overlap(dst, src, n) == src < dst /\ src + n > dst

\* Whole words when both addresses are aligned and the areas allow it.
Fast(dst, src, n) == n >= UNIT /\ src % UNIT = 0 /\ dst % UNIT = 0 /\ ~Overlap(dst, src, n)

\* One byte, one word.
Byte(m, dst, src) == [m EXCEPT ![dst] = m[src]]
Octet(m, dst, src) ==
  [a \in Addrs |-> IF a \in dst..(dst + UNIT - 1) THEN m[a - dst + src] ELSE m[a]]

\* The word loop leaves n % UNIT bytes; the others run down, or up.
mymemmove(m, dst, src, n) ==
  IF Fast(dst, src, n)
  THEN FoldLeft(LAMBDA t, k : Octet(t, dst + k * UNIT, src + k * UNIT), m, Up(n \div UNIT))
  ELSE FoldLeft(LAMBDA t, k : Byte(t, dst + k, src + k), m,
                IF Overlap(dst, src, n) THEN Down(n) ELSE Up(n))

memmove(m, dst, src, n) ==
  FoldLeft(LAMBDA t, k : Byte(t, dst + k, src + k), m,
           IF Overlap(dst, src, n) THEN Down(n) ELSE Up(n))

-----------------------------------------------------------------------------
(* The loops over pages.  ok is FALSE when a page is not accessible.       *)
walkaddr(acc, pg) == pg \in acc

PieceStart(va, pg) == IF va > pg * PG THEN va ELSE pg * PG
PieceEnd(end, pg) == IF end < (pg + 1) * PG THEN end ELSE (pg + 1) * PG

\* Mutant of PagesOf: as many pages as the length takes, wherever it starts.
PagesOfLength(va, len) == [k \in 1..((len + PG - 1) \div PG) |-> va \div PG + k - 1]

PagesOf(va, len) ==
  LET pg == va \div PG
  IN [k \in 1..(IF len = 0 THEN 0 ELSE (va + len + PG - 1) \div PG - pg) |-> pg + k - 1]

\* The part of the range in each of its pages, up to the first one missing.
Pieces(acc, va, len) ==
  LET pages == SelectSeq(PagesOf(va, len), LAMBDA pg : \A q \in (va \div PG)..pg : walkaddr(acc, q))
  IN [k \in DOMAIN pages |-> [va |-> PieceStart(va, pages[k]),
                              n |-> PieceEnd(va + len, pages[k]) - PieceStart(va, pages[k])]]

Complete(acc, va, len) == Len(Pieces(acc, va, len)) = Len(PagesOf(va, len))

copyout(m, acc, dstva, src, len) ==
  [m |-> FoldLeft(LAMBDA t, x : mymemmove(t, User + x.va, src + (x.va - dstva), x.n), m,
                  Pieces(acc, dstva, len)),
   ok |-> Complete(acc, dstva, len)]

copyin(m, acc, dst, srcva, len) ==
  [m |-> FoldLeft(LAMBDA t, x : mymemmove(t, dst + (x.va - srcva), User + x.va, x.n), m,
                  Pieces(acc, srcva, len)),
   ok |-> Complete(acc, srcva, len)]

\* Bytes up to and including the first '\0', at most max.
copyinstr(m, acc, dst, srcva, max) ==
  FoldLeft(LAMBDA x, k :
             LET va == srcva + k
             IN IF x.null \/ ~x.ok THEN x
                ELSE IF ~walkaddr(acc, va \div PG) THEN [x EXCEPT !.ok = FALSE]
                ELSE [x EXCEPT !.m = Byte(@, dst + k, User + va), !.null = m[User + va] = 0],
           [m |-> m, ok |-> TRUE, null |-> FALSE], Up(max))

\* The other address is the process's, or the kernel's too.
either_copyout(m, acc, user_dst, dst, src, len) ==
  IF user_dst THEN copyout(m, acc, dst, src, len) ELSE [m |-> memmove(m, dst, src, len), ok |-> TRUE]
either_copyin(m, acc, dst, user_src, src, len) ==
  IF user_src THEN copyin(m, acc, dst, src, len) ELSE [m |-> memmove(m, dst, src, len), ok |-> TRUE]

\* The length of the string at addr, now in buf, or -1.
strlen(m, s) == CHOOSE n \in 0..MaxLen : m[s + n] = 0 /\ \A k \in 0..(n - 1) : m[s + k] # 0
fetchstr(m, acc, addr, buf, max) ==
  LET r == copyinstr(m, acc, buf, addr, max)
  IN [m |-> r.m, n |-> IF r.ok /\ r.null THEN strlen(r.m, buf) ELSE -1]

-----------------------------------------------------------------------------
(* Properties, of the functions, over all arguments within the bounds.     *)

\* Memory in which every byte is different.
Mem == [a \in Addrs |-> a + 1]

\* m with the k bytes from src on copied to dst.
Ref(m, dst, src, k) == [a \in Addrs |-> IF a \in dst..(dst + k - 1) THEN m[a - dst + src] ELSE m[a]]

\* mymemmove has no remainder to drop: the addresses are not aligned alike, or
\* the source ends with a word.
NoRemainder(dst, src, n) == (dst - src) % UNIT # 0 \/ (src + n) % UNIT = 0

\* memmove moves n bytes as they were, overlapping or not.  So does mymemmove
\* when it has no remainder to drop, and it never writes anything else.
MoveMeans(dst, src, n) ==
  LET my == mymemmove(Mem, dst, src, n)
  IN /\ memmove(Mem, dst, src, n) = Ref(Mem, dst, src, n)
     /\ NoRemainder(dst, src, n) => my = Ref(Mem, dst, src, n)
     /\ \A a \in Addrs : my[a] \in {Mem[a], Ref(Mem, dst, src, n)[a]}

\* A copy between address k of the kernel and va of a process succeeds exactly
\* when every page of the range is accessible, and writes nothing outside the
\* range nor behind the first page that is not.  All that is before it is copied,
\* when mymemmove has no remainder to drop, and inside the kernel always.
CopyMeans(acc, k, va, len) ==
  LET reach == {j \in 0..(len - 1) : \A i \in 0..j : (va + i) \div PG \in acc}
      out == either_copyout(Mem, acc, TRUE, va, k, len)
      into == either_copyin(Mem, acc, k, TRUE, va, len)
      sent == Ref(Mem, User + va, k, Cardinality(reach))
      fetched == Ref(Mem, k, User + va, Cardinality(reach))
  IN /\ out.ok = (Cardinality(reach) = len) /\ into.ok = out.ok
     /\ \A a \in Addrs : out.m[a] \in {Mem[a], sent[a]} /\ into.m[a] \in {Mem[a], fetched[a]}
     /\ NoRemainder(k, va, len) => out.m = sent /\ into.m = fetched
     /\ either_copyout(Mem, acc, FALSE, User + va, k, len).m = Ref(Mem, User + va, k, len)
     /\ either_copyin(Mem, acc, k, FALSE, User + va, len).m = Ref(Mem, k, User + va, len)

\* fetchstr of a string that ends at z succeeds exactly when that is among the
\* first max bytes and no page before it is missing; then it returns the
\* string's length, and the kernel has the string and nothing more.
StringMeans(acc, va, max, z) ==
  LET mem == [Mem EXCEPT ![User + z] = 0]
      r == fetchstr(mem, acc, va, 0, max)
      here == z \in va..(va + max - 1) /\ \A a \in va..z : a \div PG \in acc
  IN /\ r.n = IF here THEN z - va ELSE -1
     /\ here => r.m = Ref(mem, 0, User + va, z - va + 1)

\* For each set of accessible pages, whether this holds of all ranges, and of
\* all strings.
CopiesMean ==
  {<<acc, \A va \in 0..(2 * PG), len \in 0..MaxLen : va + len <= NPgs * PG =>
            /\ \A k \in 0..(UNIT - 1) : CopyMeans(acc, k, va, len)
            /\ va <= MaxLen => \A dst \in 0..MaxLen : MoveMeans(dst, va, len)>> : acc \in SUBSET Pgs}
StringsMean ==
  {<<acc, \A va \in 0..PG, max \in 0..MaxLen, z \in 0..(NPgs * PG - 1) : va + max <= NPgs * PG =>
            StringMeans(acc, va, max, z)>> : acc \in SUBSET Pgs}
=============================================================================

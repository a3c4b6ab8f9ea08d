---------------------------- MODULE RingBufProofs ----------------------------
(***************************************************************************)
(* Proofs about RingBuf, for any number of processes, slots, regions,      *)
(* frames, names and descriptors: what holds whatever the clients do, and  *)
(* then what holds with careful clients.                                   *)
(***************************************************************************)
EXTENDS RingBuf, FiniteSetTheorems, WellFoundedInduction, TLAPS

Slot == [refcount : Nat, name : Names \cup {NoName, Prefix, KeeperName},
         pidsRW : [Ends -> Procs \cup {NoPid}], frame : Frames \cup {NoFrame},
         vabuf : Regions \cup {-1}]

\* TypeOK, with the table as a function to records; the descriptors apart.
TableType ==
  /\ ringbufs \in [Slots -> Slot]
  /\ pagetable \in [Procs -> [Regions -> Frames \cup {NoFrame}]]
  /\ freelist \subseteq Frames
  /\ state \in [Procs -> {"unused", "running", "zombie", "gone"}]
  /\ validRingBuf \in [Procs -> {0, 1}]
  /\ opened \in [Procs -> SUBSET ((Names \cup {KeeperName}) \X Ends)]
  /\ client \in Clients
  /\ fault \in Faults

DescType ==
  desc \in [Procs -> [Descs -> [exists : BOOLEAN, name : Names \cup {NoName, KeeperName}]]]

\* A slot with a ring was opened at one end; only when both ends were opened does
\* it count two.
EndsOK(r) ==
  r.vabuf # -1 =>
    /\ r.refcount \in {1, 2}
    /\ \E e \in Ends : r.pidsRW[e] # NoPid
    /\ (\E e \in Ends : r.pidsRW[e] = NoPid) => r.refcount = 1

Clean(r) == r.refcount = 0 => r = [FreeSlot EXCEPT !.frame = r.frame]

\* Before a keeper has slot 0, nothing has happened.
Untouched ==
  /\ \A s \in Slots : ringbufs[s].refcount = 0
  /\ \A p \in Procs, v \in Regions : pagetable[p][v] = NoFrame

NamesInv ==
  /\ \A s \in Slots : Clean(ringbufs[s])
  /\ \A s \in Slots : ringbufs[s].name # NoName => ringbufs[s].vabuf \in Regions
  /\ \A s \in Slots \ {0} : EndsOK(ringbufs[s])
  /\ client.keeper = NoPid => ringbufs[0].name # KeeperName
  /\ client.keeper # NoPid /\ ringbufs[0].name # KeeperName => Untouched

TableInv == TableType /\ NamesInv

-----------------------------------------------------------------------------
\* A set of naturals has a least element, and Min finds it.
LEMMA MinIn ==
  ASSUME NEW S, S \subseteq Nat, S # {}
  PROVE  Min(S) \in S /\ \A y \in S : Min(S) <= y
<1> DEFINE Below == {0..x : x \in S}
           R == StrictSubsetOrdering(Nat)
           F == FiniteSubsetsOf(Nat)
<1>1. IsWellFoundedOn(R, F)
  BY FS_StrictSubsetOrderingWellFounded, Zenon
<1>2. Below \subseteq F
  <2>1. \A x \in S : IsFiniteSet(0..x) /\ (0..x) \in SUBSET Nat
    BY FS_Interval
  <2>. QED BY <2>1, Zenon DEF FiniteSubsetsOf
<1>3. Below # {}
  BY Zenon
<1>4. \E t \in Below : \A u \in Below : ~(<<u, t>> \in R)
  <2>. HIDE DEF Below, R, F
  <2>. QED BY <1>1, <1>2, <1>3, WFMin, Zenon
<1>5. PICK x \in S : \A u \in Below : ~(<<u, 0..x>> \in R)
  BY <1>4, Zenon
<1>6. ASSUME NEW y \in S PROVE x =< y
  <2>1. x \in Nat /\ y \in Nat
    BY Zenon
  <2>2. SUFFICES ASSUME y < x PROVE FALSE
    BY <2>1
  <2>3. (0..y) \subseteq (0..x) /\ x \in 0..x /\ x \notin 0..y
    BY <2>1, <2>2
  <2>4. 0..y # 0..x
    BY <2>3, Zenon
  <2>5. (0..y) \in SUBSET Nat /\ (0..x) \in SUBSET Nat
    BY <2>1
  <2>6. <<0..y, 0..x>> \in R
    BY <2>3, <2>4, <2>5, Zenon DEF StrictSubsetOrdering
  <2>. QED BY <2>6, <1>5, Zenon
<1>. QED BY <1>6, Zenon DEF Min

\* The first slot of a name, the first free region and the first free slot.
LEMMA FirstNamed ==
  ASSUME NEW name, Named(name) # {}
  PROVE  Min(Named(name)) \in Slots /\ ringbufs[Min(Named(name))].name = name
<1>1. Named(name) \subseteq Nat
  BY TableAssumption DEF Named, Slots
<1>. QED BY <1>1, MinIn, Zenon DEF Named

\* mapringbuf takes a region of its page table that is free.
LEMMA FirstUnmapped ==
  ASSUME NEW p, Unmapped(p) # {}
  PROVE  Min(Unmapped(p)) \in Regions /\ pagetable[p][Min(Unmapped(p))] = NoFrame
<1>1. Unmapped(p) \subseteq Nat
  BY TableAssumption DEF Unmapped, Regions
<1>. QED BY <1>1, MinIn, Zenon DEF Unmapped

\* createbuf takes the first free slot; when the table is full, the one of the name.
LEMMA SlotTaken ==
  ASSUME NEW name, SlotForNew(name) # -1
  PROVE  /\ SlotForNew(name) \in Slots
         /\ \/ ringbufs[SlotForNew(name)].refcount = 0
            \/ Named(name) # {} /\ SlotForNew(name) = Min(Named(name))
         /\ ringbufs[0].refcount = 0 => SlotForNew(name) = 0
<1> DEFINE free == {s \in Slots : ringbufs[s].refcount = 0}
<1>1. free \subseteq Nat /\ 0 \in Slots
  BY TableAssumption DEF Slots
<1>2. CASE free # {}
  <2>1. Min(free) \in free /\ \A y \in free : Min(free) <= y
    BY <1>1, <1>2, MinIn, Zenon
  <2>2. SlotForNew(name) = Min(free)
    BY <1>2, Zenon DEF SlotForNew
  <2>3. ringbufs[0].refcount = 0 => Min(free) = 0
    BY <1>1, <2>1
  <2>. QED BY <2>1, <2>2, <2>3, Zenon
<1>3. CASE free = {}
  <2>1. Named(name) # {} /\ SlotForNew(name) = Min(Named(name))
    BY <1>3, Zenon DEF SlotForNew
  <2>. QED BY <1>1, <1>3, <2>1, FirstNamed, Zenon
<1>. QED BY <1>2, <1>3, Zenon
-----------------------------------------------------------------------------
\* What a call that changes one slot, s, to r must see to.
LEMMA SlotChange ==
  ASSUME TableInv, NEW s \in Slots, NEW r \in Slot, ringbufs' = [ringbufs EXCEPT ![s] = r],
         client' = client, Clean(r), r.name # NoName => r.vabuf \in Regions, s # 0 => EndsOK(r),
         ringbufs[0].name = KeeperName => s # 0,
         ringbufs[0].name # KeeperName /\ client.keeper # NoPid => s = 0 /\ r.name = KeeperName,
         client.keeper = NoPid /\ s = 0 => r.name # KeeperName
  PROVE  NamesInv'
<1>1. /\ ringbufs' \in [Slots -> Slot] /\ 0 \in Slots
      /\ ringbufs'[s] = r /\ \A t \in Slots \ {s} : ringbufs'[t] = ringbufs[t]
  <2>1. 0 \in Slots
    BY TableAssumption DEF Slots
  <2>. QED BY <2>1, Zenon DEF TableInv, TableType
<1>2. \A t \in Slots : Clean(ringbufs'[t])
  BY <1>1, Zenon DEF TableInv, NamesInv
<1>3. \A t \in Slots : ringbufs'[t].name # NoName => ringbufs'[t].vabuf \in Regions
  BY <1>1, Zenon DEF TableInv, NamesInv
<1>4. \A t \in Slots \ {0} : EndsOK(ringbufs'[t])
  BY <1>1, Zenon DEF TableInv, NamesInv
<1>5. client.keeper = NoPid => ringbufs'[0].name # KeeperName
  BY <1>1, Zenon DEF TableInv, NamesInv
<1>6. client.keeper # NoPid => ringbufs'[0].name = KeeperName
  BY <1>1, Zenon
<1>. QED BY <1>2, <1>3, <1>4, <1>5, <1>6, Zenon DEF NamesInv

\* The names a client uses, and what createbuf stores of them.
LEMMA NameFacts ==
  /\ NoName # KeeperName /\ 0 \in Slots /\ 0 \in Regions
  /\ \A name \in Names \cup {KeeperName} :
       /\ Stored(name) \in Names \cup {Prefix, KeeperName}
       /\ Stored(name) = KeeperName => name = KeeperName
       /\ Stored(name) = name \/ Stored(name) = Prefix
<1>1. NoName # KeeperName
  BY NameAssumption, Zenon
<1>2. 0 \in Slots /\ 0 \in Regions
  BY TableAssumption DEF Slots, Regions
<1>. QED BY <1>1, <1>2, NameAssumption, Zenon DEF Stored

\* The kinds of client the model has, field by field.
LEMMA ClientFacts ==
  ASSUME client \in Clients
  PROVE  /\ client.names \subseteq Names /\ client.frames \subseteq Frames
         /\ client.procs \subseteq Procs /\ client.maxOpen \in Nat
         /\ client.born \subseteq Procs
BY ClientAssumption, Zenon

\* A slot with a ring is in use.
LEMMA RingInUse ==
  ASSUME TableInv, NEW s \in Slots, ringbufs[s].vabuf # -1
  PROVE  ringbufs[s].refcount \in Nat \ {0} /\ ringbufs[s].vabuf \in Regions
<1>1. Clean(ringbufs[s]) /\ ringbufs[s].refcount \in Nat /\ ringbufs[s].vabuf \in Regions
  BY Zenon DEF TableInv, TableType, NamesInv, Slot
<1>. QED BY <1>1, Zenon DEF Clean, FreeSlot

\* A slot with a name is in use.
LEMMA NamedInUse ==
  ASSUME TableInv, NEW s \in Slots, ringbufs[s].name # NoName
  PROVE  ringbufs[s].refcount # 0 /\ ringbufs[s].vabuf \in Regions
<1>1. Clean(ringbufs[s]) /\ ringbufs[s].vabuf \in Regions
  BY Zenon DEF TableInv, NamesInv
<1>. QED BY <1>1, Zenon DEF Clean, FreeSlot

\* Who may open which name: the keeper its own, first; after that anybody else
\* another one.
LEMMA OpenFacts ==
  ASSUME TableInv, NEW p \in Procs, NEW name \in Names \cup {KeeperName}, MayOpen(p, name)
  PROVE  \/ ringbufs[0].name = KeeperName /\ client.keeper # NoPid /\ name \in Names
         \/ client.keeper = NoPid /\ name \in Names
         \/ ringbufs[0].name # KeeperName /\ client.keeper # NoPid /\ name = KeeperName /\ Untouched
<1>1. client.names \subseteq Names
  BY ClientFacts, Zenon DEF TableInv, TableType
<1>. QED BY <1>1, Zenon DEF MayOpen, TableInv, NamesInv

\* createbuf of a ring that is not joined: no other slot has the name.
NewName(name) == Named(name) = {} \/ Min(Named(name)) = 0

\* No slot has the name of a ring that createbuf makes anew.
LEMMA NewNameUnique ==
  ASSUME TableInv, NEW p \in Procs, NEW name \in Names \cup {KeeperName}, MayOpen(p, name),
         NewName(name), ringbufs[0].name = KeeperName
  PROVE  \A t \in Slots : ringbufs[t].name # name
<1>1. name # KeeperName
  BY OpenFacts, NameAssumption, Zenon DEF TableInv, NamesInv
<1>2. Named(name) = {}
  BY <1>1, FirstNamed, Zenon DEF NewName
<1>. QED BY <1>2, Zenon DEF Named

\* The slot createbuf takes for a new name is free, unless it is slot 0; the keeper
\* takes slot 0 and keeps it.
LEMMA NewSlot ==
  ASSUME TableInv, NEW p \in Procs, NEW name \in Names \cup {KeeperName}, MayOpen(p, name),
         NewName(name), SlotForNew(name) # -1
  PROVE  /\ SlotForNew(name) \in Slots
         /\ SlotForNew(name) # 0 => ringbufs[SlotForNew(name)].refcount = 0
         /\ ringbufs[0].name = KeeperName => SlotForNew(name) # 0
         /\ ringbufs[0].name # KeeperName /\ client.keeper # NoPid => SlotForNew(name) = 0
<1>1. SlotForNew(name) \in Slots
  BY SlotTaken, Zenon
<1>2. SlotForNew(name) # 0 => ringbufs[SlotForNew(name)].refcount = 0
  BY SlotTaken, Zenon DEF NewName
<1>3. CASE ringbufs[0].name = KeeperName
  <2>1. ringbufs[0].refcount # 0
    BY <1>3, NameFacts, NamedInUse, Zenon
  <2>2. Named(name) = {}
    <3>1. \A t \in Slots : ringbufs[t].name # name
      BY <1>3, NewNameUnique, Zenon
    <3>. QED BY <3>1, Zenon DEF Named
  <2>3. ringbufs[SlotForNew(name)].refcount = 0
    BY <2>2, SlotTaken, Zenon
  <2>. QED BY <1>1, <1>2, <1>3, <2>1, <2>3, Zenon
<1>4. CASE ringbufs[0].name # KeeperName /\ client.keeper # NoPid
  <2>1. ringbufs[0].refcount = 0
    BY <1>4, NameFacts, Zenon DEF TableInv, NamesInv, Untouched
  <2>. QED BY <1>1, <1>2, <1>4, <2>1, SlotTaken, Zenon
<1>. QED BY <1>1, <1>2, <1>3, <1>4, Zenon

\* The entry of a slot claimed for a new ring.
LEMMA ClaimFacts ==
  ASSUME TableInv, NEW p \in Procs, NEW name \in Names \cup {KeeperName}, NEW op \in Ends,
         NEW s \in Slots
  PROVE  /\ Claim(p, s, name, op) \in Slot
         /\ Claim(p, s, name, op).refcount = ringbufs[s].refcount + 1
         /\ Claim(p, s, name, op).refcount \in Nat \ {0}
         /\ Claim(p, s, name, op).name = Stored(name)
         /\ Claim(p, s, name, op).pidsRW = [e \in Ends |-> IF e = op THEN p ELSE NoPid]
         /\ Claim(p, s, name, op).vabuf = ringbufs[s].vabuf
<1>1. ringbufs[s] \in Slot /\ ringbufs[s].refcount \in Nat
  BY Zenon DEF TableInv, TableType, Slot
<1>2. Stored(name) \in Names \cup {NoName, Prefix, KeeperName}
  BY NameFacts, Zenon
<1>3. [e \in Ends |-> IF e = op THEN p ELSE NoPid] \in [Ends -> Procs \cup {NoPid}]
  BY Zenon
<1>4. ringbufs[s].refcount + 1 \in Nat \ {0}
  BY <1>1
<1> DEFINE ends == [e \in Ends |-> IF e = op THEN p ELSE NoPid]
           stored == Stored(name)
           n == ringbufs[s].refcount + 1
           old == ringbufs[s]
<1>5. Claim(p, s, name, op) = [old EXCEPT !.refcount = n, !.name = stored, !.pidsRW = ends]
  BY Zenon DEF Claim
<1> HIDE DEF ends, stored, n, old
<1>6. old \in Slot /\ n \in Nat \ {0} /\ stored \in Names \cup {NoName, Prefix, KeeperName}
      /\ ends \in [Ends -> Procs \cup {NoPid}]
  BY <1>1, <1>2, <1>3, <1>4, Zenon DEF ends, stored, n, old
<1>7. /\ Claim(p, s, name, op) \in Slot
      /\ Claim(p, s, name, op).refcount = n /\ Claim(p, s, name, op).name = stored
      /\ Claim(p, s, name, op).pidsRW = ends /\ Claim(p, s, name, op).vabuf = old.vabuf
  BY <1>5, <1>6, Zenon DEF Slot
<1>. QED BY <1>6, <1>7, Zenon DEF ends, stored, n, old

\* createbuf of a new ring keeps the table consistent.
LEMMA NewBufTable ==
  ASSUME TableInv, NEW p \in Procs, NEW name \in Names \cup {KeeperName}, NEW op \in Ends,
         MayOpen(p, name), NewName(name), SlotForNew(name) # -1,
         NewBuf(p, SlotForNew(name), name, op), UNCHANGED client
  PROVE  TableInv'
<1> DEFINE s == SlotForNew(name)
           v == Min(Unmapped(p))
           c == Claim(p, s, name, op)
<1>1. s \in Slots /\ v \in Regions
  BY NewSlot, FirstUnmapped, Zenon DEF NewBuf
<1>2. PICK f \in freelist : freelist' = freelist \ {f} /\ Enter(p, s, v, f, c)
  BY Zenon DEF NewBuf
<1> DEFINE r == [c EXCEPT !.frame = f, !.vabuf = v]
<1>3. /\ c \in Slot /\ c.refcount = ringbufs[s].refcount + 1 /\ c.refcount \in Nat \ {0}
      /\ c.name = Stored(name) /\ c.pidsRW = [e \in Ends |-> IF e = op THEN p ELSE NoPid]
  BY <1>1, ClaimFacts
<1>4. f \in Frames
  BY Zenon DEF TableInv, TableType
<1>5. /\ ringbufs' = [ringbufs EXCEPT ![s] = r]
      /\ pagetable' = [pagetable EXCEPT ![p][v] = f]
      /\ validRingBuf' = [validRingBuf EXCEPT ![p] = 1]
      /\ opened' = [opened EXCEPT ![p] = @ \cup {<<name, op>>}]
      /\ state' = state /\ fault' = fault
  BY <1>2, Zenon DEF NewBuf, Enter
<1> HIDE DEF c, v, s
<1>6. /\ r \in Slot /\ r.refcount = c.refcount /\ r.name = Stored(name) /\ r.vabuf = v
      /\ r.pidsRW = [e \in Ends |-> IF e = op THEN p ELSE NoPid]
  BY <1>1, <1>3, <1>4, Zenon DEF Slot
<1> HIDE DEF r
<1>7. TableType'
  <2>1. ringbufs' \in [Slots -> Slot]
    BY <1>1, <1>5, <1>6, Zenon DEF TableInv, TableType
  <2>2. pagetable' \in [Procs -> [Regions -> Frames \cup {NoFrame}]]
    BY <1>1, <1>4, <1>5, Zenon DEF TableInv, TableType
  <2>3. opened' \in [Procs -> SUBSET ((Names \cup {KeeperName}) \X Ends)]
    BY <1>5 DEF TableInv, TableType
  <2>4. freelist' \subseteq Frames /\ validRingBuf' \in [Procs -> {0, 1}]
    BY <1>2, <1>5, Zenon DEF TableInv, TableType
  <2>. QED BY <1>5, <2>1, <2>2, <2>3, <2>4, Zenon DEF TableInv, TableType
<1>8. Clean(r)
  BY <1>3, <1>6, Zenon DEF Clean
<1>9. /\ s # 0 => ringbufs[s].refcount = 0
      /\ ringbufs[0].name = KeeperName => s # 0
      /\ ringbufs[0].name # KeeperName /\ client.keeper # NoPid => s = 0
  BY NewSlot, Zenon DEF s
<1>10. ringbufs[0].name # KeeperName /\ client.keeper # NoPid => r.name = KeeperName
  <2>1. SUFFICES ASSUME ringbufs[0].name # KeeperName, client.keeper # NoPid
                 PROVE  r.name = KeeperName
    BY Zenon
  <2>2. name = KeeperName
    BY <2>1, OpenFacts, Zenon
  <2>. QED BY <1>6, <2>2, NameAssumption, Zenon DEF Stored
<1>11. client.keeper = NoPid => r.name # KeeperName
  BY <1>6, OpenFacts, NameFacts, NameAssumption, Zenon
<1>12. s # 0 => EndsOK(r)
  <2>1. SUFFICES ASSUME s # 0 PROVE EndsOK(r)
    BY Zenon
  <2>2. r.refcount = 1
    BY <1>3, <1>6, <1>9, <2>1
  <2>3. r.pidsRW[op] # NoPid
    BY <1>6, ProcAssumption, Zenon
  <2>. QED BY <2>2, <2>3, Zenon DEF EndsOK
<1>13. NamesInv'
  BY <1>1, <1>5, <1>6, <1>8, <1>9, <1>10, <1>11, <1>12, SlotChange, Zenon
<1>. QED BY <1>7, <1>13, Zenon DEF TableInv

\* So does createbuf of a new ring that fails half way.
LEMMA NewBufFailsTable ==
  ASSUME TableInv, NEW p \in Procs, NEW name \in Names \cup {KeeperName}, NEW op \in Ends,
         MayOpen(p, name), NewName(name), SlotForNew(name) # -1,
         NewBufFails(p, SlotForNew(name), name, op), UNCHANGED client
  PROVE  TableInv'
<1> DEFINE s == SlotForNew(name)
           c == Claim(p, s, name, op)
           r == [c EXCEPT !.name = NoName, !.pidsRW[op] = NoPid]
<1>1. s \in Slots
  BY NewSlot, Zenon
<1>2. /\ c \in Slot /\ c.refcount = ringbufs[s].refcount + 1 /\ c.refcount \in Nat \ {0}
      /\ c.pidsRW = [e \in Ends |-> IF e = op THEN p ELSE NoPid]
  BY <1>1, ClaimFacts
<1>3. /\ ringbufs' = [ringbufs EXCEPT ![s] = r] /\ Unmapped(p) = {}
      /\ UNCHANGED <<pagetable, freelist, state, validRingBuf, opened, fault>>
  BY Zenon DEF NewBufFails
<1>4. /\ s # 0 => ringbufs[s].refcount = 0
      /\ ringbufs[0].name = KeeperName => s # 0
      /\ ringbufs[0].name # KeeperName /\ client.keeper # NoPid => s = 0
  BY NewSlot, Zenon
<1>old. c.vabuf = ringbufs[s].vabuf /\ Clean(ringbufs[s])
  <2>1. ringbufs[s] \in Slot /\ Clean(ringbufs[s])
    BY <1>1, Zenon DEF TableInv, TableType, NamesInv
  <2>. QED BY <2>1 DEF Claim, Slot
<1> HIDE DEF c, s
<1>5. r \in Slot /\ r.refcount = c.refcount /\ r.name = NoName /\ r.vabuf = c.vabuf
  BY <1>2, Zenon DEF Slot
<1> HIDE DEF r
<1>6. TableType'
  <2>1. ringbufs' \in [Slots -> Slot]
    BY <1>1, <1>3, <1>5, Zenon DEF TableInv, TableType
  <2>. QED BY <1>3, <2>1, Zenon DEF TableInv, TableType
<1>7. Clean(r)
  BY <1>2, <1>5, Zenon DEF Clean
<1>8. ringbufs[0].name # KeeperName => client.keeper = NoPid
  <2>1. SUFFICES ASSUME ringbufs[0].name # KeeperName, client.keeper # NoPid PROVE FALSE
    BY Zenon
  <2>2. 0 \in Unmapped(p)
    BY <2>1, NameFacts, Zenon DEF TableInv, NamesInv, Untouched, Unmapped
  <2>. QED BY <1>3, <2>2, Zenon
<1>9. s # 0 => EndsOK(r)
  <2>1. SUFFICES ASSUME s # 0 PROVE r.vabuf = -1
    BY Zenon DEF EndsOK
  <2>2. ringbufs[s] = [FreeSlot EXCEPT !.frame = ringbufs[s].frame]
    BY <1>4, <1>old, <2>1, Zenon DEF Clean
  <2>3. ringbufs[s].vabuf = -1
    BY <2>2, Zenon DEF FreeSlot
  <2>. QED BY <1>5, <1>old, <2>3, Zenon
<1>10. NamesInv'
  BY <1>1, <1>3, <1>4, <1>5, <1>7, <1>8, <1>9, NameFacts, SlotChange, Zenon
<1>. QED BY <1>6, <1>10, Zenon DEF TableInv

\* The keeper's slot cannot be joined or closed, and before it there is no ring to
\* join or close.
LEMMA OldSlot ==
  ASSUME TableInv, NEW name \in Names \cup {KeeperName}, Named(name) # {},
         name \in Names \/ Min(Named(name)) # 0, ringbufs[Min(Named(name))].vabuf # -1
  PROVE  /\ Min(Named(name)) \in Slots /\ ringbufs[Min(Named(name))].name = name
         /\ ringbufs[Min(Named(name))].refcount \in Nat \ {0}
         /\ ringbufs[Min(Named(name))].vabuf \in Regions
         /\ ringbufs[0].name = KeeperName => Min(Named(name)) # 0
         /\ ringbufs[0].name # KeeperName => client.keeper = NoPid
<1> DEFINE s == Min(Named(name))
<1>1. s \in Slots /\ ringbufs[s].name = name
  BY FirstNamed, Zenon
<1>2. ringbufs[s].refcount \in Nat \ {0} /\ ringbufs[s].vabuf \in Regions
  BY <1>1, RingInUse, Zenon
<1>3. ringbufs[0].name = KeeperName => s # 0
  BY <1>1, NameAssumption, Zenon
<1>4. ringbufs[0].name # KeeperName => client.keeper = NoPid
  BY <1>1, <1>2, Zenon DEF TableInv, NamesInv, Untouched
<1>. QED BY <1>1, <1>2, <1>3, <1>4, Zenon

\* createbuf of a ring that another process made keeps the table consistent.
LEMMA JoinBufTable ==
  ASSUME TableInv, NEW p \in Procs, NEW name \in Names \cup {KeeperName}, NEW op \in Ends,
         Named(name) # {}, Min(Named(name)) > 0,
         JoinBuf(p, Min(Named(name)), name, op), UNCHANGED client
  PROVE  TableInv'
<1> DEFINE s == Min(Named(name))
           v == Min(Unmapped(p))
           old == ringbufs[s]
           r == [old EXCEPT !.pidsRW[op] = p, !.refcount = @ + 1, !.frame = old.frame, !.vabuf = v]
<1>1. s # 0
  <2>1. s \in Nat
    BY FirstNamed, TableAssumption DEF Slots
  <2>. QED BY <2>1
<1>2. /\ s \in Slots /\ old.name = name /\ old.refcount \in Nat \ {0} /\ old.vabuf # -1
      /\ ringbufs[0].name # KeeperName => client.keeper = NoPid
  BY <1>1, OldSlot, Zenon DEF JoinBuf
<1>3. v \in Regions
  BY FirstUnmapped, Zenon DEF JoinBuf
<1>4. /\ ringbufs' = [ringbufs EXCEPT ![s] = r]
      /\ pagetable' = [pagetable EXCEPT ![p][v] = old.frame]
      /\ validRingBuf' = [validRingBuf EXCEPT ![p] = 1]
      /\ opened' = [opened EXCEPT ![p] = @ \cup {<<name, op>>}]
      /\ freelist' = freelist /\ state' = state /\ fault' = fault
      /\ old.pidsRW[op] = NoPid
  BY Zenon DEF JoinBuf, Enter, CanJoin
<1>5. old \in Slot
  BY <1>2, Zenon DEF TableInv, TableType
<1>6. EndsOK(old)
  BY <1>1, <1>2, Zenon DEF TableInv, NamesInv
<1> HIDE DEF s, v, old
<1>8. /\ r \in Slot /\ r.refcount = old.refcount + 1 /\ r.name = old.name /\ r.vabuf = v
      /\ r.pidsRW = [old.pidsRW EXCEPT ![op] = p]
  <2> DEFINE pids == [old.pidsRW EXCEPT ![op] = p]
             n == old.refcount + 1
  <2>1. pids \in [Ends -> Procs \cup {NoPid}] /\ n \in Nat /\ old.frame \in Frames \cup {NoFrame}
    BY <1>2, <1>5 DEF Slot
  <2>2. r = [old EXCEPT !.pidsRW = pids, !.refcount = n, !.frame = old.frame, !.vabuf = v]
    BY <1>5, Zenon DEF Slot
  <2> HIDE DEF r, pids, n
  <2>3. r \in Slot /\ r.refcount = n /\ r.name = old.name /\ r.vabuf = v /\ r.pidsRW = pids
    BY <1>3, <1>5, <2>1, <2>2, Zenon DEF Slot
  <2>. QED BY <2>3, Zenon DEF pids, n
<1> HIDE DEF r
<1>9. TableType'
  <2>1. ringbufs' \in [Slots -> Slot]
    BY <1>2, <1>4, <1>8, Zenon DEF TableInv, TableType
  <2>2. old.frame \in Frames \cup {NoFrame}
    BY <1>5, Zenon DEF Slot
  <2>3. pagetable' \in [Procs -> [Regions -> Frames \cup {NoFrame}]]
    BY <1>3, <1>4, <2>2, Zenon DEF TableInv, TableType
  <2>4. opened' \in [Procs -> SUBSET ((Names \cup {KeeperName}) \X Ends)]
    BY <1>4 DEF TableInv, TableType
  <2>5. validRingBuf' \in [Procs -> {0, 1}]
    BY <1>4, Zenon DEF TableInv, TableType
  <2>. QED BY <1>4, <2>1, <2>3, <2>4, <2>5, Zenon DEF TableInv, TableType
<1>10. Clean(r)
  BY <1>2, <1>8 DEF Clean
<1>11. EndsOK(r)
  <2>1. (\E e \in Ends : old.pidsRW[e] # NoPid) /\ old.refcount = 1
    BY <1>2, <1>4, <1>6, Zenon DEF EndsOK
  <2>2. r.refcount = 2
    BY <1>8, <2>1
  <2>3. \A e \in Ends : r.pidsRW[e] # NoPid
    <3>1. old.pidsRW \in [Ends -> Procs \cup {NoPid}]
      BY <1>5, Zenon DEF Slot
    <3>. QED BY <1>4, <1>8, <2>1, <3>1, ProcAssumption, Zenon DEF Ends
  <2>. QED BY <2>2, <2>3, Zenon DEF EndsOK, Ends
<1>12. NamesInv'
  <2>1. r \in Slot /\ r.vabuf \in Regions
    BY <1>3, <1>8, Zenon
  <2>2. ringbufs' = [ringbufs EXCEPT ![s] = r]
    BY <1>4, Zenon
  <2>. QED BY <1>1, <1>2, <1>10, <1>11, <2>1, <2>2, SlotChange, Zenon
<1>. QED BY <1>9, <1>12, Zenon DEF TableInv

\* What closebuf leaves in the slot: a free one after the last close.
LEMMA CloseSlotFacts ==
  ASSUME NEW s \in Slots, ringbufs[s] \in Slot, ringbufs[s].refcount \in Nat \ {0}
  PROVE  /\ CloseSlot(s) \in Slot /\ Clean(CloseSlot(s))
         /\ CloseSlot(s).refcount = ringbufs[s].refcount - 1
         /\ LastClose(s) => /\ CloseSlot(s).name = NoName /\ CloseSlot(s).vabuf = -1
                            /\ ringbufs[s].refcount = 1
         /\ ~LastClose(s) => /\ CloseSlot(s).name = ringbufs[s].name
                             /\ CloseSlot(s).vabuf = ringbufs[s].vabuf
                             /\ CloseSlot(s).pidsRW = ringbufs[s].pidsRW
                             /\ CloseSlot(s).frame = ringbufs[s].frame
                             /\ ringbufs[s].refcount > 1
<1> DEFINE old == ringbufs[s]
<1>1. old \in Slot /\ old.refcount \in Nat \ {0}
  BY Zenon
<1>2. old.frame \in Frames \cup {NoFrame}
  BY <1>1, Zenon DEF Slot
<1>3. CASE LastClose(s)
  <2>1. old.refcount = 1
    BY <1>1, <1>3 DEF LastClose
  <2>2. CloseSlot(s) = [FreeSlot EXCEPT !.frame = old.frame]
    BY <1>3, Zenon DEF CloseSlot
  <2>3. FreeSlot \in Slot
    BY Zenon DEF FreeSlot, Slot
  <2> HIDE DEF old
  <2>4. CloseSlot(s) \in Slot /\ CloseSlot(s).frame = old.frame
    BY <1>2, <2>2, <2>3, Zenon DEF Slot
  <2>5. CloseSlot(s).refcount = 0 /\ CloseSlot(s).name = NoName /\ CloseSlot(s).vabuf = -1
    BY <2>2, Zenon DEF FreeSlot
  <2>6. Clean(CloseSlot(s))
    BY <2>2, <2>4, Zenon DEF Clean
  <2>. QED BY <1>3, <2>1, <2>4, <2>5, <2>6 DEF old
<1>4. CASE ~LastClose(s)
  <2>1. old.refcount > 1 /\ old.refcount - 1 \in Nat \ {0}
    BY <1>1, <1>4 DEF LastClose
  <2>2. CloseSlot(s) = [old EXCEPT !.refcount = @ - 1]
    BY <1>4, Zenon DEF CloseSlot
  <2> HIDE DEF old
  <2>3. /\ CloseSlot(s) \in Slot /\ CloseSlot(s).refcount = old.refcount - 1
        /\ CloseSlot(s).name = old.name /\ CloseSlot(s).vabuf = old.vabuf
        /\ CloseSlot(s).pidsRW = old.pidsRW /\ CloseSlot(s).frame = old.frame
    BY <1>1, <2>1, <2>2, Zenon DEF Slot
  <2>4. Clean(CloseSlot(s))
    BY <2>1, <2>3, Zenon DEF Clean
  <2>. QED BY <1>4, <2>1, <2>3, <2>4, Zenon DEF old
<1>. QED BY <1>3, <1>4, Zenon

\* A call that ends in a panic changes only fault.
LEMMA FailsTable ==
  ASSUME TableInv, NEW what \in Faults, Fails(what), UNCHANGED client
  PROVE  TableInv'
BY Zenon DEF TableInv, TableType, NamesInv, Untouched, Fails

\* What is left to a client is part of what it had.
LEMMA WithoutFacts ==
  ASSUME NEW ends, NEW name, NEW op
  PROVE  Without(ends, name, op) \subseteq ends
BY Zenon DEF Without

\* closebuf keeps the table consistent.
LEMMA CloseBufTable ==
  ASSUME TableInv, NEW p \in Procs, NEW name \in Names, NEW op \in Ends,
         CloseBuf(p, name, op), UNCHANGED client
  PROVE  TableInv'
<1> DEFINE s == Min(Named(name))
           v == ringbufs[s].vabuf
           old == ringbufs[s]
           r == CloseSlot(s)
<1>1. CASE Named(name) = {} \/ v = -1 \/ pagetable[p][v] = NoFrame
  <2>1. \/ Fails("closebuf: ringbufs[16]") \/ Fails("closebuf: address 0")
        \/ Fails("panic: uvmunmap: not mapped")
    BY <1>1, Zenon DEF CloseBuf
  <2>. QED BY <2>1, FailsTable, Zenon DEF Faults
<1>2. CASE Named(name) # {} /\ v # -1 /\ pagetable[p][v] # NoFrame
  <2>1. /\ ringbufs' = [ringbufs EXCEPT ![s] = r]
        /\ pagetable' = [pagetable EXCEPT ![p][v] = NoFrame]
        /\ freelist' = IF LastClose(s) THEN freelist \cup {pagetable[p][v]} ELSE freelist
        /\ validRingBuf' = [validRingBuf EXCEPT ![p] = IF HasPid(ringbufs', p) THEN 1 ELSE 0]
        /\ opened' = [opened EXCEPT ![p] = Without(opened[p], name, op)]
        /\ state' = state /\ fault' = fault
    BY <1>2, Zenon DEF CloseBuf
  <2>2. /\ s \in Slots /\ old.name = name /\ old.refcount \in Nat \ {0} /\ v \in Regions
        /\ ringbufs[0].name = KeeperName => s # 0
        /\ ringbufs[0].name # KeeperName => client.keeper = NoPid
    BY <1>2, OldSlot, Zenon
  <2>3. old \in Slot
    BY <2>2, Zenon DEF TableInv, TableType
  <2>4. /\ r \in Slot /\ Clean(r) /\ r.refcount = old.refcount - 1
        /\ \/ r.name = NoName /\ r.vabuf = -1
           \/ r.name = old.name /\ r.vabuf = v /\ r.pidsRW = old.pidsRW /\ old.refcount > 1
    <3>1. s \in Slots /\ ringbufs[s] \in Slot /\ ringbufs[s].refcount \in Nat \ {0}
      BY <2>2, <2>3, Zenon
    <3> HIDE DEF s
    <3>. QED BY <3>1, CloseSlotFacts, Zenon
  <2>5. s # 0 => EndsOK(old)
    BY <2>2, Zenon DEF TableInv, NamesInv
  <2>6. old.vabuf # -1
    BY <1>2, Zenon
  <2> HIDE DEF s, v, old, r
  <2>7. TableType'
    <3>1. ringbufs' \in [Slots -> Slot]
      BY <2>1, <2>2, <2>4, Zenon DEF TableInv, TableType
    <3>2. pagetable' \in [Procs -> [Regions -> Frames \cup {NoFrame}]]
      BY <2>1, <2>2, Zenon DEF TableInv, TableType
    <3>3. pagetable[p][v] \in Frames
      <4>1. pagetable \in [Procs -> [Regions -> Frames \cup {NoFrame}]] /\ v \in Regions
        BY <2>2, Zenon DEF TableInv, TableType
      <4>2. pagetable[p] \in [Regions -> Frames \cup {NoFrame}]
        BY <4>1, Zenon
      <4>. QED BY <1>2, <4>1, <4>2, Zenon
    <3>4. freelist' \subseteq Frames
      BY <2>1, <3>3, Zenon DEF TableInv, TableType
    <3>5. opened' \in [Procs -> SUBSET ((Names \cup {KeeperName}) \X Ends)]
      <4>1. Without(opened[p], name, op) \in SUBSET ((Names \cup {KeeperName}) \X Ends)
        BY WithoutFacts, Zenon DEF TableInv, TableType
      <4>. QED BY <2>1, <4>1, Zenon DEF TableInv, TableType
    <3>6. validRingBuf' \in [Procs -> {0, 1}]
      BY <2>1, Zenon DEF TableInv, TableType
    <3>. QED BY <2>1, <3>1, <3>2, <3>4, <3>5, <3>6, Zenon DEF TableInv, TableType
  <2>8. s # 0 => EndsOK(r)
    <3>1. SUFFICES ASSUME EndsOK(old), r.vabuf # -1 PROVE EndsOK(r)
      BY <2>5, Zenon DEF EndsOK
    <3>2. old.refcount = 2 /\ r.pidsRW = old.pidsRW
      BY <2>2, <2>4, <2>6, <3>1 DEF EndsOK
    <3>3. r.refcount = 1
      BY <2>4, <3>2
    <3>. QED BY <2>6, <3>1, <3>2, <3>3, Zenon DEF EndsOK
  <2>9. r.name # NoName => r.vabuf \in Regions
    BY <2>2, <2>4, Zenon
  <2>10. r.name # KeeperName
    BY <2>2, <2>4, NameFacts, NameAssumption, Zenon
  <2>11. ringbufs' = [ringbufs EXCEPT ![s] = r] /\ r \in Slot /\ Clean(r)
    BY <2>1, <2>4, Zenon
  <2>12. NamesInv'
    BY <2>2, <2>8, <2>9, <2>10, <2>11, SlotChange, Zenon
  <2>. QED BY <2>7, <2>12, Zenon DEF TableInv
<1>. QED BY <1>1, <1>2, Zenon

\* createbuf joins a slot other than the first, or makes a new ring.
LEMMA CreateBufCases ==
  ASSUME NEW p, NEW name, NEW op, CreateBuf(p, name, op)
  PROVE  \/ /\ Named(name) # {} /\ Min(Named(name)) > 0
            /\ \/ JoinBuf(p, Min(Named(name)), name, op) \/ JoinNoRing(p, Min(Named(name)), op)
               \/ RefuseJoin(p, Min(Named(name)), op)
         \/ NewName(name) /\ SlotForNew(name) = -1 /\ Fails("createbuf: ringbufs[-1]")
         \/ /\ NewName(name) /\ SlotForNew(name) # -1
            /\ \/ NewBuf(p, SlotForNew(name), name, op) \/ NewBufStarved(p)
               \/ NewBufFails(p, SlotForNew(name), name, op)
<1>1. ~(Named(name) # {} /\ Min(Named(name)) > 0) => NewName(name)
  <2>1. Named(name) # {} => Min(Named(name)) \in Nat
    BY FirstNamed, TableAssumption DEF Slots
  <2>. QED BY <2>1 DEF NewName
<1>. QED BY <1>1, Zenon DEF CreateBuf

\* createbuf keeps the table consistent, on every path.
LEMMA CreateBufTable ==
  ASSUME TableInv, NEW p \in Procs, NEW name \in Names \cup {KeeperName}, NEW op \in Ends,
         MayOpen(p, name), CreateBuf(p, name, op), UNCHANGED client
  PROVE  TableInv'
<1>1. CASE Named(name) # {} /\ Min(Named(name)) > 0 /\ JoinBuf(p, Min(Named(name)), name, op)
  BY <1>1, JoinBufTable, Zenon
<1>2. CASE RefuseJoin(p, Min(Named(name)), op)
  BY <1>2, Zenon DEF RefuseJoin, TableInv, TableType, NamesInv, Untouched
<1>3. CASE \/ Fails("createbuf: ringbufs[-1]") \/ NewBufStarved(p)
           \/ JoinNoRing(p, Min(Named(name)), op)
  BY <1>3, FailsTable, Zenon DEF NewBufStarved, JoinNoRing, Faults
<1>4. CASE NewName(name) /\ SlotForNew(name) # -1 /\ NewBuf(p, SlotForNew(name), name, op)
  BY <1>4, NewBufTable, Zenon
<1>5. CASE NewName(name) /\ SlotForNew(name) # -1 /\ NewBufFails(p, SlotForNew(name), name, op)
  BY <1>5, NewBufFailsTable, Zenon
<1>. QED BY <1>1, <1>2, <1>3, <1>4, <1>5, CreateBufCases, Zenon

\* fork, exit, exec and wait leave the table alone.
LEMMA LeaveTable ==
  ASSUME TableInv, NEW p \in Procs, Fork(p) \/ Exit(p) \/ Exec(p) \/ Reap(p), UNCHANGED client
  PROVE  TableInv'
<1>1. CASE Fails("panic: freewalk: leaf")
  BY <1>1, FailsTable, Zenon DEF Faults
<1>2. CASE /\ UNCHANGED <<ringbufs, pagetable, freelist, validRingBuf, fault>>
           /\ state' \in [Procs -> {"unused", "running", "zombie", "gone"}]
           /\ opened' \in [Procs -> SUBSET ((Names \cup {KeeperName}) \X Ends)]
  BY <1>2, Zenon DEF TableInv, TableType, NamesInv, Untouched
<1>3. /\ [state EXCEPT ![p] = "zombie"] \in [Procs -> {"unused", "running", "zombie", "gone"}]
      /\ [state EXCEPT ![p] = "gone"] \in [Procs -> {"unused", "running", "zombie", "gone"}]
      /\ [opened EXCEPT ![p] = {}] \in [Procs -> SUBSET ((Names \cup {KeeperName}) \X Ends)]
      /\ state \in [Procs -> {"unused", "running", "zombie", "gone"}]
      /\ opened \in [Procs -> SUBSET ((Names \cup {KeeperName}) \X Ends)]
  BY Zenon DEF TableInv, TableType
<1>4. CASE Exit(p)
  BY <1>2, <1>3, <1>4, Zenon DEF Exit
<1>5. CASE Exec(p)
  BY <1>1, <1>2, <1>3, <1>5, Zenon DEF Exec
<1>6. CASE Reap(p)
  BY <1>1, <1>2, <1>3, <1>6, Zenon DEF Reap
<1>7. CASE Fork(p)
  <2>1. PICK q \in client.procs : /\ state' = [state EXCEPT ![q] = "running"] /\ UNCHANGED opened
                                  /\ UNCHANGED <<ringbufs, pagetable, freelist, validRingBuf, fault>>
    BY <1>7, Zenon DEF Fork
  <2>2. [state EXCEPT ![q] = "running"] \in [Procs -> {"unused", "running", "zombie", "gone"}]
    BY Zenon DEF TableInv, TableType
  <2>. QED BY <1>2, <1>3, <2>1, <2>2, Zenon
<1>. QED BY <1>4, <1>5, <1>6, <1>7, Zenon

\* Every step keeps the table consistent.
LEMMA NextTable == TableInv /\ [Next]_vars => TableInv'
<1>1. ASSUME TableInv, UNCHANGED vars PROVE TableInv'
  BY <1>1, Zenon DEF TableInv, TableType, NamesInv, Untouched, vars
<1>2. ASSUME TableInv, Next PROVE TableInv'
  <2>1. UNCHANGED client
    BY <1>2, Zenon DEF Next
  <2>2. PICK p \in Procs : ClientStep(p) \/ ParentStep(p)
    BY <1>2, Zenon DEF Next
  <2>3. ASSUME NEW name \in Names \cup {KeeperName}, NEW op \in Ends,
               MayOpen(p, name), createRingBuf(p, name, op)
        PROVE  TableInv'
    BY <1>2, <2>1, <2>3, CreateBufTable, Zenon DEF createRingBuf
  <2>4. ASSUME NEW name \in Names, NEW op \in Ends, closeRingBuf(p, name, op)
        PROVE  TableInv'
    BY <1>2, <2>1, <2>4, CloseBufTable, Zenon DEF closeRingBuf
  <2>5. CASE Fork(p) \/ Exit(p) \/ Exec(p) \/ Reap(p)
    BY <1>2, <2>1, <2>5, LeaveTable, Zenon
  <2>. QED BY <2>2, <2>3, <2>4, <2>5, Zenon DEF ClientStep, ParentStep
<1>. QED BY <1>1, <1>2, Zenon

\* The table is consistent at boot.
LEMMA InitTable == Init => TableInv
<1>1. SUFFICES ASSUME Init PROVE TableInv
  BY Zenon
<1>2. FreeSlot \in Slot
  BY Zenon DEF FreeSlot, Slot
<1>3. ringbufs \in [Slots -> Slot]
  BY <1>1, <1>2, Zenon DEF Init
<1>4. client.frames \subseteq Frames
  BY <1>1, ClientFacts, Zenon DEF Init
<1>5. TableType
  BY <1>1, <1>3, <1>4, Zenon DEF Init, TableType, Faults
<1>6. \A s \in Slots : ringbufs[s] = FreeSlot
  BY <1>1, Zenon DEF Init
<1>7. /\ FreeSlot.refcount = 0 /\ FreeSlot.name = NoName /\ FreeSlot.vabuf = -1
      /\ FreeSlot = [FreeSlot EXCEPT !.frame = FreeSlot.frame]
  BY Zenon DEF FreeSlot
<1>8. Untouched
  BY <1>1, <1>6, <1>7, Zenon DEF Init, Untouched
<1>9. ringbufs[0].name # KeeperName
  BY <1>6, <1>7, NameFacts, Zenon
<1>10. NamesInv
  BY <1>6, <1>7, <1>8, <1>9, Zenon DEF NamesInv, Clean, EndsOK
<1>. QED BY <1>5, <1>10, Zenon DEF TableInv

\* The library's descriptors keep their types.
LEMMA WithDescType ==
  ASSUME DescType, NEW p \in Procs, NEW name \in Names \cup {KeeperName}
  PROVE  WithDesc(p, name) \in
           [Procs -> [Descs -> [exists : BOOLEAN, name : Names \cup {NoName, KeeperName}]]]
<1> DEFINE free == {i \in Descs : ~desc[p][i].exists}
           d == [exists |-> CreateBufResult(name) = 0, name |-> name]
<1>1. CASE free = {} \/ name \in OverlongNames
  BY <1>1, Zenon DEF DescType, WithDesc
<1>2. CASE free # {} /\ name \notin OverlongNames
  <2>1. free \subseteq Nat
    BY BoundAssumption DEF Descs
  <2>2. Min(free) \in Descs
    BY <1>2, <2>1, MinIn, Zenon
  <2>3. WithDesc(p, name) = [desc EXCEPT ![p][Min(free)] = d]
    BY <1>2, Zenon DEF WithDesc
  <2>4. d \in [exists : BOOLEAN, name : Names \cup {NoName, KeeperName}]
    BY Zenon
  <2> HIDE DEF free, d
  <2>. QED BY <2>2, <2>3, <2>4 DEF DescType
<1>. QED BY <1>1, <1>2, Zenon

\* The library's descriptors keep their shape in every step.
LEMMA NextDesc == DescType /\ [Next]_vars => DescType'
<1>1. ASSUME DescType, UNCHANGED desc PROVE DescType'
  BY <1>1, Zenon DEF DescType
<1>2. ASSUME DescType, Next PROVE DescType'
  <2>1. PICK p \in Procs : ClientStep(p) \/ ParentStep(p)
    BY <1>2, Zenon DEF Next
  <2>2. ASSUME NEW name \in Names \cup {KeeperName}, NEW op \in Ends, createRingBuf(p, name, op)
        PROVE  DescType'
    BY <1>1, <1>2, <2>2, WithDescType, Zenon DEF createRingBuf, DescType
  <2>3. ASSUME NEW name \in Names, NEW op \in Ends, closeRingBuf(p, name, op)
        PROVE  DescType'
    <3>1. CASE UNCHANGED desc
      BY <1>1, <1>2, <3>1, Zenon
    <3>2. CASE \E rd \in Descs : desc' = [desc EXCEPT ![p][rd].exists = FALSE]
      <4>1. PICK rd \in Descs : desc' = [desc EXCEPT ![p][rd].exists = FALSE]
        BY <3>2, Zenon
      <4> DEFINE old == desc[p][rd]
                 d == [old EXCEPT !.exists = FALSE]
                 N == Names \cup {NoName, KeeperName}
      <4>2. d \in [exists : BOOLEAN, name : N]
        <5>1. old \in [exists : BOOLEAN, name : N]
          BY <1>2, Zenon DEF DescType
        <5> HIDE DEF old, N
        <5>. QED BY <5>1, Zenon
      <4>3. desc' = [desc EXCEPT ![p][rd] = d]
        BY <4>1, Zenon
      <4> HIDE DEF d
      <4>. QED BY <1>2, <4>2, <4>3, Zenon DEF DescType
    <3>. QED BY <2>3, <3>1, <3>2, Zenon DEF closeRingBuf
  <2>4. CASE desc' = [desc EXCEPT ![p] = NoDescs]
    <3>1. NoDescs \in [Descs -> [exists : BOOLEAN, name : Names \cup {NoName, KeeperName}]]
      BY Zenon DEF NoDescs
    <3>. QED BY <1>2, <2>4, <3>1, Zenon DEF DescType
  <2>5. CASE Exit(p) \/ Exec(p) \/ Reap(p)
    BY <1>1, <1>2, <2>4, <2>5, Zenon DEF Exit, Exec, Reap
  <2>6. CASE Fork(p)
    <3>1. PICK q \in client.procs : desc' = [desc EXCEPT ![q] = desc[p]]
      BY <2>6, Zenon DEF Fork
    <3>. QED BY <1>2, <3>1, Zenon DEF DescType
  <2>. QED BY <2>1, <2>2, <2>3, <2>5, <2>6, Zenon DEF ClientStep, ParentStep
<1>. QED BY <1>1, <1>2, Zenon DEF vars

\* They have it at boot.
LEMMA InitDesc == Init => DescType
<1>1. NoDescs \in [Descs -> [exists : BOOLEAN, name : Names \cup {NoName, KeeperName}]]
  BY Zenon DEF NoDescs
<1>. QED BY <1>1 DEF Init, DescType

\* The table is consistent in every reachable state.
LEMMA TableSafe == Spec => [](TableInv /\ DescType)
BY InitTable, NextTable, InitDesc, NextDesc, PTL DEF Spec

\* The table, the page tables, the descriptors and the free list keep their
\* types, whatever createbuf, closebuf, fork, exit, exec and wait are called with.
THEOREM TypeCorrect == Spec => []TypeOK
<1>1. TableInv /\ DescType => TypeOK
  <2>1. SUFFICES ASSUME TableInv, DescType PROVE TypeOK
    BY Zenon
  <2>2. ASSUME NEW s \in Slots
        PROVE  /\ ringbufs[s].refcount \in Nat
               /\ ringbufs[s].name \in Names \cup {NoName, Prefix, KeeperName}
               /\ ringbufs[s].pidsRW \in [Ends -> Procs \cup {NoPid}]
               /\ ringbufs[s].frame \in Frames \cup {NoFrame}
               /\ ringbufs[s].vabuf \in Regions \cup {-1}
    <3>1. ringbufs[s] \in Slot
      BY <2>1, Zenon DEF TableInv, TableType
    <3>. QED BY <3>1, Zenon DEF Slot
  <2>. QED BY <2>1, <2>2, Zenon DEF TableInv, TableType, DescType, TypeOK
<1>. QED BY <1>1, TableSafe, PTL

\* Whatever clients do, with the empty name, with a ring in slot 0, with calls that
\* fail half way: a slot with count 0 keeps nothing of the ring it had, and a ring
\* outside slot 0 is counted once or twice and no more often than pidsRW has ends
\* registered, for any number of slots and processes.
THEOREM CountsMatchEnds == Spec => []EndsCounted
<1>1. TableInv => EndsCounted
  <2>1. SUFFICES ASSUME TableInv PROVE EndsCounted
    BY Zenon
  <2>2. FreeSlotClean
    BY <2>1, Zenon DEF TableInv, NamesInv, Clean, FreeSlotClean
  <2>3. ASSUME NEW s \in Slots \ {0}, ringbufs[s].vabuf # -1
        PROVE  ringbufs[s].refcount \in 1..Cardinality({e \in Ends : ringbufs[s].pidsRW[e] # NoPid})
    <3> DEFINE n == ringbufs[s].refcount
               E == {e \in Ends : ringbufs[s].pidsRW[e] # NoPid}
    <3>1. n \in {1, 2} /\ E # {} /\ (E # Ends => n = 1)
      BY <2>1, <2>3, Zenon DEF TableInv, NamesInv, EndsOK
    <3>2. E \subseteq Ends
      BY Zenon
    <3> HIDE DEF n, E
    <3>3. CASE E = Ends
      <4>1. Ends = {0} \cup {1} /\ 1 \notin {0}
        BY DEF Ends
      <4>2. IsFiniteSet({0}) /\ Cardinality({0}) = 1
        BY FS_Singleton, Zenon
      <4>3. Cardinality({0} \cup {1}) = Cardinality({0}) + 1
        BY <4>1, <4>2, FS_AddElement, Zenon
      <4>4. Cardinality(E) = 2
        BY <3>3, <4>1, <4>2, <4>3
      <4>. QED BY <3>1, <4>4 DEF n, E
    <3>4. CASE E # Ends
      <4>1. E = {0} \/ E = {1}
        BY <3>1, <3>2, <3>4, Zenon DEF Ends
      <4>2. Cardinality(E) = 1
        BY <4>1, FS_Singleton, Zenon
      <4>. QED BY <3>1, <3>4, <4>2 DEF n, E
    <3>. QED BY <3>3, <3>4, Zenon
  <2>. QED BY <2>2, <2>3, Zenon DEF EndsCounted
<1>. QED BY <1>1, TableSafe, PTL

-----------------------------------------------------------------------------
(* Careful clients: the invariant, and what createbuf and closebuf do to   *)
(* it.                                                                     *)

InUse(s) == ringbufs[s].refcount > 0

\* p has end e of slot s open.
Holds(p, s, e) == ringbufs[s].pidsRW[e] = p /\ <<ringbufs[s].name, e>> \in opened[p]

Held(s, e) == IF \E p \in Procs : Holds(p, s, e) THEN 1 ELSE 0

\* A slot in use: its ring has a frame of its own and a name of its own.
SlotOK(s) ==
  /\ ringbufs[s].name \in client.names \cup {KeeperName} /\ ringbufs[s].name # NoName
  /\ ringbufs[s].frame \in client.frames \ freelist
  /\ ringbufs[s].vabuf = 0
  /\ ringbufs[s].refcount = Held(s, 0) + Held(s, 1)
  /\ \A t \in Slots \ {s} : InUse(t) =>
       ringbufs[t].name # ringbufs[s].name /\ ringbufs[t].frame # ringbufs[s].frame

\* p has only the ring of slot s, mapped at the first region.
HasRing(p, s, e) ==
  /\ InUse(s) /\ opened[p] = {<<ringbufs[s].name, e>>} /\ ringbufs[s].pidsRW[e] = p
  /\ pagetable[p][0] = ringbufs[s].frame
  /\ \A v \in Regions \ {0} : pagetable[p][v] = NoFrame

ProcOK(p) ==
  \/ opened[p] = {} /\ \A v \in Regions : pagetable[p][v] = NoFrame
  \/ state[p] = "running" /\ \E s \in Slots, e \in Ends : HasRing(p, s, e)

RingInv ==
  /\ fault = "none" /\ freelist \subseteq client.frames
  /\ \A s \in Slots : InUse(s) => SlotOK(s)
  /\ \A f \in client.frames \ freelist : \E s \in Slots : InUse(s) /\ ringbufs[s].frame = f
  /\ \A p \in Procs : ProcOK(p)
  /\ \A p \in client.born : state[p] # "unused"

\* A process has one descriptor at most, of the ring it has open.
DescOK(p) ==
  \A i \in Descs : desc[p][i].exists =>
    /\ \E op \in Ends : <<desc[p][i].name, op>> \in opened[p]
    /\ \A j \in Descs \ {i} : ~desc[p][j].exists

\* What clients that do not keep track of their rings rely on.
DescInv == client.strayClose => \A p \in Procs : DescOK(p)

CarefulInv == Careful => RingInv /\ DescInv

\* Facts about a slot and a process, as the steps below use them.
LEMMA SlotFacts ==
  ASSUME TableInv, RingInv, NEW s \in Slots, InUse(s)
  PROVE  /\ ringbufs[s] \in Slot /\ ringbufs[s].refcount \in Nat
         /\ ringbufs[s].name \in client.names \cup {KeeperName} /\ ringbufs[s].name # NoName
         /\ ringbufs[s].frame \in client.frames \ freelist /\ ringbufs[s].frame # NoFrame
         /\ ringbufs[s].vabuf = 0
         /\ ringbufs[s].refcount = Held(s, 0) + Held(s, 1)
         /\ \A t \in Slots : InUse(t) /\ (ringbufs[t].name = ringbufs[s].name
                                          \/ ringbufs[t].frame = ringbufs[s].frame) => t = s
<1>1. SlotOK(s)
  BY Zenon DEF RingInv
<1>2. ringbufs[s] \in Slot /\ ringbufs[s].refcount \in Nat
  BY Zenon DEF TableInv, TableType, Slot
<1>3. client.names \subseteq Names /\ client.frames \subseteq Frames
  BY ClientFacts, Zenon DEF TableInv, TableType
<1>4. ringbufs[s].frame # NoFrame
  BY <1>1, <1>3, FrameAssumption, Zenon DEF SlotOK
<1>. QED BY <1>1, <1>2, <1>4, Zenon DEF SlotOK

\* The slot that the search finds is in use, and is the only one of its name.
LEMMA FoundSlot ==
  ASSUME TableInv, RingInv, NEW name \in Names \cup {KeeperName}, name # NoName,
         NEW s \in Slots, ringbufs[s].name = name
  PROVE  Named(name) # {} /\ Min(Named(name)) = s /\ InUse(s)
<1>1. \A t \in Slots : ringbufs[t].name = name => InUse(t)
  <2>1. SUFFICES ASSUME NEW t \in Slots, ringbufs[t].name = name PROVE InUse(t)
    BY Zenon
  <2>2. ringbufs[t].refcount # 0
    BY <2>1, NamedInUse, Zenon
  <2>3. ringbufs[t].refcount \in Nat
    BY Zenon DEF TableInv, TableType, Slot
  <2>. QED BY <2>2, <2>3 DEF InUse
<1>2. Named(name) # {}
  BY Zenon DEF Named
<1>3. Min(Named(name)) \in Slots /\ ringbufs[Min(Named(name))].name = name
  BY <1>2, FirstNamed, Zenon
<1>. QED BY <1>1, <1>2, <1>3, SlotFacts, Zenon

\* A client that may open a ring has none, so its first region is free.
LEMMA OpenerFacts ==
  ASSUME TableInv, Careful, RingInv, NEW p \in Procs, NEW name, MayOpen(p, name)
  PROVE  /\ opened[p] = {} /\ \A v \in Regions : pagetable[p][v] = NoFrame
         /\ Unmapped(p) # {} /\ Min(Unmapped(p)) = 0
<1>1. opened[p] = {} /\ \A v \in Regions : pagetable[p][v] = NoFrame
  <2>1. ASSUME NEW s \in Slots, NEW e \in Ends, HasRing(p, s, e) PROVE FALSE
    <3>1. Cardinality(opened[p]) = 1
      BY <2>1, FS_Singleton, Zenon DEF HasRing
    <3>2. client.maxOpen \in Nat /\ client.maxOpen <= 1 /\ 1 < client.maxOpen
      BY <3>1, ClientFacts, Zenon DEF TableInv, TableType, Careful, MayOpen
    <3>. QED BY <3>2
  <2>. QED BY <2>1, Zenon DEF RingInv, ProcOK
<1>2. 0 \in Unmapped(p) /\ Unmapped(p) \subseteq Nat
  BY <1>1, NameFacts, TableAssumption DEF Unmapped, Regions
<1>3. Min(Unmapped(p)) = 0
  <2>1. Min(Unmapped(p)) \in Nat /\ Min(Unmapped(p)) <= 0
    BY <1>2, MinIn, Zenon
  <2>. QED BY <2>1
<1>. QED BY <1>1, <1>2, <1>3, Zenon

\* Careful clients give no empty name.
LEMMA CarefulName ==
  ASSUME Careful, NEW p, NEW name, MayOpen(p, name)
  PROVE  name # NoName
BY NameAssumption, Zenon DEF Careful, MayOpen

\* A name that is not joined is nowhere in the table.
LEMMA NewNameFacts ==
  ASSUME TableInv, Careful, NEW p \in Procs, NEW name \in Names \cup {KeeperName},
         MayOpen(p, name), NewName(name)
  PROVE  /\ \A t \in Slots : ringbufs[t].name # name
         /\ Untouched \/ name \in client.names
         /\ name \in client.names \cup {KeeperName} /\ Stored(name) = name
<1>1. client.names \subseteq Names /\ client.keeper # NoPid
  BY ClientFacts, Zenon DEF TableInv, TableType, Careful
<1>2. CASE ringbufs[0].name = KeeperName
  <2>1. name \in client.names
    BY <1>2, Zenon DEF MayOpen
  <2>2. \A t \in Slots : ringbufs[t].name # name
    BY <1>2, NewNameUnique, Zenon
  <2>. QED BY <2>1, <2>2, Zenon DEF Stored, Careful
<1>3. CASE ringbufs[0].name # KeeperName
  <2>1. name = KeeperName /\ Untouched
    BY <1>1, <1>3, Zenon DEF MayOpen, TableInv, NamesInv
  <2>2. \A t \in Slots : ringbufs[t].name = NoName
    BY <2>1, Zenon DEF Untouched, TableInv, NamesInv, Clean, FreeSlot
  <2>. QED BY <2>1, <2>2, NameFacts, NameAssumption, Zenon DEF Stored
<1>. QED BY <1>2, <1>3, Zenon

\* There is a slot and a frame for every name, by the pigeonhole principle: the
\* slots in use have different names, of which the new one is none.
LEMMA OtherNames ==
  ASSUME TableInv, NEW name \in client.names
  PROVE  /\ IsFiniteSet((client.names \ {name}) \cup {KeeperName})
         /\ Cardinality((client.names \ {name}) \cup {KeeperName}) = Cardinality(client.names)
         /\ Cardinality(client.names) \in Nat
<1>1. client.names \subseteq Names /\ KeeperName \notin client.names
  BY ClientFacts, NameAssumption, Zenon DEF TableInv, TableType
<1> DEFINE N == client.names
           M == N \ {name}
<1>2. IsFiniteSet(N) /\ Cardinality(N) \in Nat
  BY <1>1, NameAssumption, FS_Subset, FS_CardinalityType, Zenon
<1>3. IsFiniteSet(M) /\ Cardinality(M) = Cardinality(N) - 1
  BY <1>2, FS_RemoveElement, Zenon
<1>4. KeeperName \notin M
  BY <1>1, Zenon
<1> HIDE DEF M, N
<1>5. IsFiniteSet(M \cup {KeeperName}) /\ Cardinality(M \cup {KeeperName}) = Cardinality(M) + 1
  BY <1>3, <1>4, FS_AddElement, Zenon
<1>6. Cardinality(M \cup {KeeperName}) = Cardinality(N)
  BY <1>2, <1>3, <1>5
<1>. QED BY <1>2, <1>5, <1>6, Zenon DEF M, N

\* With careful clients there is a free slot for a new name.
LEMMA SlotForName ==
  ASSUME TableInv, Careful, RingInv, NEW p \in Procs, NEW name \in Names \cup {KeeperName},
         MayOpen(p, name), NewName(name)
  PROVE  \E s \in Slots : ringbufs[s].refcount = 0
<1>1. CASE Untouched
  BY <1>1, NameFacts, Zenon DEF Untouched
<1>2. CASE name \in client.names
  <2>1. SUFFICES ASSUME \A s \in Slots : ringbufs[s].refcount # 0 PROVE FALSE
    BY Zenon
  <2> DEFINE T == (client.names \ {name}) \cup {KeeperName}
             f == [s \in Slots |-> ringbufs[s].name]
  <2>2. \A s \in Slots : InUse(s)
    BY <2>1 DEF InUse, TableInv, TableType, Slot
  <2>3. f \in [Slots -> T]
    <3>1. ASSUME NEW s \in Slots PROVE ringbufs[s].name \in T
      BY <2>2, SlotFacts, NewNameFacts, Zenon
    <3>. QED BY <3>1, Zenon
  <2>4. IsFiniteSet(Slots) /\ Cardinality(Slots) = MaxRingbufs
    BY FS_Interval, TableAssumption DEF Slots
  <2>5. IsFiniteSet(T) /\ Cardinality(T) < Cardinality(Slots)
    <3>1. IsFiniteSet(T) /\ Cardinality(T) = Cardinality(client.names)
      BY <1>2, OtherNames, Zenon
    <3>2. Cardinality(client.names) < MaxRingbufs
      BY Zenon DEF Careful
    <3> HIDE DEF T
    <3>. QED BY <2>4, <3>1, <3>2, Zenon
  <2> HIDE DEF T, f
  <2>6. \E s, t \in Slots : s # t /\ f[s] = f[t]
    BY <2>3, <2>4, <2>5, FS_PigeonHole, Zenon
  <2>7. PICK s, t \in Slots : s # t /\ ringbufs[s].name = ringbufs[t].name
    BY <2>6, Zenon DEF f
  <2>. QED BY <2>2, <2>7, SlotFacts, Zenon
<1>. QED BY <1>1, <1>2, NewNameFacts, Zenon

\* With careful clients there is a free frame for a new name.
LEMMA FrameForName ==
  ASSUME TableInv, Careful, RingInv, NEW p \in Procs, NEW name \in Names \cup {KeeperName},
         MayOpen(p, name), NewName(name)
  PROVE  freelist # {}
<1> DEFINE F == client.frames
<1>1. F \subseteq Frames /\ client.names \subseteq Names
  BY ClientFacts, Zenon DEF TableInv, TableType
<1>2. /\ IsFiniteSet(F) /\ Cardinality(F) \in Nat
      /\ IsFiniteSet(client.names) /\ Cardinality(client.names) \in Nat
  BY <1>1, FrameAssumption, NameAssumption, FS_Subset, FS_CardinalityType, Zenon
<1>3. SUFFICES ASSUME freelist = {} PROVE FALSE
  BY Zenon
<1>4. \A f \in F : \E s \in Slots : InUse(s) /\ ringbufs[s].frame = f
  BY <1>3, Zenon DEF RingInv
<1>5. CASE Untouched
  <2>1. F = {}
    BY <1>4, <1>5 DEF Untouched, InUse
  <2>2. Cardinality(F) = 0
    BY <2>1, FS_EmptySet, Zenon
  <2>. QED BY <1>2, <2>2 DEF Careful
<1>6. CASE name \in client.names
  <2> DEFINE T == (client.names \ {name}) \cup {KeeperName}
             slot(f) == CHOOSE s \in Slots : InUse(s) /\ ringbufs[s].frame = f
             g == [f \in F |-> ringbufs[slot(f)].name]
  <2>1. \A f \in F : slot(f) \in Slots /\ InUse(slot(f)) /\ ringbufs[slot(f)].frame = f
    BY <1>4, Zenon
  <2> HIDE DEF slot
  <2>2. g \in [F -> T]
    <3>1. ASSUME NEW f \in F PROVE ringbufs[slot(f)].name \in T
      BY <2>1, SlotFacts, NewNameFacts, Zenon
    <3>. QED BY <3>1, Zenon
  <2>3. IsFiniteSet(T) /\ Cardinality(T) < Cardinality(F)
    <3>1. IsFiniteSet(T) /\ Cardinality(T) = Cardinality(client.names)
      BY <1>6, OtherNames, Zenon
    <3>2. Cardinality(client.names) < Cardinality(F)
      BY Zenon DEF Careful
    <3> HIDE DEF T, F
    <3>. QED BY <3>1, <3>2, Zenon
  <2> HIDE DEF T, F, g
  <2>4. \E x, y \in F : x # y /\ g[x] = g[y]
    BY <1>2, <2>2, <2>3, FS_PigeonHole, Zenon
  <2>5. PICK x, y \in F : x # y /\ ringbufs[slot(x)].name = ringbufs[slot(y)].name
    BY <2>4, Zenon DEF g
  <2>. QED BY <2>1, <2>5, SlotFacts
<1>. QED BY <1>5, <1>6, NewNameFacts, Zenon

\* createbuf of a new name finds a free slot, a free frame and a free region.
LEMMA NewBufGoesWell ==
  ASSUME TableInv, Careful, RingInv, NEW p \in Procs, NEW name \in Names \cup {KeeperName},
         MayOpen(p, name), NewName(name)
  PROVE  /\ SlotForNew(name) \in Slots /\ SlotForNew(name) # -1
         /\ ringbufs[SlotForNew(name)].refcount = 0
         /\ freelist # {} /\ Unmapped(p) # {}
<1> DEFINE free == {s \in Slots : ringbufs[s].refcount = 0}
<1>1. free # {} /\ free \subseteq Nat
  BY SlotForName, TableAssumption DEF Slots
<1>2. Min(free) \in free /\ Min(free) \in Nat
  BY <1>1, MinIn, Zenon
<1>3. SlotForNew(name) = Min(free)
  BY <1>1, Zenon DEF SlotForNew
<1> HIDE DEF free
<1>4. SlotForNew(name) # -1
  BY <1>2, <1>3
<1>. QED BY <1>2, <1>3, <1>4, FrameForName, OpenerFacts, Zenon DEF free

\* What a call of p for an end op of slot s and name n leaves as it was: who has
\* the ends of the other slots.
LEMMA HeldElsewhere ==
  ASSUME NEW p \in Procs, NEW s \in Slots, NEW n, NEW op \in Ends,
         \A t \in Slots \ {s} : ringbufs'[t] = ringbufs[t],
         \A q \in Procs \ {p} : opened'[q] = opened[q],
         opened[p] \subseteq {<<n, op>>}, opened'[p] \subseteq {<<n, op>>},
         NEW t \in Slots \ {s}, ringbufs[t].name # n, NEW e \in Ends
  PROVE  Held(t, e)' = Held(t, e)
<1>1. ASSUME NEW q \in Procs PROVE Holds(q, t, e)' <=> Holds(q, t, e)
  <2>1. CASE q = p
    BY <2>1, Zenon DEF Holds
  <2>2. CASE q # p
    BY <2>2, Zenon DEF Holds
  <2>. QED BY <2>1, <2>2, Zenon
<1>. QED BY <1>1, Zenon DEF Held

\* The count of a slot when one end, op, changes from x to y.
LEMMA HeldChange ==
  ASSUME NEW s \in Slots, NEW op \in Ends, NEW x \in {0, 1}, NEW y \in {0, 1}, NEW n \in Nat,
         Held(s, op) = x, Held(s, op)' = y, \A e \in Ends \ {op} : Held(s, e)' = Held(s, e),
         n = Held(s, 0) + Held(s, 1)
  PROVE  Held(s, 0)' + Held(s, 1)' = (n - x) + y
<1>1. Held(s, 0) \in {0, 1} /\ Held(s, 1) \in {0, 1}
  BY Zenon DEF Held
<1>2. CASE op = 0
  <2>1. Held(s, 1)' = Held(s, 1)
    BY <1>2, Zenon DEF Ends
  <2>. QED BY <1>1, <1>2, <2>1
<1>3. CASE op = 1
  <2>1. Held(s, 0)' = Held(s, 0)
    BY <1>3, Zenon DEF Ends
  <2>. QED BY <1>1, <1>3, <2>1
<1>. QED BY <1>2, <1>3, Zenon DEF Ends

\* createbuf, whether it joins a ring or makes one: p gets end op of slot s, which
\* has this name and frame, and nothing else changes hands.
Opens(p, s, op, name, f) ==
  /\ opened[p] = {} /\ state[p] = "running"
  /\ InUse(s)' /\ ringbufs'[s].name = name /\ ringbufs'[s].frame = f
  /\ ringbufs'[s].vabuf = 0 /\ ringbufs'[s].pidsRW[op] = p
  /\ ringbufs'[s].refcount = Held(s, 0)' + Held(s, 1)'
  /\ \A t \in Slots \ {s} : ringbufs'[t] = ringbufs[t]
  /\ \A t \in Slots \ {s} : InUse(t) => ringbufs[t].name # name /\ ringbufs[t].frame # f
  /\ InUse(s) => /\ ringbufs[s].name = name /\ ringbufs[s].frame = f
                 /\ \A e \in Ends : ringbufs[s].pidsRW[e] \in Procs =>
                      ringbufs'[s].pidsRW[e] = ringbufs[s].pidsRW[e]
  /\ opened'[p] = {<<name, op>>} /\ \A q \in Procs \ {p} : opened'[q] = opened[q]
  /\ pagetable'[p][0] = f /\ \A v \in Regions \ {0} : pagetable'[p][v] = NoFrame
  /\ \A q \in Procs \ {p} : pagetable'[q] = pagetable[q]
  /\ freelist' \subseteq freelist \ {f} /\ freelist \subseteq freelist' \cup {f}
  /\ state' = state /\ fault' = fault /\ client' = client

\* A step that opens an end and does nothing else keeps the invariant.
LEMMA OpenStep ==
  ASSUME TableInv, RingInv, NEW p \in Procs, NEW s \in Slots, NEW op \in Ends,
         NEW name \in client.names \cup {KeeperName}, name # NoName, NEW f \in client.frames,
         Opens(p, s, op, name, f)
  PROVE  RingInv'
<1> USE DEF Opens
<1>1. ASSUME NEW t \in Slots, InUse(t)' PROVE SlotOK(t)'
  <2>1. CASE t = s
    <3>1. \A u \in Slots \ {s} : InUse(u)' =>
            ringbufs'[u].name # ringbufs'[s].name /\ ringbufs'[u].frame # ringbufs'[s].frame
      BY DEF InUse
    <3>. QED BY <2>1, <3>1, Zenon DEF SlotOK
  <2>2. CASE t # s
    <3>1. ringbufs'[t] = ringbufs[t] /\ InUse(t)
      BY <1>1, <2>2, Zenon DEF InUse
    <3>2. /\ ringbufs[t].name \in client.names \cup {KeeperName} /\ ringbufs[t].name # NoName
          /\ ringbufs[t].frame \in client.frames \ freelist /\ ringbufs[t].vabuf = 0
          /\ ringbufs[t].refcount = Held(t, 0) + Held(t, 1)
          /\ \A u \in Slots : InUse(u) /\ (ringbufs[u].name = ringbufs[t].name
                                           \/ ringbufs[u].frame = ringbufs[t].frame) => u = t
      BY <3>1, SlotFacts, Zenon
    <3>3. Held(t, 0)' = Held(t, 0) /\ Held(t, 1)' = Held(t, 1)
      <4>1. ringbufs[t].name # name /\ t \in Slots \ {s}
        BY <2>2, <3>1, Zenon
      <4>2. opened[p] \subseteq {<<name, op>>} /\ opened'[p] \subseteq {<<name, op>>}
        BY Zenon
      <4>. QED BY <4>1, <4>2, HeldElsewhere DEF Ends
    <3>4. ringbufs'[t].frame \in client'.frames \ freelist'
      BY <3>1, <3>2, Zenon
    <3>5. /\ ringbufs'[t].name \in client'.names \cup {KeeperName} /\ ringbufs'[t].name # NoName
          /\ ringbufs'[t].vabuf = 0
      BY <3>1, <3>2, Zenon
    <3>6. ringbufs'[t].refcount = Held(t, 0)' + Held(t, 1)'
      BY <3>1, <3>2, <3>3, Zenon
    <3>7. ASSUME NEW u \in Slots \ {t}, InUse(u)'
          PROVE  ringbufs'[u].name # ringbufs'[t].name /\ ringbufs'[u].frame # ringbufs'[t].frame
      <4>1. CASE u = s
        BY <2>2, <3>1, <4>1
      <4>2. CASE u # s
        BY <3>1, <3>2, <3>7, <4>2 DEF InUse
      <4>. QED BY <4>1, <4>2, Zenon
    <3>. QED BY <3>4, <3>5, <3>6, <3>7, Zenon DEF SlotOK
  <2>. QED BY <2>1, <2>2, Zenon
<1>2. ASSUME NEW g \in client'.frames \ freelist'
      PROVE  \E t \in Slots : InUse(t)' /\ ringbufs'[t].frame = g
  <2>1. CASE g = f
    BY <2>1, Zenon
  <2>2. CASE g # f
    <3>1. PICK t \in Slots : InUse(t) /\ ringbufs[t].frame = g
      BY <2>2, Zenon DEF RingInv
    <3>2. t # s
      BY <2>2, <3>1, Zenon
    <3>. QED BY <3>1, <3>2, Zenon DEF InUse
  <2>. QED BY <2>1, <2>2, Zenon
<1>3. ASSUME NEW q \in Procs PROVE ProcOK(q)'
  <2>1. CASE q = p
    BY <2>1, Zenon DEF ProcOK, HasRing
  <2>2. CASE q # p /\ opened[q] = {} /\ \A v \in Regions : pagetable[q][v] = NoFrame
    BY <2>2 DEF ProcOK
  <2>3. ASSUME q # p, state[q] = "running", NEW t \in Slots, NEW e \in Ends, HasRing(q, t, e)
        PROVE  ProcOK(q)'
    <3>1. HasRing(q, t, e)'
      <4>1. CASE t = s
        BY <2>3, <4>1 DEF HasRing
      <4>2. CASE t # s
        BY <2>3, <4>2 DEF HasRing, InUse
      <4>. QED BY <4>1, <4>2, Zenon
    <3>. QED BY <2>3, <3>1, Zenon DEF ProcOK
  <2>4. ProcOK(q)
    BY Zenon DEF RingInv
  <2>. QED BY <2>1, <2>2, <2>3, <2>4, Zenon DEF ProcOK
<1>4. /\ fault' = "none" /\ freelist' \subseteq client'.frames
      /\ \A q \in client'.born : state'[q] # "unused"
  BY Zenon DEF RingInv
<1>. QED BY <1>1, <1>2, <1>3, <1>4, Zenon DEF RingInv

\* createbuf of a new ring by a careful client opens it.
LEMMA NewBufRing ==
  ASSUME TableInv, Careful, RingInv, NEW p \in Procs, NEW name \in Names \cup {KeeperName},
         NEW op \in Ends, MayOpen(p, name), NewName(name), state[p] = "running",
         NewBuf(p, SlotForNew(name), name, op), UNCHANGED client
  PROVE  /\ RingInv' /\ opened'[p] = {<<name, op>>}
         /\ \A q \in Procs \ {p} : opened'[q] = opened[q]
<1>1. PICK s \in Slots : s = SlotForNew(name) /\ ringbufs[s].refcount = 0
  BY NewBufGoesWell, Zenon
<1> DEFINE c == Claim(p, s, name, op)
<1>2. /\ opened[p] = {} /\ \A v \in Regions : pagetable[p][v] = NoFrame
      /\ Min(Unmapped(p)) = 0 /\ 0 \in Regions
  BY OpenerFacts, NameFacts, Zenon
<1>3. PICK f \in freelist : freelist' = freelist \ {f} /\ Enter(p, s, 0, f, c)
  BY <1>1, <1>2, Zenon DEF NewBuf
<1> DEFINE r == [c EXCEPT !.frame = f, !.vabuf = 0]
<1>4. /\ c \in Slot /\ c.refcount = 1 /\ c.name = name
      /\ c.pidsRW = [e \in Ends |-> IF e = op THEN p ELSE NoPid]
  BY <1>1, ClaimFacts, NewNameFacts
<1>5. /\ ringbufs' = [ringbufs EXCEPT ![s] = r]
      /\ pagetable' = [pagetable EXCEPT ![p][0] = f]
      /\ opened' = [opened EXCEPT ![p] = @ \cup {<<name, op>>}]
      /\ state' = state /\ fault' = fault /\ client' = client
  BY <1>3, Zenon DEF NewBuf, Enter
<1>6. f \in client.frames
  BY Zenon DEF RingInv
<1>7. \A t \in Slots : ringbufs[t].name # name /\ name \in client.names \cup {KeeperName}
  BY NewNameFacts, Zenon
<1> HIDE DEF c
<1>8. /\ r.refcount = 1 /\ r.name = name /\ r.vabuf = 0 /\ r.frame = f
      /\ r.pidsRW = [e \in Ends |-> IF e = op THEN p ELSE NoPid]
  BY <1>4, Zenon DEF Slot
<1> HIDE DEF r
<1>9. ringbufs'[s] = r /\ \A t \in Slots \ {s} : ringbufs'[t] = ringbufs[t]
  BY <1>1, <1>5, Zenon DEF TableInv, TableType
<1>10. opened'[p] = {<<name, op>>} /\ \A q \in Procs \ {p} : opened'[q] = opened[q]
  BY <1>2, <1>5, Zenon DEF TableInv, TableType
<1>11. /\ pagetable'[p][0] = f /\ \A v \in Regions \ {0} : pagetable'[p][v] = NoFrame
       /\ \A q \in Procs \ {p} : pagetable'[q] = pagetable[q]
  BY <1>2, <1>5, Zenon DEF TableInv, TableType
<1>12. \A t \in Slots \ {s} : InUse(t) => ringbufs[t].name # name /\ ringbufs[t].frame # f
  BY <1>7, SlotFacts, Zenon
<1>13. InUse(s)' /\ ~InUse(s)
  BY <1>1, <1>8, <1>9 DEF InUse
<1>14. Held(s, 0)' + Held(s, 1)' = 1
  <2>1. Holds(p, s, op)'
    BY <1>8, <1>9, <1>10, Zenon DEF Holds
  <2>2. \A q \in Procs, e \in Ends \ {op} : ~Holds(q, s, e)'
    BY <1>8, <1>9, ProcAssumption, Zenon DEF Holds
  <2>3. Held(s, op)' = 1
    BY <2>1, Zenon DEF Held
  <2>4. \A e \in Ends \ {op} : Held(s, e)' = 0
    BY <2>2, Zenon DEF Held
  <2>. QED BY <2>3, <2>4 DEF Ends
<1>15. ringbufs'[s].refcount = Held(s, 0)' + Held(s, 1)'
  BY <1>8, <1>9, <1>14, Zenon
<1>16. /\ ringbufs'[s].name = name /\ ringbufs'[s].frame = f
       /\ ringbufs'[s].vabuf = 0 /\ ringbufs'[s].pidsRW[op] = p
  BY <1>8, <1>9, Zenon
<1>17. freelist' \subseteq freelist \ {f} /\ freelist \subseteq freelist' \cup {f}
  BY <1>3, Zenon
<1>18. name \in client.names \cup {KeeperName} /\ name # NoName
  BY <1>1, <1>7, CarefulName, Zenon
<1>19. Opens(p, s, op, name, f)
  BY <1>2, <1>5, <1>9, <1>10, <1>11, <1>12, <1>13, <1>15, <1>16, <1>17, Zenon DEF Opens
<1>20. RingInv'
  BY <1>6, <1>18, <1>19, OpenStep, Zenon
<1>. QED BY <1>10, <1>20, Zenon

\* createbuf of a ring that another client made opens the other end.
LEMMA JoinBufRing ==
  ASSUME TableInv, Careful, RingInv, NEW p \in Procs, NEW name \in Names \cup {KeeperName},
         NEW op \in Ends, MayOpen(p, name), Named(name) # {}, state[p] = "running",
         JoinBuf(p, Min(Named(name)), name, op), UNCHANGED client
  PROVE  /\ RingInv' /\ opened'[p] = {<<name, op>>}
         /\ \A q \in Procs \ {p} : opened'[q] = opened[q]
<1>1. PICK s \in Slots : s = Min(Named(name)) /\ ringbufs[s].name = name
  BY FirstNamed, Zenon
<1> DEFINE old == ringbufs[s]
           pids == [old.pidsRW EXCEPT ![op] = p]
           f == old.frame
           r == [old EXCEPT !.pidsRW[op] = p, !.refcount = @ + 1, !.frame = old.frame, !.vabuf = 0]
<1>2. InUse(s) /\ name # NoName
  BY <1>1, CarefulName, FoundSlot, Zenon
<1>3. /\ old \in Slot /\ old.refcount \in Nat /\ old.name = name
      /\ name \in client.names \cup {KeeperName} /\ f \in client.frames \ freelist
      /\ old.refcount = Held(s, 0) + Held(s, 1)
      /\ \A t \in Slots : InUse(t) /\ (ringbufs[t].name = old.name \/ ringbufs[t].frame = f) => t = s
  BY <1>1, <1>2, SlotFacts, Zenon
<1>4. /\ opened[p] = {} /\ \A v \in Regions : pagetable[p][v] = NoFrame
      /\ Min(Unmapped(p)) = 0 /\ 0 \in Regions
  BY OpenerFacts, NameFacts, Zenon
<1>5. /\ ringbufs' = [ringbufs EXCEPT ![s] = r]
      /\ pagetable' = [pagetable EXCEPT ![p][0] = f]
      /\ opened' = [opened EXCEPT ![p] = @ \cup {<<name, op>>}]
      /\ freelist' = freelist /\ state' = state /\ fault' = fault /\ client' = client
      /\ old.pidsRW[op] = NoPid
  BY <1>1, <1>4, Zenon DEF JoinBuf, Enter, CanJoin
<1>6. old.pidsRW \in [Ends -> Procs \cup {NoPid}]
  BY <1>3, Zenon DEF Slot
<1> HIDE DEF old
<1>7. /\ r.refcount = old.refcount + 1 /\ r.name = old.name /\ r.vabuf = 0 /\ r.frame = f
      /\ r.pidsRW = pids
  BY <1>3, Zenon DEF Slot
<1>8. pids[op] = p /\ \A e \in Ends \ {op} : pids[e] = old.pidsRW[e]
  BY <1>6, Zenon
<1> HIDE DEF r, f, pids
<1>9. ringbufs'[s] = r /\ \A t \in Slots \ {s} : ringbufs'[t] = ringbufs[t]
  BY <1>1, <1>5, Zenon DEF TableInv, TableType
<1>10. opened'[p] = {<<name, op>>} /\ \A q \in Procs \ {p} : opened'[q] = opened[q]
  BY <1>4, <1>5, Zenon DEF TableInv, TableType
<1>11. /\ pagetable'[p][0] = f /\ \A v \in Regions \ {0} : pagetable'[p][v] = NoFrame
       /\ \A q \in Procs \ {p} : pagetable'[q] = pagetable[q]
  BY <1>4, <1>5, Zenon DEF TableInv, TableType
<1>12. \A t \in Slots \ {s} : InUse(t) => ringbufs[t].name # name /\ ringbufs[t].frame # f
  BY <1>3, Zenon
<1>13. /\ ringbufs'[s].name = name /\ ringbufs'[s].frame = f
       /\ ringbufs'[s].vabuf = 0 /\ ringbufs'[s].pidsRW = pids
       /\ ringbufs'[s].refcount = old.refcount + 1
  BY <1>3, <1>7, <1>9, Zenon
<1>14. InUse(s)'
  BY <1>3, <1>13 DEF InUse
<1>15. Held(s, op) = 0 /\ Held(s, op)' = 1
  <2>1. \A q \in Procs : ~Holds(q, s, op)
    BY <1>5, ProcAssumption, Zenon DEF Holds, old
  <2>2. Holds(p, s, op)'
    BY <1>8, <1>10, <1>13, Zenon DEF Holds
  <2>. QED BY <2>1, <2>2, Zenon DEF Held
<1>16. ASSUME NEW e \in Ends \ {op} PROVE Held(s, e)' = Held(s, e)
  <2>1. ASSUME NEW q \in Procs PROVE Holds(q, s, e)' <=> Holds(q, s, e)
    <3>1. ringbufs'[s].pidsRW[e] = ringbufs[s].pidsRW[e] /\ ringbufs'[s].name = ringbufs[s].name
      BY <1>1, <1>8, <1>13, Zenon DEF old
    <3>2. <<name, e>> \in opened'[q] <=> <<name, e>> \in opened[q]
      BY <1>4, <1>10
    <3>. QED BY <1>1, <3>1, <3>2, Zenon DEF Holds
  <2>. QED BY <2>1, Zenon DEF Held
<1>17. ringbufs'[s].refcount = Held(s, 0)' + Held(s, 1)'
  <2>1. old.refcount \in Nat /\ old.refcount = Held(s, 0) + Held(s, 1)
    BY <1>3, Zenon
  <2>2. Held(s, 0)' + Held(s, 1)' = (old.refcount - 0) + 1
    BY <1>15, <1>16, <2>1, HeldChange
  <2>3. ringbufs'[s].refcount = old.refcount + 1
    BY <1>13, Zenon
  <2>. QED BY <2>1, <2>2, <2>3
<1>18. /\ ringbufs[s].name = name /\ ringbufs[s].frame = f
       /\ \A e \in Ends : ringbufs[s].pidsRW[e] \in Procs =>
            ringbufs'[s].pidsRW[e] = ringbufs[s].pidsRW[e]
  BY <1>1, <1>5, <1>8, <1>13, ProcAssumption, Zenon DEF old, f
<1>19. freelist' \subseteq freelist \ {f} /\ freelist \subseteq freelist' \cup {f} /\ f \in client.frames
  BY <1>3, <1>5, Zenon
<1>20. ringbufs'[s].pidsRW[op] = p
  BY <1>8, <1>13, Zenon
<1>21. Opens(p, s, op, name, f)
  BY <1>4, <1>5, <1>9, <1>10, <1>11, <1>12, <1>13, <1>14, <1>17, <1>18, <1>19, <1>20, Zenon DEF Opens
<1>22. RingInv'
  BY <1>2, <1>3, <1>19, <1>21, OpenStep, Zenon
<1>. QED BY <1>10, <1>22, Zenon

\* closebuf of a ring that p has: the region the slot remembers is where p has it,
\* and the last close frees it when nobody else has it.
LEMMA CloseBufRing ==
  ASSUME TableInv, Careful, RingInv, NEW p \in Procs, NEW name \in Names, NEW op \in Ends,
         NEW arg \in Ends, name \in client.names, <<name, op>> \in opened[p],
         CloseBuf(p, name, arg), UNCHANGED client
  PROVE  RingInv' /\ \A q \in Procs \ {p} : opened'[q] = opened[q]
<1>1. PICK s \in Slots : /\ HasRing(p, s, op) /\ ringbufs[s].name = name
                         /\ opened[p] = {<<name, op>>} /\ state[p] = "running"
  <2>1. PICK s \in Slots, e \in Ends : HasRing(p, s, e) /\ state[p] = "running"
    BY Zenon DEF RingInv, ProcOK
  <2>2. opened[p] = {<<ringbufs[s].name, e>>}
    BY <2>1, Zenon DEF HasRing
  <2>3. e = op /\ ringbufs[s].name = name
    BY <2>2, Zenon
  <2>. QED BY <2>1, <2>2, <2>3, Zenon
<1>name. name # NoName
  BY Zenon DEF Careful
<1> DEFINE old == ringbufs[s]
           f == old.frame
           r == CloseSlot(s)
<1>2. Named(name) # {} /\ Min(Named(name)) = s /\ InUse(s)
  BY <1>1, <1>name, FoundSlot, Zenon
<1>3. /\ old \in Slot /\ old.refcount \in Nat /\ old.vabuf = 0 /\ f # NoFrame
      /\ f \in client.frames \ freelist /\ old.refcount = Held(s, 0) + Held(s, 1)
      /\ \A t \in Slots : InUse(t) /\ (ringbufs[t].name = name \/ ringbufs[t].frame = f) => t = s
  BY <1>1, <1>2, SlotFacts, Zenon
<1>4. /\ pagetable[p][0] = f /\ \A v \in Regions \ {0} : pagetable[p][v] = NoFrame
      /\ old.pidsRW[op] = p
  BY <1>1, Zenon DEF HasRing
<1>5. /\ ringbufs' = [ringbufs EXCEPT ![s] = r]
      /\ pagetable' = [pagetable EXCEPT ![p][0] = NoFrame]
      /\ freelist' = IF LastClose(s) THEN freelist \cup {f} ELSE freelist
      /\ opened' = [opened EXCEPT ![p] = Without(opened[p], name, arg)]
      /\ state' = state /\ fault' = fault /\ client' = client
  <2>1. old.vabuf # -1
    BY <1>3
  <2>. QED BY <1>2, <1>3, <1>4, <2>1, Zenon DEF CloseBuf
<1>6. old.refcount \in Nat \ {0}
  BY <1>2, <1>3 DEF InUse
<1>7. /\ r.refcount = old.refcount - 1
      /\ LastClose(s) => old.refcount = 1
      /\ ~LastClose(s) => /\ r.name = name /\ r.vabuf = 0 /\ r.pidsRW = old.pidsRW /\ r.frame = f
                          /\ old.refcount > 1
  BY <1>1, <1>3, <1>6, CloseSlotFacts, Zenon
<1>count. r.refcount > 0 <=> ~LastClose(s)
  <2> DEFINE n == old.refcount
  <2>1. /\ n \in Nat \ {0} /\ r.refcount = n - 1
        /\ LastClose(s) => n = 1
        /\ ~LastClose(s) => n > 1
    BY <1>6, <1>7, Zenon
  <2> HIDE DEF n, r
  <2>. QED BY <2>1
<1> HIDE DEF r
<1>own. opened[p] = {<<name, op>>}
  BY <1>1, Zenon
<1>8. ringbufs'[s] = r /\ \A t \in Slots \ {s} : ringbufs'[t] = ringbufs[t]
  BY <1>5, Zenon DEF TableInv, TableType
<1>9. opened'[p] = {} /\ \A q \in Procs \ {p} : opened'[q] = opened[q]
  <2>1. /\ opened'[p] = Without(opened[p], name, arg)
        /\ \A q \in Procs \ {p} : opened'[q] = opened[q]
    BY <1>5, Zenon DEF TableInv, TableType
  <2>2. Without({<<name, op>>}, name, arg) = {}
    BY DEF Without
  <2>. QED BY <1>own, <2>1, <2>2, Zenon
<1>10. /\ \A v \in Regions : pagetable'[p][v] = NoFrame
       /\ \A q \in Procs \ {p} : pagetable'[q] = pagetable[q]
  BY <1>4, <1>5, Zenon DEF TableInv, TableType
<1>11. Held(s, op) = 1
  <2>1. Holds(p, s, op)
    BY <1>1, <1>4, Zenon DEF Holds
  <2>. QED BY <2>1, Zenon DEF Held
\* An end of s that somebody else has is the other one.
<1>12. ASSUME NEW q \in Procs \ {p}, NEW e \in Ends, HasRing(q, s, e) PROVE ~LastClose(s)
  <2>1. e # op
    BY <1>4, <1>12, Zenon DEF HasRing
  <2>2. Holds(q, s, e)
    BY <1>12, Zenon DEF HasRing, Holds
  <2>3. Held(s, e) = 1
    BY <2>2, Zenon DEF Held
  <2>4. old.refcount = 2
    BY <1>3, <1>11, <2>1, <2>3 DEF Ends
  <2>. QED BY <1>7, <2>4
<1>13. ASSUME NEW t \in Slots, InUse(t)' PROVE SlotOK(t)'
  <2>1. CASE t = s
    <3>1. ~LastClose(s)
      <4>1. r.refcount > 0
        BY <1>8, <1>13, <2>1, Zenon DEF InUse
      <4>. QED BY <1>count, <4>1, Zenon
    <3>2. /\ ringbufs'[s].name = name /\ ringbufs'[s].frame = f /\ ringbufs'[s].vabuf = 0
          /\ ringbufs'[s].pidsRW = old.pidsRW /\ ringbufs'[s].refcount = old.refcount - 1
      BY <1>7, <1>8, <3>1, Zenon
    <3>3. Held(s, op)' = 0
      <4>1. \A q \in Procs : ~Holds(q, s, op)'
        BY <1>4, <1>9, <3>2, Zenon DEF Holds
      <4>. QED BY <4>1, Zenon DEF Held
    <3>4. ASSUME NEW e \in Ends \ {op} PROVE Held(s, e)' = Held(s, e)
      <4>1. ASSUME NEW q \in Procs PROVE Holds(q, s, e)' <=> Holds(q, s, e)
        <5>1. <<name, e>> \in opened'[q] <=> <<name, e>> \in opened[q]
          BY <1>own, <1>9
        <5>. QED BY <1>1, <3>2, <5>1, Zenon DEF Holds
      <4>. QED BY <4>1, Zenon DEF Held
    <3>5. ringbufs'[s].refcount = Held(s, 0)' + Held(s, 1)'
      <4> DEFINE n == old.refcount
      <4>1. n \in Nat /\ n = Held(s, 0) + Held(s, 1) /\ ringbufs'[s].refcount = n - 1
        BY <1>3, <3>2, Zenon
      <4> HIDE DEF n
      <4>2. Held(s, 0)' + Held(s, 1)' = (n - 1) + 0
        BY <1>11, <3>3, <3>4, <4>1, HeldChange
      <4>. QED BY <4>1, <4>2
    <3>6. \A u \in Slots \ {s} : InUse(u)' =>
            ringbufs'[u].name # ringbufs'[s].name /\ ringbufs'[u].frame # ringbufs'[s].frame
      BY <1>3, <1>8, <3>2, Zenon DEF InUse
    <3>8. ringbufs'[s].frame \in client'.frames \ freelist'
      BY <1>3, <1>5, <3>1, <3>2, Zenon
    <3>9. ringbufs'[s].name \in client'.names \cup {KeeperName} /\ ringbufs'[s].name # NoName
      BY <1>5, <1>name, <3>2, Zenon
    <3>. QED BY <2>1, <3>2, <3>5, <3>6, <3>8, <3>9, Zenon DEF SlotOK
  <2>2. CASE t # s
    <3>1. ringbufs'[t] = ringbufs[t] /\ InUse(t)
      BY <1>8, <1>13, <2>2, Zenon DEF InUse
    <3>2. /\ ringbufs[t].name \in client.names \cup {KeeperName} /\ ringbufs[t].name # NoName
          /\ ringbufs[t].frame \in client.frames \ freelist /\ ringbufs[t].vabuf = 0
          /\ ringbufs[t].refcount = Held(t, 0) + Held(t, 1)
          /\ \A u \in Slots : InUse(u) /\ (ringbufs[u].name = ringbufs[t].name
                                           \/ ringbufs[u].frame = ringbufs[t].frame) => u = t
      BY <3>1, SlotFacts, Zenon
    <3>3. ringbufs[t].name # name /\ ringbufs[t].frame # f
      BY <1>3, <2>2, <3>1, Zenon
    <3>4. Held(t, 0)' = Held(t, 0) /\ Held(t, 1)' = Held(t, 1)
      <4>1. t \in Slots \ {s} /\ opened[p] \subseteq {<<name, op>>} /\ opened'[p] \subseteq {<<name, op>>}
        BY <1>own, <1>9, <2>2, Zenon
      <4>2. ASSUME NEW e \in Ends PROVE Held(t, e)' = Held(t, e)
        BY <1>8, <1>9, <3>3, <4>1, HeldElsewhere
      <4>. QED BY <4>2, Zenon DEF Ends
    <3>5. ringbufs'[t].frame \in client'.frames \ freelist'
      BY <1>5, <3>1, <3>2, <3>3
    <3>6. /\ ringbufs'[t].name \in client'.names \cup {KeeperName} /\ ringbufs'[t].vabuf = 0
          /\ ringbufs'[t].name # NoName
          /\ ringbufs'[t].refcount = Held(t, 0)' + Held(t, 1)'
      BY <1>5, <3>1, <3>2, <3>4, Zenon
    <3>7. ASSUME NEW u \in Slots \ {t}, InUse(u)'
          PROVE  ringbufs'[u].name # ringbufs'[t].name /\ ringbufs'[u].frame # ringbufs'[t].frame
      <4>1. CASE u = s
        <5>1. ~LastClose(s)
          <6>1. r.refcount > 0
            BY <1>8, <3>7, <4>1, Zenon DEF InUse
          <6>. QED BY <1>count, <6>1, Zenon
        <5>. QED BY <1>7, <1>8, <3>1, <3>3, <4>1, <5>1, Zenon
      <4>2. CASE u # s
        BY <1>8, <3>1, <3>2, <3>7, <4>2, Zenon DEF InUse
      <4>. QED BY <4>1, <4>2, Zenon
    <3>. QED BY <3>5, <3>6, <3>7, Zenon DEF SlotOK
  <2>. QED BY <2>1, <2>2, Zenon
<1>14. ASSUME NEW g \in client'.frames \ freelist'
       PROVE  \E t \in Slots : InUse(t)' /\ ringbufs'[t].frame = g
  <2>1. PICK t \in Slots : InUse(t) /\ ringbufs[t].frame = g
    BY <1>5, Zenon DEF RingInv
  <2>2. CASE t # s
    BY <1>8, <2>1, <2>2, Zenon DEF InUse
  <2>3. CASE t = s
    <3>1. ~LastClose(s)
      BY <1>5, <2>1, <2>3, Zenon
    <3>2. r.refcount > 0 /\ r.frame = f
      <4>1. r.frame = f
        BY <1>7, <3>1, Zenon
      <4>. QED BY <1>count, <3>1, <4>1, Zenon
    <3>. QED BY <1>8, <2>1, <2>3, <3>2, Zenon DEF InUse
  <2>. QED BY <2>2, <2>3, Zenon
<1>15. ASSUME NEW q \in Procs PROVE ProcOK(q)'
  <2>1. CASE q = p
    BY <1>9, <1>10, <2>1, Zenon DEF ProcOK
  <2>2. CASE q # p /\ opened[q] = {} /\ \A v \in Regions : pagetable[q][v] = NoFrame
    BY <1>9, <1>10, <2>2, Zenon DEF ProcOK
  <2>3. ASSUME q # p, state[q] = "running", NEW t \in Slots, NEW e \in Ends, HasRing(q, t, e)
        PROVE  ProcOK(q)'
    <3>1. HasRing(q, t, e)'
      <4>1. CASE t = s
        <5>1. ~LastClose(s)
          BY <1>12, <2>3, <4>1, Zenon
        <5>2. r.name = old.name /\ r.pidsRW = old.pidsRW /\ r.frame = f
          BY <1>1, <1>7, <5>1, Zenon
        <5>3. InUse(s)'
          BY <1>count, <1>8, <5>1, Zenon DEF InUse
        <5>. QED BY <1>8, <1>9, <1>10, <2>3, <4>1, <5>2, <5>3, Zenon DEF HasRing
      <4>2. CASE t # s
        BY <1>8, <1>9, <1>10, <2>3, <4>2, Zenon DEF HasRing, InUse
      <4>. QED BY <4>1, <4>2, Zenon
    <3>. QED BY <1>5, <2>3, <3>1, Zenon DEF ProcOK
  <2>4. ProcOK(q)
    BY Zenon DEF RingInv
  <2>. QED BY <2>1, <2>2, <2>3, <2>4, Zenon DEF ProcOK
<1>16. /\ fault' = "none" /\ freelist' \subseteq client'.frames
       /\ \A q \in client'.born : state'[q] # "unused"
  BY <1>3, <1>5, Zenon DEF RingInv
<1>17. RingInv'
  BY <1>13, <1>14, <1>15, <1>16, Zenon DEF RingInv
<1>. QED BY <1>9, <1>17, Zenon

\* A step that leaves the kernel's state alone keeps the invariant.
LEMMA RingUnchanged ==
  ASSUME RingInv, UNCHANGED <<ringbufs, pagetable, freelist, state, opened, client, fault>>
  PROVE  RingInv'
<1>1. ASSUME NEW s \in Slots PROVE InUse(s)' = InUse(s)
  BY Zenon DEF InUse
<1>2. ASSUME NEW s \in Slots, NEW e \in Ends PROVE Held(s, e)' = Held(s, e)
  BY Zenon DEF Held, Holds
<1>3. ASSUME NEW s \in Slots, SlotOK(s) PROVE SlotOK(s)'
  BY <1>1, <1>2, <1>3, Zenon DEF SlotOK, Ends
<1>4. ASSUME NEW p \in Procs, ProcOK(p) PROVE ProcOK(p)'
  <2>1. ASSUME NEW s \in Slots, NEW e \in Ends, HasRing(p, s, e) PROVE HasRing(p, s, e)'
    BY <1>1, <2>1, Zenon DEF HasRing
  <2>. QED BY <1>4, <2>1, Zenon DEF ProcOK
<1>. QED BY <1>1, <1>3, <1>4, Zenon DEF RingInv

\* createbuf by a careful client opens the ring or changes no mapping.
LEMMA CreateBufRing ==
  ASSUME TableInv, Careful, RingInv, NEW p \in Procs, NEW name \in Names \cup {KeeperName},
         NEW op \in Ends, MayOpen(p, name), state[p] = "running",
         CreateBuf(p, name, op), UNCHANGED client
  PROVE  /\ RingInv' /\ opened[p] = {}
         /\ \A q \in Procs \ {p} : opened'[q] = opened[q]
         /\ opened'[p] = {<<name, op>>} \/ pagetable' = pagetable
<1>1. opened[p] = {} /\ Unmapped(p) # {}
  BY OpenerFacts, Zenon
<1>2. CASE Named(name) # {} /\ JoinBuf(p, Min(Named(name)), name, op)
  BY <1>1, <1>2, JoinBufRing, Zenon
<1>3. CASE RefuseJoin(p, Min(Named(name)), op)
  BY <1>1, <1>3, RingUnchanged, Zenon DEF RefuseJoin
<1>4. CASE NewName(name) /\ NewBuf(p, SlotForNew(name), name, op)
  BY <1>1, <1>4, NewBufRing, Zenon
<1>5. NewName(name) => SlotForNew(name) # -1 /\ freelist # {}
  BY NewBufGoesWell, Zenon
<1>6. ~NewBufFails(p, SlotForNew(name), name, op)
  BY <1>1, Zenon DEF NewBufFails
<1>7. NewName(name) => ~NewBufStarved(p)
  BY <1>5, Zenon DEF NewBufStarved
<1>8. Named(name) # {} => ~JoinNoRing(p, Min(Named(name)), op)
  <2>1. SUFFICES ASSUME Named(name) # {} PROVE ~JoinNoRing(p, Min(Named(name)), op)
    BY Zenon
  <2>2. Min(Named(name)) \in Slots /\ ringbufs[Min(Named(name))].name = name
    BY <2>1, FirstNamed, Zenon
  <2>3. name # NoName
    BY CarefulName, Zenon
  <2>4. InUse(Min(Named(name)))
    BY <2>2, <2>3, FoundSlot, Zenon
  <2>5. ringbufs[Min(Named(name))].vabuf = 0
    BY <2>2, <2>4, Zenon DEF RingInv, SlotOK
  <2>. QED BY <2>5 DEF JoinNoRing
<1>. QED BY <1>2, <1>3, <1>4, <1>5, <1>6, <1>7, <1>8, CreateBufCases, Zenon

\* A process that leaves, or is waited for, has no ring mapped.
LEMMA LeaveRing ==
  ASSUME TableInv, Careful, RingInv, NEW p \in Procs, UNCHANGED client,
         (MayLeave(p) /\ (Exit(p) \/ Exec(p))) \/ Reap(p)
  PROVE  RingInv' /\ opened' = opened /\ opened[p] = {}
<1>1. opened[p] = {}
  <2>1. CASE MayLeave(p)
    BY <2>1, Zenon DEF MayLeave, Careful
  <2>2. CASE Reap(p)
    BY <2>2, Zenon DEF Reap, RingInv, ProcOK
  <2>. QED BY <2>1, <2>2, Zenon
<1>2. Mapped(p) = {}
  <2>1. ProcOK(p)
    BY Zenon DEF RingInv
  <2>2. \A v \in Regions : pagetable[p][v] = NoFrame
    BY <1>1, <2>1, Zenon DEF ProcOK, HasRing
  <2>. QED BY <2>2, Zenon DEF Mapped, Unmapped
<1>3. /\ UNCHANGED <<ringbufs, pagetable, freelist, fault>>
      /\ \A q \in Procs \ {p} : state'[q] = state[q]
  <2>1. UNCHANGED <<ringbufs, pagetable, freelist, fault>>
    BY <1>2, Zenon DEF Exit, Exec, Reap
  <2>2. \/ state' = state \/ state' = [state EXCEPT ![p] = "zombie"]
        \/ state' = [state EXCEPT ![p] = "gone"]
    BY <1>2, Zenon DEF Exit, Exec, Reap
  <2>. QED BY <2>1, <2>2, Zenon DEF TableInv, TableType
<1>4. opened' = opened
  <2>1. [opened EXCEPT ![p] = {}] = opened
    BY <1>1, Zenon DEF TableInv, TableType
  <2>. QED BY <1>2, <2>1, Zenon DEF Exit, Exec, Reap
<1>5. ASSUME NEW q \in Procs PROVE ProcOK(q)'
  <2>1. ProcOK(q)
    BY Zenon DEF RingInv
  <2>2. CASE q = p
    BY <1>1, <1>3, <1>4, <2>1, <2>2, Zenon DEF ProcOK, HasRing
  <2>3. CASE q # p
    BY <1>3, <1>4, <2>1, <2>3, Zenon DEF ProcOK, HasRing, InUse
  <2>. QED BY <2>2, <2>3, Zenon
<1>6. ASSUME NEW s \in Slots, InUse(s)' PROVE SlotOK(s)'
  <2>1. InUse(s)
    BY <1>3, <1>6, Zenon DEF InUse
  <2>2. SlotOK(s)
    BY <2>1, Zenon DEF RingInv
  <2>. QED BY <1>3, <1>4, <2>2, Zenon DEF SlotOK, InUse, Held, Holds
<1>7. \A f \in client'.frames \ freelist' : \E s \in Slots : InUse(s)' /\ ringbufs'[s].frame = f
  BY <1>3, Zenon DEF RingInv, InUse
<1>8. /\ fault' = "none" /\ freelist' \subseteq client'.frames
      /\ \A q \in client'.born : state'[q] # "unused"
  <2>1. state'[p] = state[p] \/ state'[p] \in {"zombie", "gone"}
    BY <1>2, Zenon DEF Exit, Exec, Reap, TableInv, TableType
  <2>2. client.born \subseteq Procs
    BY ClientFacts, Zenon DEF TableInv, TableType
  <2>3. \A q \in client.born : state[q] # "unused"
    BY Zenon DEF RingInv
  <2>4. ASSUME NEW q \in client.born PROVE state'[q] # "unused"
    BY <1>3, <2>1, <2>2, <2>3
  <2>. QED BY <1>3, <2>4, Zenon DEF RingInv
<1>. QED BY <1>1, <1>4, <1>5, <1>6, <1>7, <1>8, Zenon DEF RingInv

\* A child has no ring: nothing but its state changes.
LEMMA ForkRing ==
  ASSUME TableInv, RingInv, NEW p \in Procs, UNCHANGED client, Fork(p)
  PROVE  RingInv' /\ client.procs # client.born
<1>1. PICK x \in client.procs : /\ state[x] = "unused" /\ state' = [state EXCEPT ![x] = "running"]
                                /\ UNCHANGED <<ringbufs, pagetable, freelist, opened, fault>>
  BY Zenon DEF Fork
<1>2. /\ x \in Procs /\ state'[x] = "running" /\ \A q \in Procs \ {x} : state'[q] = state[q]
      /\ client.born \subseteq Procs
  BY <1>1, ClientFacts, Zenon DEF TableInv, TableType
<1>3. ASSUME NEW q \in Procs PROVE ProcOK(q)'
  <2>1. ProcOK(q)
    BY Zenon DEF RingInv
  <2>2. CASE opened[q] = {} /\ \A v \in Regions : pagetable[q][v] = NoFrame
    BY <1>1, <2>2, Zenon DEF ProcOK
  <2>3. CASE state[q] = "running" /\ \E s \in Slots, e \in Ends : HasRing(q, s, e)
    <3>1. state'[q] = "running"
      BY <1>2, <2>3, Zenon
    <3>2. \E s \in Slots, e \in Ends : HasRing(q, s, e)'
      BY <1>1, <2>3, Zenon DEF HasRing, InUse
    <3>. QED BY <3>1, <3>2, Zenon DEF ProcOK
  <2>. QED BY <2>1, <2>2, <2>3, Zenon DEF ProcOK
<1>4. ASSUME NEW s \in Slots, InUse(s)' PROVE SlotOK(s)'
  <2>1. InUse(s)
    BY <1>1, <1>4, Zenon DEF InUse
  <2>2. SlotOK(s)
    BY <2>1, Zenon DEF RingInv
  <2>. QED BY <1>1, <2>2, Zenon DEF SlotOK, InUse, Held, Holds
<1>5. \A f \in client'.frames \ freelist' : \E s \in Slots : InUse(s)' /\ ringbufs'[s].frame = f
  BY <1>1, Zenon DEF RingInv, InUse
<1>6. ASSUME NEW q \in client.born PROVE state'[q] # "unused" /\ q # x
  <2>1. q \in Procs /\ state[q] # "unused"
    BY <1>2, Zenon DEF RingInv
  <2>. QED BY <1>1, <1>2, <2>1, Zenon
<1>7. /\ fault' = "none" /\ freelist' \subseteq client'.frames
      /\ \A q \in client'.born : state'[q] # "unused"
  BY <1>1, <1>6, Zenon DEF RingInv
<1>8. client.procs # client.born
  BY <1>1, <1>6, Zenon
<1>. QED BY <1>3, <1>4, <1>5, <1>7, <1>8, Zenon DEF RingInv

\* Descriptors: those of the other processes are left alone.
LEMMA DescElsewhere ==
  ASSUME NEW q \in Procs, DescOK(q), desc'[q] = desc[q], opened'[q] = opened[q]
  PROVE  DescOK(q)'
BY Zenon DEF DescOK

\* A process without descriptors has them right.
LEMMA NoDescOK ==
  ASSUME NEW p \in Procs, \A i \in Descs : ~desc'[p][i].exists
  PROVE  DescOK(p)'
BY Zenon DEF DescOK

\* The library takes a descriptor for a ring that was opened.
LEMMA CreateDesc ==
  ASSUME DescType, NEW p \in Procs, NEW name \in Names \cup {KeeperName}, NEW op \in Ends,
         \A q \in Procs : DescOK(q), opened[p] = {},
         \A q \in Procs \ {p} : opened'[q] = opened[q],
         opened'[p] = {<<name, op>>} \/ pagetable' = pagetable,
         desc' = IF client.library /\ pagetable' # pagetable THEN WithDesc(p, name) ELSE desc
  PROVE  \A q \in Procs : DescOK(q)'
<1> DEFINE free == {i \in Descs : ~desc[p][i].exists}
<1>1. \A i \in Descs : ~desc[p][i].exists
  BY Zenon DEF DescOK
<1>2. CASE desc' = desc
  <2>1. ASSUME NEW q \in Procs PROVE DescOK(q)'
    BY <1>1, <1>2, DescElsewhere, NoDescOK, Zenon
  <2>. QED BY <2>1, Zenon
<1>3. CASE client.library /\ pagetable' # pagetable /\ free # {} /\ name \notin OverlongNames
  <2> DEFINE i == Min(free)
             d == [exists |-> CreateBufResult(name) = 0, name |-> name]
  <2>1. free \subseteq Nat
    BY BoundAssumption DEF Descs
  <2>2. i \in Descs
    BY <1>3, <2>1, MinIn, Zenon
  <2>3. desc' = [desc EXCEPT ![p][i] = d]
    BY <1>3, Zenon DEF WithDesc
  <2>4. d.name = name
    BY Zenon
  <2> HIDE DEF i, d
  <2>5. /\ desc'[p][i] = d /\ \A j \in Descs \ {i} : desc'[p][j] = desc[p][j]
        /\ \A q \in Procs \ {p} : desc'[q] = desc[q]
    BY <2>2, <2>3 DEF DescType
  <2>6. \A j \in Descs : desc'[p][j].exists => j = i
    BY <1>1, <2>5, Zenon
  <2>7. <<name, op>> \in opened'[p]
    BY <1>3, Zenon
  <2>8. DescOK(p)'
    BY <1>3, <2>4, <2>5, <2>6, <2>7 DEF DescOK
  <2>9. ASSUME NEW q \in Procs \ {p} PROVE DescOK(q)'
    BY <2>5, DescElsewhere, Zenon
  <2>. QED BY <2>8, <2>9, Zenon
<1>. QED BY <1>2, <1>3, Zenon DEF WithDesc

\* The library gives back the descriptor of a ring it closes.
LEMMA CloseDesc ==
  ASSUME DescType, NEW p \in Procs, NEW name \in Names, NEW op \in Ends,
         \A q \in Procs : DescOK(q), closeRingBuf(p, name, op), client.library,
         \A q \in Procs \ {p} : opened'[q] = opened[q]
  PROVE  \A q \in Procs : DescOK(q)'
<1>1. PICK rd \in Descs : /\ desc[p][rd] = [exists |-> TRUE, name |-> name]
                          /\ desc' = [desc EXCEPT ![p][rd].exists = FALSE]
  BY Zenon DEF closeRingBuf
<1>2. \A j \in Descs \ {rd} : ~desc[p][j].exists
  BY <1>1 DEF DescOK
<1>3. /\ ~desc'[p][rd].exists /\ \A j \in Descs \ {rd} : desc'[p][j] = desc[p][j]
      /\ \A q \in Procs \ {p} : desc'[q] = desc[q]
  BY <1>1, Zenon DEF DescType
<1>4. DescOK(p)'
  BY <1>2, <1>3, NoDescOK, Zenon
<1>5. ASSUME NEW q \in Procs \ {p} PROVE DescOK(q)'
  BY <1>3, DescElsewhere, Zenon
<1>. QED BY <1>4, <1>5, Zenon

\* The library lets a client close only a ring that it has.
LEMMA CloseHas ==
  ASSUME NEW p \in Procs, NEW name \in Names, NEW op \in Ends, Careful, DescInv,
         MayClose(p, name, op), closeRingBuf(p, name, op)
  PROVE  name \in client.names /\ \E e \in Ends : <<name, e>> \in opened[p]
<1>1. CASE ~client.strayClose
  BY <1>1, Zenon DEF MayClose
<1>2. CASE client.strayClose
  <2>1. client.library /\ DescOK(p)
    BY <1>2, Zenon DEF Careful, DescInv
  <2>2. PICK rd \in Descs : desc[p][rd] = [exists |-> TRUE, name |-> name]
    BY <2>1, Zenon DEF closeRingBuf
  <2>. QED BY <2>1, <2>2 DEF DescOK, MayClose
<1>. QED BY <1>1, <1>2, Zenon

\* A process that leaves, or starts a new program, loses its descriptors.
LEMMA LeaveDesc ==
  ASSUME DescType, NEW p \in Procs, \A q \in Procs : DescOK(q), opened' = opened,
         Exit(p) \/ Exec(p) \/ Reap(p)
  PROVE  \A q \in Procs : DescOK(q)'
<1>1. CASE desc' = desc
  BY <1>1, DescElsewhere, Zenon
<1>2. CASE desc' = [desc EXCEPT ![p] = NoDescs]
  <2>1. desc'[p] = NoDescs /\ \A q \in Procs \ {p} : desc'[q] = desc[q]
    BY <1>2, Zenon DEF DescType
  <2>2. DescOK(p)'
    BY <2>1, NoDescOK DEF NoDescs
  <2>3. ASSUME NEW q \in Procs \ {p} PROVE DescOK(q)'
    BY <2>1, DescElsewhere, Zenon
  <2>. QED BY <2>2, <2>3, Zenon
<1>. QED BY <1>1, <1>2, Zenon DEF Exit, Exec, Reap

\* Every step keeps the invariant of careful clients.
LEMMA NextCareful == TableInv /\ DescType /\ CarefulInv /\ [Next]_vars => CarefulInv'
<1>1. SUFFICES ASSUME TableInv, DescType, CarefulInv, [Next]_vars, Careful'
               PROVE  RingInv' /\ DescInv'
  BY Zenon DEF CarefulInv
<1>2. client' = client
  BY <1>1, Zenon DEF Next, vars
<1>3. Careful
  BY <1>1, <1>2, Zenon DEF Careful
<1>4. RingInv /\ DescInv
  BY <1>1, <1>3, Zenon DEF CarefulInv
<1>all. ASSUME client.strayClose => \A q \in Procs : DescOK(q)' PROVE DescInv'
  BY <1>2, <1>all, Zenon DEF DescInv
<1>5. CASE UNCHANGED vars
  <2>1. RingInv'
    BY <1>4, <1>5, RingUnchanged, Zenon DEF vars
  <2>. QED BY <1>4, <1>5, <1>all, <2>1, DescElsewhere, Zenon DEF vars, DescInv
<1>6. CASE Next
  <2>1. PICK p \in Procs : ClientStep(p) \/ ParentStep(p)
    BY <1>6, Zenon DEF Next
  <2>2. ASSUME NEW name \in Names \cup {KeeperName}, NEW op \in Ends,
               MayOpen(p, name), createRingBuf(p, name, op), state[p] = "running"
        PROVE  RingInv' /\ DescInv'
    <3>1. /\ RingInv' /\ opened[p] = {} /\ \A q \in Procs \ {p} : opened'[q] = opened[q]
          /\ opened'[p] = {<<name, op>>} \/ pagetable' = pagetable
      BY <1>1, <1>2, <1>3, <1>4, <2>2, CreateBufRing, Zenon DEF createRingBuf
    <3>2. ASSUME client.strayClose PROVE \A q \in Procs : DescOK(q)'
      BY <1>1, <1>4, <2>2, <3>1, <3>2, CreateDesc, Zenon DEF createRingBuf, DescInv
    <3>. QED BY <1>all, <3>1, <3>2, Zenon
  <2>3. ASSUME NEW name \in Names, NEW op \in Ends,
               MayClose(p, name, op), closeRingBuf(p, name, op)
        PROVE  RingInv' /\ DescInv'
    <3>1. CloseBuf(p, name, op)
      BY <2>3, Zenon DEF closeRingBuf
    <3>2. PICK e \in Ends : <<name, e>> \in opened[p] /\ name \in client.names
      BY <1>3, <1>4, <2>3, CloseHas, Zenon
    <3>3. RingInv' /\ \A q \in Procs \ {p} : opened'[q] = opened[q]
      BY <1>1, <1>2, <1>3, <1>4, <3>1, <3>2, CloseBufRing, Zenon
    <3>4. ASSUME client.strayClose PROVE \A q \in Procs : DescOK(q)'
      BY <1>1, <1>3, <1>4, <2>3, <3>3, <3>4, CloseDesc, Zenon DEF Careful, DescInv
    <3>. QED BY <1>all, <3>3, <3>4, Zenon
  <2>4. CASE (MayLeave(p) /\ (Exit(p) \/ Exec(p))) \/ Reap(p)
    <3>1. RingInv' /\ opened' = opened
      BY <1>1, <1>2, <1>3, <1>4, <2>4, LeaveRing, Zenon
    <3>2. ASSUME client.strayClose PROVE \A q \in Procs : DescOK(q)'
      BY <1>1, <1>4, <2>4, <3>1, <3>2, LeaveDesc, Zenon DEF DescInv
    <3>. QED BY <1>all, <3>1, <3>2, Zenon
  <2>5. CASE Fork(p)
    <3>1. RingInv' /\ client.procs # client.born
      BY <1>1, <1>2, <1>4, <2>5, ForkRing, Zenon
    <3>. QED BY <1>3, <1>all, <3>1, Zenon DEF Careful
  <2>. QED BY <2>1, <2>2, <2>3, <2>4, <2>5, Zenon DEF ClientStep, ParentStep
<1>. QED BY <1>1, <1>5, <1>6, Zenon

\* It holds at boot.
LEMMA InitCareful == Init => CarefulInv
<1>1. SUFFICES ASSUME Init, Careful PROVE RingInv /\ DescInv
  BY Zenon DEF CarefulInv
<1>2. \A s \in Slots : ~InUse(s)
  BY <1>1 DEF Init, InUse, FreeSlot
<1>3. \A p \in client.born : state[p] # "unused"
  <2>1. client.born \subseteq Procs
    BY <1>1, ClientFacts, Zenon DEF Init
  <2>. QED BY <1>1, <2>1 DEF Init
<1>4. RingInv
  BY <1>1, <1>2, <1>3, Zenon DEF Init, RingInv, ProcOK
<1>5. \A p \in Procs, i \in Descs : ~desc[p][i].exists
  BY <1>1, Zenon DEF Init, NoDescs
<1>. QED BY <1>4, <1>5, Zenon DEF DescOK, DescInv

\* It holds in every reachable state.
LEMMA CarefulSafe == Spec => [](TableInv /\ CarefulInv)
BY TableSafe, InitCareful, NextCareful, PTL DEF Spec

\* Careful clients never reach a panic of closebuf, exec or wait, a slot outside
\* the table or an unchecked allocation, for any number of clients and rings; those
\* that go through the library need not even keep track of what they have open.
THEOREM CarefulNoFault == Spec => []NoFault
<1>1. CarefulInv => NoFault
  BY Zenon DEF CarefulInv, RingInv, NoFault
<1>. QED BY <1>1, CarefulSafe, PTL

\* A frame that a process has mapped is its ring's.
LEMMA UserFacts ==
  ASSUME RingInv, NEW f, f # NoFrame, NEW p \in Users(f)
  PROVE  \E s \in Slots, e \in Ends : HasRing(p, s, e) /\ ringbufs[s].frame = f
<1>1. PICK v \in Regions : pagetable[p][v] = f /\ p \in Procs
  BY Zenon DEF Users
<1>2. PICK s \in Slots, e \in Ends : HasRing(p, s, e)
  BY <1>1, Zenon DEF RingInv, ProcOK
<1>3. v = 0
  BY <1>1, <1>2, Zenon DEF HasRing
<1>. QED BY <1>1, <1>2, <1>3, Zenon DEF HasRing

\* With careful clients closebuf never frees the pages of a ring that another
\* process still has mapped.
LEMMA FreeUnmapped ==
  ASSUME TableInv, RingInv, NEW f \in freelist
  PROVE  Users(f) = {}
<1>1. SUFFICES ASSUME NEW p \in Users(f) PROVE FALSE
  BY Zenon
<1>2. f # NoFrame
  BY FrameAssumption, Zenon DEF TableInv, TableType
<1>3. PICK s \in Slots, e \in Ends : HasRing(p, s, e) /\ ringbufs[s].frame = f
  BY <1>1, <1>2, UserFacts, Zenon
<1>4. ringbufs[s].frame \notin freelist
  BY <1>3, SlotFacts, Zenon DEF HasRing
<1>. QED BY <1>3, <1>4, Zenon

\* With careful clients the two ends of a name are ends of the same ring, whoever
\* opened which first.
THEOREM CarefulSameRing == Spec => []SameNameSameRing
<1>1. TableInv /\ CarefulInv => SameNameSameRing
  <2>1. SUFFICES ASSUME TableInv, RingInv, NEW p \in Procs, NEW q \in Procs, NEW name \in Names,
                        <<name, 0>> \in opened[p], <<name, 1>> \in opened[q]
                 PROVE  \E v, w \in Regions : /\ pagetable[p][v] # NoFrame
                                              /\ pagetable[p][v] = pagetable[q][w]
    BY Zenon DEF CarefulInv, SameNameSameRing
  <2>2. ASSUME NEW x \in Procs, NEW op \in Ends, <<name, op>> \in opened[x]
        PROVE  \E s \in Slots : /\ InUse(s) /\ ringbufs[s].name = name
                                /\ pagetable[x][0] = ringbufs[s].frame
    <3>1. PICK s \in Slots, e \in Ends : HasRing(x, s, e)
      BY <2>1, <2>2, Zenon DEF RingInv, ProcOK
    <3>2. ringbufs[s].name = name
      BY <2>2, <3>1, Zenon DEF HasRing
    <3>. QED BY <3>1, <3>2, Zenon DEF HasRing
  <2>3. PICK s \in Slots : InUse(s) /\ ringbufs[s].name = name /\ pagetable[p][0] = ringbufs[s].frame
    BY <2>1, <2>2, Zenon DEF Ends
  <2>4. PICK t \in Slots : InUse(t) /\ ringbufs[t].name = name /\ pagetable[q][0] = ringbufs[t].frame
    BY <2>1, <2>2, Zenon DEF Ends
  <2>5. s = t /\ ringbufs[s].frame # NoFrame
    BY <2>1, <2>3, <2>4, SlotFacts, Zenon
  <2>. QED BY <2>3, <2>4, <2>5, NameFacts, Zenon
<1>. QED BY <1>1, CarefulSafe, PTL

\* With careful clients refcount is the number of processes that have the ring
\* mapped; no frame is lost, and none is freed while somebody has it mapped.
THEOREM CarefulRefcount == Spec => []RefcountExact
<1>1. TableInv /\ CarefulInv => RefcountExact
  <2>1. SUFFICES ASSUME TableInv, RingInv
                 PROVE  /\ \A f \in freelist : Users(f) = {}
                        /\ \A s \in Slots : ringbufs[s].refcount > 0 =>
                             ringbufs[s].refcount = Cardinality(Users(ringbufs[s].frame))
                        /\ \A f \in client.frames \ freelist :
                             Cardinality({s \in Slots : /\ ringbufs[s].refcount > 0
                                                        /\ ringbufs[s].frame = f}) = 1
    BY Zenon DEF CarefulInv, RefcountExact
  <2>2. ASSUME NEW s \in Slots, InUse(s)
        PROVE  ringbufs[s].refcount = Cardinality(Users(ringbufs[s].frame))
    <3> DEFINE f == ringbufs[s].frame
               pid(e) == ringbufs[s].pidsRW[e]
               At(e) == pid(e) \in Procs /\ Holds(pid(e), s, e)
    <3>1. f # NoFrame /\ ringbufs[s].refcount = Held(s, 0) + Held(s, 1)
      BY <2>1, <2>2, SlotFacts, Zenon
    <3>2. \A e \in Ends : Held(s, e) = IF At(e) THEN 1 ELSE 0
      BY Zenon DEF Held, Holds
    <3>3. ASSUME NEW e \in Ends, At(e)
          PROVE  /\ pid(e) \in Users(f) /\ opened[pid(e)] = {<<ringbufs[s].name, e>>}
      <4>1. PICK t \in Slots, d \in Ends : HasRing(pid(e), t, d)
        BY <2>1, <3>3, Zenon DEF RingInv, ProcOK, Holds
      <4>2. ringbufs[t].name = ringbufs[s].name /\ d = e
        BY <3>3, <4>1, Zenon DEF Holds, HasRing
      <4>3. t = s
        BY <2>1, <2>2, <4>1, <4>2, SlotFacts, Zenon DEF HasRing
      <4>4. /\ pagetable[pid(e)][0] = f /\ 0 \in Regions
            /\ opened[pid(e)] = {<<ringbufs[s].name, e>>}
        BY <4>1, <4>2, <4>3, NameFacts, Zenon DEF HasRing
      <4>. QED BY <3>3, <4>4, Zenon DEF Users
    <3>4. ASSUME NEW p \in Users(f) PROVE \E e \in Ends : At(e) /\ p = pid(e)
      <4>1. PICK t \in Slots, e \in Ends : HasRing(p, t, e) /\ ringbufs[t].frame = f
        BY <2>1, <3>1, UserFacts, Zenon
      <4>2. t = s
        BY <2>1, <2>2, <4>1, SlotFacts, Zenon DEF HasRing
      <4>. QED BY <4>1, <4>2, Zenon DEF HasRing, Holds, Users
    <3> HIDE DEF f, pid, At
    <3>5. At(0) /\ At(1) => pid(0) # pid(1)
      <4>1. SUFFICES ASSUME At(0), At(1), pid(0) = pid(1) PROVE FALSE
        BY Zenon
      <4>2. <<ringbufs[s].name, 0>> \in opened[pid(0)] /\ opened[pid(1)] = {<<ringbufs[s].name, 1>>}
        BY <3>3, <4>1, Zenon DEF Ends
      <4>3. <<ringbufs[s].name, 0>> = <<ringbufs[s].name, 1>>
        BY <4>1, <4>2, Zenon
      <4>. QED BY <4>3
    <3>6. Users(f) = {pid(e) : e \in {x \in Ends : At(x)}}
      BY <3>3, <3>4, Zenon
    <3>7. CASE At(0) /\ At(1)
      <4>1. Users(f) = {pid(0)} \cup {pid(1)} /\ pid(1) \notin {pid(0)}
        BY <3>5, <3>6, <3>7, Zenon DEF Ends
      <4>2. IsFiniteSet({pid(0)}) /\ Cardinality({pid(0)}) = 1
        BY FS_Singleton, Zenon
      <4>3. Cardinality({pid(0)} \cup {pid(1)}) = Cardinality({pid(0)}) + 1
        BY <4>1, <4>2, FS_AddElement, Zenon
      <4>4. Cardinality(Users(f)) = 2
        BY <4>1, <4>2, <4>3
      <4>. QED BY <3>1, <3>2, <3>7, <4>4 DEF Ends, f
    <3>8. ASSUME NEW e \in Ends, NEW d \in Ends, e # d, At(e), ~At(d)
          PROVE  Cardinality(Users(f)) = 1
      <4>1. Users(f) = {pid(e)}
        BY <3>6, <3>8, Zenon DEF Ends
      <4>. QED BY <4>1, FS_Singleton, Zenon
    <3>9. CASE ~At(0) /\ ~At(1)
      BY <2>2, <3>1, <3>2, <3>9 DEF InUse, Ends
    <3>10. CASE At(0) /\ ~At(1)
      BY <3>1, <3>2, <3>8, <3>10 DEF Ends, f
    <3>11. CASE ~At(0) /\ At(1)
      BY <3>1, <3>2, <3>8, <3>11 DEF Ends, f
    <3>. QED BY <3>7, <3>9, <3>10, <3>11, Zenon
  <2>3. ASSUME NEW f \in client.frames \ freelist
        PROVE  Cardinality({s \in Slots : ringbufs[s].refcount > 0 /\ ringbufs[s].frame = f}) = 1
    <3>1. PICK s \in Slots : InUse(s) /\ ringbufs[s].frame = f
      BY <2>1, Zenon DEF RingInv
    <3>2. {t \in Slots : ringbufs[t].refcount > 0 /\ ringbufs[t].frame = f} = {s}
      BY <2>1, <3>1, SlotFacts, Zenon DEF InUse
    <3>. QED BY <3>2, FS_Singleton, Zenon
  <2>4. \A f \in freelist : Users(f) = {}
    BY <2>1, FreeUnmapped, Zenon
  <2>. QED BY <2>2, <2>3, <2>4, Zenon DEF InUse
<1>. QED BY <1>1, CarefulSafe, PTL
=============================================================================

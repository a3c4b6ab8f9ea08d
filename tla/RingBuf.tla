------------------------------ MODULE RingBuf -------------------------------
(***************************************************************************)
(* kernel/ringbuf.c: the table of shared rings behind the system calls     *)
(* createbuf and closebuf, the page tables of the processes that use them, *)
(* fork, which copies neither, and the end of a process (exit, wait,       *)
(* exec), which frees a page table; and user/fastipc.h's createRingBuf and *)
(* closeRingBuf, which keep a table of descriptors in front of the system  *)
(* calls.                                                                  *)
(*                                                                         *)
(* Both calls hold ringbuf_lock throughout, so each is one step.  The 16   *)
(* pages of a ring and its book page are allocated, mapped and freed       *)
(* together: they are one frame here, and the 33 pages a process maps them *)
(* at are one region.  A process is its own pid (pids are never reused).   *)
(* A kernel panic, or an access outside ringbufs, is recorded in fault and *)
(* ends the behaviour.                                                     *)
(*                                                                         *)
(* What the clients do is chosen at the start, from Clients.               *)
(***************************************************************************)
EXTENDS Integers, FiniteSets, FiniteSetsExt

CONSTANTS
  Procs, NoPid,   \* the processes; 0 in pidsRW
  MaxRingbufs,    \* MAX_RINGBUFS
  NRegions,       \* the places for a ring between MAP_START and MAXMAPLOC
  Frames, NoFrame,  \* physical memory for rings; an unmapped page
  Names,          \* the names given to createbuf and closebuf
  LongNames,      \* those of more than 7 characters,
  Prefix,         \*   the 7 characters createbuf stores of them,
  OverlongNames,  \*   and those of more than 16
  MaxDesc,        \* MAX_RINGBUFS of fastipc.h
  MaxCount,       \* bound: the count of slot 0, which calls that fail raise
  Clients         \* what clients may be like: their processes, those of them
                  \*   that are there at the start (the others are forked),
                  \*   the one that opens a ring of its own first and keeps
                  \*   it, or NoPid, the names they use, the memory there is,
                  \*   how many rings one has open at a time, whether they
                  \*   close rings they have not opened, whether they exit or
                  \*   exec with rings open, and whether they go through the
                  \*   library

ASSUME TableAssumption == MaxRingbufs \in Nat \ {0} /\ NRegions \in Nat \ {0}

ASSUME BoundAssumption == MaxDesc \in Nat /\ MaxCount \in Nat

ASSUME ProcAssumption == NoPid \notin Procs

\* The name of a slot not in use, which is also the empty name a client may
\* give, and the name only a keeper uses, to occupy slot 0.
NoName == ""
KeeperName == "keeper"

ASSUME NameAssumption ==
  /\ IsFiniteSet(Names) /\ LongNames \subseteq Names /\ OverlongNames \subseteq LongNames
  /\ Prefix \notin LongNames /\ NoName \notin LongNames \cup {Prefix}
  /\ KeeperName \notin Names \cup {NoName, Prefix}

ASSUME ClientAssumption ==
  Clients \subseteq [procs : SUBSET Procs, born : SUBSET Procs, keeper : Procs \cup {NoPid},
                     names : SUBSET Names, frames : SUBSET Frames, maxOpen : Nat, strayClose : BOOLEAN,
                     exitOpen : BOOLEAN, library : BOOLEAN]

ASSUME FrameAssumption == IsFiniteSet(Frames) /\ NoFrame \notin Frames

VARIABLES
  ringbufs,       \* the table
  pagetable,      \* per process: region -> frame, or NoFrame
  freelist,       \* the frames kalloc has
  state,          \* "unused", "running", "zombie" or "gone", per process
  validRingBuf,   \* p->validRingBuf
  opened,         \* per process: the ends <<name, opdesc>> createbuf gave it
  desc,           \* per process: user_ring_bufs
  client,         \* what the clients are like
  fault           \* "none", or what went wrong in the kernel

vars == <<ringbufs, pagetable, freelist, state, validRingBuf, opened, desc, client, fault>>

Slots == 0..MaxRingbufs-1
Regions == 0..NRegions-1
Ends == {0, 1}
Descs == 0..MaxDesc-1
NoDescs == [i \in Descs |-> [exists |-> FALSE, name |-> NoName]]

FreeSlot == [refcount |-> 0, name |-> NoName, pidsRW |-> [e \in Ends |-> NoPid],
             frame |-> NoFrame, vabuf |-> -1]

Init ==
  /\ ringbufs = [s \in Slots |-> FreeSlot]
  /\ pagetable = [p \in Procs |-> [v \in Regions |-> NoFrame]]
  /\ client \in Clients
  /\ freelist = client.frames
  /\ state = [p \in Procs |-> IF p \in client.born THEN "running" ELSE "unused"]
  /\ validRingBuf = [p \in Procs |-> 0]
  /\ opened = [p \in Procs |-> {}]
  /\ desc = [p \in Procs |-> NoDescs]
  /\ fault = "none"

-----------------------------------------------------------------------------
\* safestrcpy(name, straddr, sizeof(straddr)) keeps 7 characters.
Stored(name) == IF name \in LongNames THEN Prefix ELSE name

\* The search loop of createbuf and closebuf: the first slot of that name.
Named(name) == {s \in Slots : ringbufs[s].name = name}

Unmapped(p) == {v \in Regions : pagetable[p][v] = NoFrame}
Mapped(p) == Regions \ Unmapped(p)

Fails(what) ==
  /\ fault' = what
  /\ UNCHANGED <<ringbufs, pagetable, freelist, state, validRingBuf, opened>>

\* Mutant of CanJoin: an end may be opened twice.
CanJoinAny(s, op) == ringbufs[s].refcount >= 0

\* createbuf joins slot s: the end must be free.
CanJoin(s, op) == ringbufs[s].pidsRW[op] = NoPid /\ ringbufs[s].refcount >= 0

\* processSpace_mapper puts a frame at the first free region of p; the
\* slot remembers the region, whoever else uses the slot.
Enter(p, s, v, f, slot) ==
  /\ ringbufs' = [ringbufs EXCEPT ![s] = [slot EXCEPT !.frame = f, !.vabuf = v]]
  /\ pagetable' = [pagetable EXCEPT ![p][v] = f]
  /\ validRingBuf' = [validRingBuf EXCEPT ![p] = 1]

\* Mutant of JoinBuf: refcount is not raised.
JoinBufUncounted(p, s, name, op) ==
  /\ CanJoin(s, op) /\ Unmapped(p) # {} /\ ringbufs[s].vabuf # -1
  /\ Enter(p, s, Min(Unmapped(p)), ringbufs[s].frame, [ringbufs[s] EXCEPT !.pidsRW[op] = p])
  /\ opened' = [opened EXCEPT ![p] = @ \cup {<<name, op>>}]
  /\ UNCHANGED <<freelist, state, fault>>

JoinBuf(p, s, name, op) ==
  /\ CanJoin(s, op) /\ Unmapped(p) # {} /\ ringbufs[s].vabuf # -1
  /\ Enter(p, s, Min(Unmapped(p)), ringbufs[s].frame,
           [ringbufs[s] EXCEPT !.pidsRW[op] = p, !.refcount = @ + 1])
  /\ opened' = [opened EXCEPT ![p] = @ \cup {<<name, op>>}]
  /\ UNCHANGED <<freelist, state, fault>>

\* The slot holds no ring, and is found because the name asked for is empty
\* too: its book is 0, and the page at physical address 0 is mapped.
JoinNoRing(p, s, op) ==
  /\ CanJoin(s, op) /\ Unmapped(p) # {} /\ ringbufs[s].vabuf = -1
  /\ Fails("createbuf: page 0")

\* createbuf returns -1 and leaves everything as it was: the end is taken,
\* or no region of p is free and the entry is undone.
RefuseJoin(p, s, op) ==
  /\ ~CanJoin(s, op) \/ Unmapped(p) = {}
  /\ UNCHANGED <<ringbufs, pagetable, freelist, state, validRingBuf, opened, fault>>

\* createbuf makes a ring in slot s.
Claim(p, s, name, op) ==
  [ringbufs[s] EXCEPT !.refcount = @ + 1, !.name = Stored(name),
                      !.pidsRW = [e \in Ends |-> IF e = op THEN p ELSE NoPid]]

NewBuf(p, s, name, op) ==
  /\ Unmapped(p) # {}
  /\ \E f \in freelist :
       /\ freelist' = freelist \ {f}
       /\ Enter(p, s, Min(Unmapped(p)), f, Claim(p, s, name, op))
  /\ opened' = [opened EXCEPT ![p] = @ \cup {<<name, op>>}]
  /\ UNCHANGED <<state, fault>>

\* No region of p is free: createbuf returns -1; refcount stays raised.
NewBufFails(p, s, name, op) ==
  /\ Unmapped(p) = {}
  /\ ringbufs' = [ringbufs EXCEPT ![s] =
                    [Claim(p, s, name, op) EXCEPT !.name = NoName, !.pidsRW[op] = NoPid]]
  /\ UNCHANGED <<pagetable, freelist, state, validRingBuf, opened, fault>>

\* kalloc returns 0 for some page of the ring, which is not looked at: the page
\* at physical address 0 is mapped.
NewBufStarved(p) ==
  /\ Unmapped(p) # {} /\ freelist = {}
  /\ Fails("createbuf: page 0")

\* The slot for a ring that is not joined: the first with refcount 0.  When
\* all are in use, current_index is still what the search left: -1, or 0.
SlotForNew(name) ==
  LET free == {s \in Slots : ringbufs[s].refcount = 0}
  IN IF free # {} THEN Min(free)
     ELSE IF Named(name) = {} THEN -1 ELSE Min(Named(name))

\* Mutant of CreateBuf: slot 1 is not joined either.
CreateBufOffByOne(p, name, op) ==
  IF Named(name) # {} /\ Min(Named(name)) > 1
  THEN LET s == Min(Named(name)) IN JoinBuf(p, s, name, op) \/ JoinNoRing(p, s, op) \/ RefuseJoin(p, s, op)
  ELSE LET s == SlotForNew(name) IN
       IF s = -1 THEN Fails("createbuf: ringbufs[-1]")
       ELSE NewBuf(p, s, name, op) \/ NewBufStarved(p) \/ NewBufFails(p, s, name, op)

\* createbuf(name, op) called by p.  A name found in slot 0 is not joined: it
\* gets another slot, under the same name.
CreateBuf(p, name, op) ==
  IF Named(name) # {} /\ Min(Named(name)) > 0
  THEN LET s == Min(Named(name)) IN JoinBuf(p, s, name, op) \/ JoinNoRing(p, s, op) \/ RefuseJoin(p, s, op)
  ELSE LET s == SlotForNew(name) IN
       IF s = -1 THEN Fails("createbuf: ringbufs[-1]")
       ELSE NewBuf(p, s, name, op) \/ NewBufStarved(p) \/ NewBufFails(p, s, name, op)

\* The value createbuf returns when it succeeds: 1 for a new name.
CreateBufResult(name) == IF Named(name) = {} THEN 1 ELSE 0

-----------------------------------------------------------------------------
\* closebuf of slot s: the last reference empties the slot.
LastClose(s) == ringbufs[s].refcount - 1 < 1

CloseSlot(s) ==
  IF LastClose(s) THEN [FreeSlot EXCEPT !.frame = ringbufs[s].frame]
  ELSE [ringbufs[s] EXCEPT !.refcount = @ - 1]

\* The ends a client still has: closebuf looks at the name only, so a client
\* that gives the wrong opdesc has closed the end it had.
Without(ends, name, op) ==
  IF <<name, op>> \in ends THEN ends \ {<<name, op>>} ELSE {e \in ends : e[1] # name}

\* Does any slot of table t name p?  (the last loop of closebuf)
HasPid(t, p) == \E s \in Slots, e \in Ends : t[s].pidsRW[e] = p

\* closebuf(name, op) called by p.  A name that is not in the table makes
\* the search run off its end.  A slot without a ring, which the empty name
\* finds, has vabuf 0: the caller's own pages from 0 on are removed.
\* Otherwise p's mapping at the region the slot remembers is removed, and
\* what was mapped there freed on the last close.
CloseBuf(p, name, op) ==
  IF Named(name) = {} THEN Fails("closebuf: ringbufs[16]")
  ELSE LET s == Min(Named(name))
           v == ringbufs[s].vabuf
       IN IF v = -1 THEN Fails("closebuf: address 0")
          ELSE IF pagetable[p][v] = NoFrame THEN Fails("panic: uvmunmap: not mapped")
          ELSE /\ ringbufs' = [ringbufs EXCEPT ![s] = CloseSlot(s)]
               /\ pagetable' = [pagetable EXCEPT ![p][v] = NoFrame]
               /\ freelist' = IF LastClose(s) THEN freelist \cup {pagetable[p][v]} ELSE freelist
               /\ validRingBuf' = [validRingBuf EXCEPT ![p] = IF HasPid(ringbufs', p) THEN 1 ELSE 0]
               /\ opened' = [opened EXCEPT ![p] = Without(@, name, op)]
               /\ UNCHANGED <<state, fault>>

-----------------------------------------------------------------------------
\* fastipc.h.

\* p's descriptors with the first unused one for a ring that createbuf gave.
\* "exists" is set in the else branch only, when the ring was there before.
\* Without an unused one, or with a name over 16 characters, the call fails
\* and the ring stays open.
WithDesc(p, name) ==
  LET free == {i \in Descs : ~desc[p][i].exists}
  IN IF free = {} \/ name \in OverlongNames THEN desc
     ELSE [desc EXCEPT ![p][Min(free)] = [exists |-> CreateBufResult(name) = 0, name |-> name]]

createRingBuf(p, name, op) ==
  /\ CreateBuf(p, name, op)
  /\ desc' = IF client.library /\ pagetable' # pagetable THEN WithDesc(p, name) ELSE desc

\* Mutant of closeRingBuf: the descriptor stays valid.
closeRingBufKeeps(p, name, op) ==
  IF ~client.library THEN CloseBuf(p, name, op) /\ UNCHANGED desc
  ELSE \E rd \in Descs :
         /\ desc[p][rd] = [exists |-> TRUE, name |-> name]
         /\ UNCHANGED desc
         /\ CloseBuf(p, name, op)

\* Through the library, only a valid descriptor of that name is closed.
closeRingBuf(p, name, op) ==
  IF ~client.library THEN CloseBuf(p, name, op) /\ UNCHANGED desc
  ELSE \E rd \in Descs :
         /\ desc[p][rd] = [exists |-> TRUE, name |-> name]
         /\ desc' = [desc EXCEPT ![p][rd].exists = FALSE]
         /\ CloseBuf(p, name, op)

-----------------------------------------------------------------------------
\* fork: uvmcopy copies the pages below sz, user_ring_bufs among them.  The
\* rings are mapped above sz, so the child has none of them.
Fork(p) ==
  \E q \in client.procs :
    /\ state[q] = "unused"
    /\ state' = [state EXCEPT ![q] = "running"]
    /\ desc' = [desc EXCEPT ![q] = desc[p]]
    /\ UNCHANGED <<ringbufs, pagetable, freelist, validRingBuf, opened, fault>>

\* exit: the call of ringbufCleanup is commented out.
Exit(p) ==
  /\ state' = [state EXCEPT ![p] = "zombie"]
  /\ UNCHANGED <<ringbufs, pagetable, freelist, validRingBuf, opened, desc, fault>>

\* wait in the parent: freeproc and freewalk of the page table.
Reap(p) ==
  /\ state[p] = "zombie" /\ UNCHANGED desc
  /\ IF Mapped(p) # {} THEN Fails("panic: freewalk: leaf")
     ELSE /\ state' = [state EXCEPT ![p] = "gone"]
          /\ UNCHANGED <<ringbufs, pagetable, freelist, validRingBuf, opened, fault>>

\* exec replaces the page table and frees the old one.
Exec(p) ==
  /\ desc' = [desc EXCEPT ![p] = NoDescs]
  /\ IF Mapped(p) # {} THEN Fails("panic: freewalk: leaf")
     ELSE /\ opened' = [opened EXCEPT ![p] = {}]
          /\ UNCHANGED <<ringbufs, pagetable, freelist, state, validRingBuf, fault>>

-----------------------------------------------------------------------------
\* The clients.

MayOpen(p, name) ==
  /\ Cardinality(opened[p]) < client.maxOpen /\ ringbufs[0].refcount < MaxCount
  /\ IF client.keeper = NoPid \/ ringbufs[0].name = KeeperName
     THEN p # client.keeper /\ name \in client.names
     ELSE p = client.keeper /\ name = KeeperName

MayClose(p, name, op) ==
  /\ p # client.keeper /\ name \in client.names
  /\ client.strayClose \/ <<name, op>> \in opened[p]

MayLeave(p) == p # client.keeper /\ (client.exitOpen \/ opened[p] = {})

ClientStep(p) ==
  /\ p \in client.procs /\ fault = "none" /\ state[p] = "running"
  /\ \/ \E name \in Names \cup {KeeperName}, op \in Ends :
          MayOpen(p, name) /\ createRingBuf(p, name, op)
     \/ \E name \in Names, op \in Ends :
          MayClose(p, name, op) /\ closeRingBuf(p, name, op)
     \/ Fork(p)
     \/ MayLeave(p) /\ (Exit(p) \/ Exec(p))

ParentStep(p) == fault = "none" /\ Reap(p)

Next == UNCHANGED client /\ \E p \in Procs : ClientStep(p) \/ ParentStep(p)

Spec == Init /\ [][Next]_vars
-----------------------------------------------------------------------------
\* Properties.

Faults == {"none", "createbuf: ringbufs[-1]", "createbuf: page 0", "closebuf: ringbufs[16]",
           "closebuf: address 0", "panic: uvmunmap: not mapped", "panic: freewalk: leaf"}

\* The fields of the table keep their types.
TypeOK ==
  /\ \A s \in Slots :
       /\ ringbufs[s].refcount \in Nat
       /\ ringbufs[s].name \in Names \cup {NoName, Prefix, KeeperName}
       /\ ringbufs[s].pidsRW \in [Ends -> Procs \cup {NoPid}]
       /\ ringbufs[s].frame \in Frames \cup {NoFrame}
       /\ ringbufs[s].vabuf \in Regions \cup {-1}
  /\ pagetable \in [Procs -> [Regions -> Frames \cup {NoFrame}]]
  /\ freelist \subseteq Frames
  /\ state \in [Procs -> {"unused", "running", "zombie", "gone"}]
  /\ validRingBuf \in [Procs -> {0, 1}]
  /\ opened \in [Procs -> SUBSET ((Names \cup {KeeperName}) \X Ends)]
  /\ desc \in [Procs -> [Descs -> [exists : BOOLEAN, name : Names \cup {NoName, KeeperName}]]]
  /\ client \in Clients
  /\ fault \in Faults

Users(f) == {p \in Procs : \E v \in Regions : pagetable[p][v] = f}

\* Clients the table serves: a keeper has slot 0 out of the way, there are slots
\* and memory for all names, names are short and not empty, and each client has
\* one ring at a time and leaves only when it has closed it.  It closes only what
\* it opened, or goes through the library and leaves that to the descriptors, which
\* are only right in a process that was not forked from one with a ring.
Careful ==
  /\ client.keeper # NoPid /\ Cardinality(client.names) < MaxRingbufs
  /\ Cardinality(client.names) < Cardinality(client.frames)
  /\ client.names \cap (LongNames \cup {NoName}) = {} /\ client.maxOpen <= 1
  /\ client.strayClose => client.library /\ client.procs = client.born
  /\ ~client.exitOpen

\* With careful clients no call reaches a panic or an entry outside the table:
\* createbuf and closebuf in any order by any processes, of rings the library has
\* or has not a valid descriptor for, then fork, exit and exec.
NoFault == Careful => fault = "none"

\* With careful clients refcount is the number of processes that have the ring
\* mapped, and a frame is in exactly one slot in use, or free and mapped nowhere:
\* closebuf of one end does not pull the ring from under the other, and the last
\* one does not lose it.
RefcountExact ==
  Careful =>
  /\ \A f \in freelist : Users(f) = {}
  /\ \A s \in Slots : ringbufs[s].refcount > 0 =>
       ringbufs[s].refcount = Cardinality(Users(ringbufs[s].frame))
  /\ \A f \in client.frames \ freelist :
       Cardinality({s \in Slots : ringbufs[s].refcount > 0 /\ ringbufs[s].frame = f}) = 1

\* With careful clients the two ends of a name are ends of the same ring.
SameNameSameRing ==
  Careful => \A p, q \in Procs : \A name \in Names :
    (<<name, 0>> \in opened[p] /\ <<name, 1>> \in opened[q]) =>
      \E v, w \in Regions : pagetable[p][v] # NoFrame /\ pagetable[p][v] = pagetable[q][w]

\* Whatever clients do, a slot with count 0 is as closebuf leaves it: createbuf
\* takes no name, pid or region of an earlier ring over into the next.
FreeSlotClean ==
  \A s \in Slots : ringbufs[s].refcount = 0 =>
    ringbufs[s] = [FreeSlot EXCEPT !.frame = ringbufs[s].frame]

\* Whatever clients do, with whatever names, with rings closed by processes that
\* never opened them, left behind by exit or inherited through fork: a ring outside
\* slot 0 is counted at least once and not more often than it has ends registered,
\* so that it takes at most two calls of closebuf to free it, and a slot with count
\* 0 is clean.  (Slot 0 is taken again for its own name when the table is full.)
EndsCounted ==
  /\ FreeSlotClean
  /\ \A s \in Slots \ {0} : ringbufs[s].vabuf # -1 =>
       ringbufs[s].refcount \in 1..Cardinality({e \in Ends : ringbufs[s].pidsRW[e] # NoPid})
=============================================================================

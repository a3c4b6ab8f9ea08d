----------------------------- MODULE AtomicDisk -----------------------------
(***************************************************************************)
(* What the log promises the file system: a disk whose operations reach it *)
(* in groups, all or nothing.  mem is what a running system reads, durable *)
(* what it will find after a crash.                                        *)
(***************************************************************************)
CONSTANTS Blocks, Vals, Procs

VARIABLES mem, durable, active

diskVars == <<mem, durable, active>>

Init ==
  /\ mem \in [Blocks -> Vals] /\ durable = mem
  /\ active = {}

Begin(p) ==
  /\ p \notin active
  /\ active' = active \cup {p}
  /\ UNCHANGED <<mem, durable>>

Write(p, b, v) ==
  /\ p \in active
  /\ mem' = [mem EXCEPT ![b] = v]
  /\ UNCHANGED <<durable, active>>

End(p) ==
  /\ p \in active
  /\ active' = active \ {p}
  /\ UNCHANGED <<mem, durable>>

\* All finished operations become durable together, none in progress.
Commit ==
  /\ active = {}
  /\ durable' = mem
  /\ UNCHANGED <<mem, active>>

Crash ==
  /\ mem' = durable
  /\ active' = {}
  /\ UNCHANGED durable

Next ==
  \/ Commit \/ Crash
  \/ \E p \in Procs : Begin(p) \/ End(p) \/ \E b \in Blocks, v \in Vals : Write(p, b, v)

Spec == Init /\ [][Next]_diskVars
=============================================================================

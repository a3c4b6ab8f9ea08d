----------------------------- MODULE MCRingBuf ------------------------------
(***************************************************************************)
(* RingBuf for TLC: careful clients that use the system calls and fork,    *)
(* careful ones that leave it to the library which rings they may close,   *)
(* and clients that do anything, with and without the library, among them  *)
(* giving the empty name and having their ring in slot 0.  The run that    *)
(* uses Symmetry checks invariants only.                                   *)
(***************************************************************************)
EXTENDS RingBuf, TLC

CONSTANTS k, p1, p2, p3, f3, f4   \* those that some of the clients have or lack

MCCareful ==
  [procs |-> Procs, born |-> Procs \ {p3}, keeper |-> k, names |-> {"a", "b"}, frames |-> Frames,
   maxOpen |-> 1, strayClose |-> FALSE, exitOpen |-> FALSE, library |-> FALSE]

MCAny ==
  [procs |-> {p1, p2}, born |-> {p1}, keeper |-> NoPid, names |-> {"a", "longname"},
   frames |-> Frames \ {f3, f4}, maxOpen |-> 2, strayClose |-> TRUE, exitOpen |-> TRUE, library |-> FALSE]

MCClients ==
  {MCCareful,
   [MCCareful EXCEPT !.born = Procs, !.strayClose = TRUE, !.library = TRUE],
   MCAny,
   [MCAny EXCEPT !.library = TRUE],
   [MCAny EXCEPT !.names = {NoName, "a"}, !.maxOpen = 1],
   [MCAny EXCEPT !.names = {NoName, "a"}, !.procs = {p1}, !.frames = Frames \ {f4}]}

Symmetry == Permutations(Frames) \cup Permutations(Procs \ {k})
=============================================================================

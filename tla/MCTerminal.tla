----------------------------- MODULE MCTerminal -----------------------------
(* The bounds on typing and writing.  The indices start two before they    *)
(* wrap where much is typed, one before where much is written.             *)
EXTENDS Terminal

MCBudgets ==
  {[type |-> 5, write |-> 0, kill |-> 0, readers |-> Readers, start |-> Wrap - 2],
   [type |-> 2, write |-> 0, kill |-> 1, readers |-> Readers, start |-> 0],
   [type |-> 1, write |-> 2, kill |-> 0, readers |-> {}, start |-> Wrap - 1]}
=============================================================================

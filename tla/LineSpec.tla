------------------------------ MODULE LineSpec ------------------------------
(***************************************************************************)
(* What the console promises its readers: characters are edited until a    *)
(* line is complete, and complete input is read in order, one line at a    *)
(* time.  "nl" ends a line, "eof" is ^D, "kill" ^U, "bs" a backspace, and  *)
(* "nul" the character 0, which is ignored.                                *)
(***************************************************************************)
EXTENDS Naturals, Sequences

CONSTANTS Readers, Capacity, Chars

VARIABLES edit,   \* the line being typed
          ready,  \* complete input nobody has read
          line    \* per reader: what its current, or last, read returns

specvars == <<edit, ready, line>>

SpecInit == edit = <<>> /\ ready = <<>> /\ line = [p \in Readers |-> <<>>]

\* Complete at the end of a line, at ^D, or when there is no more room.
Complete(c) == c \in {"nl", "eof"} \/ Len(ready) + Len(edit) + 1 = Capacity

SpecType(c) ==
  /\ \/ /\ c = "kill" /\ edit' = <<>> /\ UNCHANGED ready
     \/ /\ c = "bs" /\ edit # <<>> /\ edit' = SubSeq(edit, 1, Len(edit) - 1)
        /\ UNCHANGED ready
     \/ /\ c \in Chars \ {"kill", "bs", "nul"} /\ Len(ready) + Len(edit) < Capacity
        /\ IF Complete(c) THEN edit' = <<>> /\ ready' = ready \o edit \o <<c>>
                          ELSE edit' = Append(edit, c) /\ UNCHANGED ready
  /\ UNCHANGED line

SpecCall(p) == line' = [line EXCEPT ![p] = <<>>] /\ UNCHANGED <<edit, ready>>

\* A reader has at most one line and no ^D; the ^D that ends a read of nothing is
\* consumed; a byte that cannot be stored at its destination is lost.
SpecTake(p) ==
  /\ ready # <<>> /\ ready' = Tail(ready) /\ UNCHANGED edit
  /\ \/ /\ Head(ready) # "eof" /\ \A k \in 1..Len(line[p]) : line[p][k] # "nl"
        /\ line' = [line EXCEPT ![p] = Append(@, Head(ready))]
     \/ (Head(ready) = "eof" => line[p] = <<>>) /\ UNCHANGED line

SpecNext ==
  \/ \E c \in Chars : SpecType(c)
  \/ \E p \in Readers : SpecCall(p) \/ SpecTake(p)

LineSpecification == SpecInit /\ [][SpecNext]_specvars
=============================================================================

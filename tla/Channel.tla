------------------------------ MODULE Channel -------------------------------
(***************************************************************************)
(* What a pipe promises: a bounded first-in first-out channel of bytes     *)
(* with two ends.  Bytes are numbered in the order they are accepted.      *)
(***************************************************************************)
EXTENDS Naturals, Sequences

CONSTANT Capacity

VARIABLES queue, sent, readopen, writeopen

chanVars == <<queue, sent, readopen, writeopen>>

Init ==
  /\ queue = << >> /\ sent = 0
  /\ readopen = 0 /\ writeopen = 0

Open ==
  /\ readopen = 0 /\ writeopen = 0 /\ sent = 0
  /\ readopen' = 1 /\ writeopen' = 1
  /\ UNCHANGED <<queue, sent>>

\* A byte is accepted only when there is room and somebody can read it.
Put ==
  /\ writeopen = 1 /\ readopen = 1
  /\ Len(queue) < Capacity
  /\ queue' = Append(queue, sent)
  /\ sent' = sent + 1
  /\ UNCHANGED <<readopen, writeopen>>

\* The oldest byte leaves; the write end may be closed already.
Get ==
  /\ readopen = 1
  /\ queue # << >>
  /\ queue' = Tail(queue)
  /\ UNCHANGED <<sent, readopen, writeopen>>

CloseRead ==
  /\ readopen = 1 /\ readopen' = 0
  /\ UNCHANGED <<queue, sent, writeopen>>

CloseWrite ==
  /\ writeopen = 1 /\ writeopen' = 0
  /\ UNCHANGED <<queue, sent, readopen>>

Next == Open \/ Put \/ Get \/ CloseRead \/ CloseWrite

Spec == Init /\ [][Next]_chanVars
=============================================================================

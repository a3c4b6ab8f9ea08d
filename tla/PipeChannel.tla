---------------------------- MODULE PipeChannel -----------------------------
(***************************************************************************)
(* kernel/pipe.c implements Channel: the queue is what lies in pi->data    *)
(* between nread and nwrite.                                               *)
(***************************************************************************)
EXTENDS Pipe, Sequences

Contents == [k \in 1..((nwrite - nread) % Word) |-> data[(nread + k - 1) % PipeSize]]

C == INSTANCE Channel WITH Capacity <- PipeSize, queue <- Contents, sent <- wTotal

\* Every step of pipealloc, pipewrite, piperead and pipeclose is a step of
\* the channel or leaves it unchanged: no byte is lost, duplicated or
\* reordered inside the pipe, and none is accepted once an end is closed.
ImplementsChannel == C!Spec
=============================================================================

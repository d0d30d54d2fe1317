------------------------------- MODULE CqFifo -------------------------------
(***************************************************************************)
(* What a completion queue of libmlx5 promises: it is a queue of CQEs.  The *)
(* card appends to it, a poll takes the oldest one and finds the queue     *)
(* empty only when it is, and the CQEs of a resource that is reset are     *)
(* taken out at once, the others staying as they are.  Mlx5Cq implements   *)
(* it; Mlx5Queue is built on it.                                           *)
(***************************************************************************)
EXTENDS CqEntries

CONSTANTS
  Cqe,      \* the CQEs, records with the resource number in field rsn
  Rsn,      \* resource numbers: the QPs that share the CQ
  Nothing   \* what a poll returns of an empty queue

VARIABLES
  fifo,     \* the CQEs, oldest first
  polled    \* what the last poll returned

vars == <<fifo, polled>>

Init == fifo = <<>> /\ polled = Nothing

Put(c) == fifo' = Append(fifo, c) /\ UNCHANGED polled

Take ==
  /\ fifo # <<>>
  /\ fifo' = Tail(fifo)

Poll == Take /\ polled' = Head(fifo)

PollEmpty ==
  /\ fifo = <<>>
  /\ polled' = Nothing
  /\ UNCHANGED fifo

Remove(r) ==
  /\ fifo' = Without(fifo, r)
  /\ UNCHANGED polled

Next ==
  \/ \E c \in Cqe : Put(c)
  \/ Poll \/ PollEmpty
  \/ \E r \in Rsn : Remove(r)

Spec == Init /\ [][Next]_vars
=============================================================================

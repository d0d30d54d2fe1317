------------------------------- MODULE Mlx5Cq -------------------------------
(***************************************************************************)
(* A completion queue of libmlx5 (cq.c): a ring the card writes CQEs into  *)
(* while the library polls it, sweeps the CQEs of a QP out of it when that *)
(* QP is reset (__mlx5_cq_clean), and moves it to a ring of another size   *)
(* (mlx5_resize_cq, mlx5_cq_resize_copy_cqes).                             *)
(*                                                                         *)
(* The card tells the library what is new by the owner bit of each entry,  *)
(* which has the parity of the round the entry was written in; the library *)
(* tells the card what is free by the consumer index in the doorbell       *)
(* record.  cq->lock orders the library's three loops, never the card: it  *)
(* writes between any two of their steps.  A thread holds the lock from    *)
(* the step that leaves "free" to the step that returns to it.             *)
(*                                                                         *)
(* The number of completions an application may have outstanding is the    *)
(* cqe it was told, one less than the ring (create_cq: "The additional     *)
(* entry is required for resize CQ"); it is the application's part to keep *)
(* to it.                                                                  *)
(***************************************************************************)
EXTENDS CqEntries

CONSTANTS
  Rsn,        \* the QPs that share the CQ
  Tag,        \* what else a CQE carries
  Nothing,    \* what a poll returns of an empty CQ
  RingSizes,  \* the sizes a ring may have: align_queue_size of cqe + 1
  IndexMod,   \* indices are counted modulo this: 2^32
  Ne          \* entries one call of poll_cq takes

ASSUME CqAssumption ==
  /\ RingSizes \subseteq Nat \ {0, 1}
  /\ IndexMod \in Nat \ {0}
  /\ \A n \in RingSizes : IndexMod % (2 * n) = 0
  /\ Ne \in Nat \ {0}

VARIABLES
  cq,          \* cons_index, size (ibv_cq.cqe + 1), and the loop under the lock
  buf,         \* active_buf: the ring
  resize_buf,  \* the ring that replaces it, <<>> when there is none
  dbrec,       \* MLX5_CQ_SET_CI: the consumer index the card sees
  card,        \* the card's producer index, and the index of its RESIZE_CQ entry
  qp_state,    \* per QP: "live", "reset" by the kernel, "clean" in the CQ too
  polled       \* what the last poll returned

vars == <<cq, buf, resize_buf, dbrec, card, qp_state, polled>>

Cqe == [rsn : Rsn, tag : Tag]

Invalid == [op |-> "invalid", own |-> 0, cqe |-> Nothing]

(* A new ring: every entry is MLX5_CQE_INVALID. *)
NewRing(n) == [k \in 0 .. n - 1 |-> Invalid]

(* Mutant of Add: the index is not wrapped. *)
Add_NoWrap(i, k) == i + k

Add(i, k) == (i + k) % IndexMod

Ahead(i, j) == (i - j) % IndexMod        \* how far i is ahead of j

(* The owner bit of index i in a ring of n entries. *)
Parity(i, n) == (i \div n) % 2

Idle == [pc |-> "free", n |-> 0, rsn |-> Nothing, prod_index |-> 0, nfreed |-> 0]

Init ==
  \E n \in RingSizes :
    /\ cq = [cons_index |-> 0, size |-> n, loop |-> Idle]
    /\ buf = NewRing(n)
    /\ resize_buf = <<>>
    /\ dbrec = 0
    /\ card = [prod |-> 0, resized |-> 0]
    /\ qp_state = [r \in Rsn |-> "live"]
    /\ polled = Nothing

-----------------------------------------------------------------------------
(***************************************************************************)
(* The card.                                                               *)
(***************************************************************************)

Resizing == resize_buf # <<>>

(* The application has fewer completions outstanding than it was told the   *)
(* CQ can hold; the RESIZE_CQ entry is not one of them.                     *)
Room == IF Resizing THEN Ahead(card.prod, dbrec) - 1 < Len(resize_buf) - 1
                    ELSE Ahead(card.prod, dbrec) < cq.size - 1

Entry(op, own, c) == [op |-> op, own |-> own, cqe |-> c]

(* A CQE of a live QP is written, into the new ring once it has begun.  A   *)
(* ring is a function on 0 .. n-1, the new one a sequence of its entries.   *)
Put(c) ==
  /\ qp_state[c.rsn] = "live"
  /\ Room
  /\ card' = [card EXCEPT !.prod = Add(@, 1)]
  /\ IF Resizing
       THEN LET n == Len(resize_buf)
            IN  /\ resize_buf' = [resize_buf EXCEPT ![1 + (card.prod % n)] =
                                    Entry("done", Parity(card.prod, n), c)]
                /\ UNCHANGED buf
       ELSE /\ buf' = [buf EXCEPT ![card.prod % cq.size] =
                         Entry("done", Parity(card.prod, cq.size), c)]
            /\ UNCHANGED resize_buf
  /\ UNCHANGED <<cq, dbrec, qp_state, polled>>

-----------------------------------------------------------------------------
(***************************************************************************)
(* poll_cq: mlx5_poll_one up to Ne times under the lock, then the doorbell *)
(* record.                                                                 *)
(***************************************************************************)

(* get_sw_cqe, get_next_cqe: the entry at index i is there to be read.      *)
SwOwned(i) ==
  LET e == buf[i % cq.size]
  IN  e.op # "invalid" /\ e.own = Parity(i, cq.size)

Locked(pc) == cq.loop.pc = pc

Polling == Locked("free") \/ (Locked("poll") /\ cq.loop.n < Ne)

PollOne ==
  /\ Polling
  /\ SwOwned(cq.cons_index)
  /\ polled' = buf[cq.cons_index % cq.size].cqe
  /\ cq' = [cq EXCEPT !.cons_index = Add(@, 1),
                      !.loop.pc = "poll", !.loop.n = @ + 1]
  /\ UNCHANGED <<buf, resize_buf, dbrec, card, qp_state>>

PollEmpty ==
  /\ Polling
  /\ ~SwOwned(cq.cons_index)
  /\ polled' = Nothing
  /\ cq' = [cq EXCEPT !.loop = Idle]
  /\ dbrec' = cq.cons_index
  /\ UNCHANGED <<buf, resize_buf, card, qp_state>>

PollEnd ==
  /\ Locked("poll") /\ cq.loop.n = Ne
  /\ cq' = [cq EXCEPT !.loop = Idle]
  /\ dbrec' = cq.cons_index
  /\ UNCHANGED <<buf, resize_buf, card, qp_state, polled>>

-----------------------------------------------------------------------------
(***************************************************************************)
(* A QP goes to RESET: the kernel stops it, then its CQEs are swept out,   *)
(* and only then may it come back.                                         *)
(***************************************************************************)

ResetQp(r) ==
  /\ qp_state[r] = "live"
  /\ qp_state' = [qp_state EXCEPT ![r] = "reset"]
  /\ UNCHANGED <<cq, buf, resize_buf, dbrec, card, polled>>

ReviveQp(r) ==
  /\ qp_state[r] = "clean"
  /\ qp_state' = [qp_state EXCEPT ![r] = "live"]
  /\ UNCHANGED <<cq, buf, resize_buf, dbrec, card, polled>>

CleanStart(r) ==
  /\ Locked("free")
  /\ qp_state[r] = "reset"
  /\ cq' = [cq EXCEPT !.loop = [Idle EXCEPT !.pc = "scan", !.rsn = r,
                                            !.prod_index = cq.cons_index]]
  /\ UNCHANGED <<buf, resize_buf, dbrec, card, qp_state, polled>>

(* "First we need to find the current producer index". *)
Scan ==
  /\ Locked("scan")
  /\ LET p == cq.loop.prod_index
     IN  cq' = IF SwOwned(p) /\ p # Add(cq.cons_index, cq.size - 1)
                 THEN [cq EXCEPT !.loop.prod_index = Add(@, 1)]
                 ELSE [cq EXCEPT !.loop.pc = "sweep"]
  /\ UNCHANGED <<buf, resize_buf, dbrec, card, qp_state, polled>>

(* Mutant of Sweep: the entry is copied with its owner bit. *)
Sweep_OwnOwner ==
  /\ Locked("sweep") /\ cq.loop.prod_index # cq.cons_index
  /\ LET p    == Add(cq.loop.prod_index, -1)
         e    == buf[p % cq.size]
         dest == Add(p, cq.loop.nfreed) % cq.size
         gone == e.cqe.rsn = cq.loop.rsn
     IN  /\ cq' = [cq EXCEPT !.loop.prod_index = p,
                             !.loop.nfreed = IF gone THEN @ + 1 ELSE @]
         /\ buf' = IF gone \/ cq.loop.nfreed = 0 THEN buf
                   ELSE [buf EXCEPT ![dest] = e]
  /\ UNCHANGED <<resize_buf, dbrec, card, qp_state, polled>>

(* "Now sweep backwards through the CQ, removing CQ entries that match our  *)
(* QP by copying older entries on top of them": the entry copied over keeps *)
(* its own owner bit.                                                       *)
Sweep ==
  /\ Locked("sweep") /\ cq.loop.prod_index # cq.cons_index
  /\ LET p    == Add(cq.loop.prod_index, -1)
         e    == buf[p % cq.size]
         dest == Add(p, cq.loop.nfreed) % cq.size
         gone == e.cqe.rsn = cq.loop.rsn
     IN  /\ cq' = [cq EXCEPT !.loop.prod_index = p,
                             !.loop.nfreed = IF gone THEN @ + 1 ELSE @]
         /\ buf' = IF gone \/ cq.loop.nfreed = 0 THEN buf
                   ELSE [buf EXCEPT ![dest] = Entry(e.op, @.own, e.cqe)]
  /\ UNCHANGED <<resize_buf, dbrec, card, qp_state, polled>>

CleanEnd ==
  /\ Locked("sweep") /\ cq.loop.prod_index = cq.cons_index
  /\ cq' = [cq EXCEPT !.cons_index = Add(@, cq.loop.nfreed), !.loop = Idle]
  /\ dbrec' = cq'.cons_index
  /\ qp_state' = [qp_state EXCEPT ![cq.loop.rsn] = "clean"]
  /\ UNCHANGED <<buf, resize_buf, card, polled>>

-----------------------------------------------------------------------------
(***************************************************************************)
(* mlx5_resize_cq.  The kernel's command makes the card write a RESIZE_CQ  *)
(* entry and go on in the new ring; the library copies what is before that *)
(* entry, one index further, since the entry itself takes one.             *)
(***************************************************************************)

ResizeStart(n) ==
  /\ Locked("free")
  /\ n # cq.size
  /\ Ahead(card.prod, cq.cons_index) <= n - 1
  /\ cq' = [cq EXCEPT !.loop = [Idle EXCEPT !.pc = "copy",
                                            !.prod_index = cq.cons_index]]
  /\ buf' = [buf EXCEPT ![card.prod % cq.size] =
               Entry("resize", Parity(card.prod, cq.size), Nothing)]
  /\ resize_buf' = [k \in 1 .. n |-> Invalid]
  /\ card' = [prod |-> Add(card.prod, 1), resized |-> card.prod]
  /\ UNCHANGED <<dbrec, qp_state, polled>>

(* Mutant of Copy: the owner of the entry read is checked by the new size. *)
Copy_NewOwner ==
  /\ Locked("copy")
  /\ LET i    == cq.loop.prod_index
         e    == buf[i % cq.size]
         n    == Len(resize_buf)
         next == Add(i, 1)
     IN  /\ e.op # "resize"
         /\ resize_buf' = [resize_buf EXCEPT ![1 + (next % n)] =
                             Entry(e.op, Parity(next, n), e.cqe)]
         /\ cq' = [cq EXCEPT !.loop.prod_index = next,
                             !.loop.pc = IF \/ buf[next % cq.size].own # Parity(next, n)
                                            \/ next % cq.size = cq.cons_index % cq.size
                                           THEN "failed" ELSE @]
  /\ UNCHANGED <<buf, dbrec, card, qp_state, polled>>

(* One round of the copying loop.  prod_index is its i. *)
Copy ==
  /\ Locked("copy")
  /\ LET i    == cq.loop.prod_index
         e    == buf[i % cq.size]
         n    == Len(resize_buf)
         next == Add(i, 1)
     IN  /\ e.op # "resize"
         /\ resize_buf' = [resize_buf EXCEPT ![1 + (next % n)] =
                             Entry(e.op, Parity(next, n), e.cqe)]
         /\ cq' = [cq EXCEPT !.loop.prod_index = next,
                             !.loop.pc = IF \/ buf[next % cq.size].own # Parity(next, cq.size)
                                            \/ next % cq.size = cq.cons_index % cq.size
                                           THEN "failed" ELSE @]
  /\ UNCHANGED <<buf, dbrec, card, qp_state, polled>>

ResizeEnd ==
  /\ Locked("copy")
  /\ buf[cq.loop.prod_index % cq.size].op = "resize"
  /\ cq' = [cons_index |-> Add(cq.cons_index, 1), size |-> Len(resize_buf),
            loop |-> Idle]
  /\ buf' = [k \in 0 .. Len(resize_buf) - 1 |-> resize_buf[k + 1]]
  /\ resize_buf' = <<>>
  /\ dbrec' = cq'.cons_index
  /\ card' = [card EXCEPT !.resized = 0]
  /\ UNCHANGED <<qp_state, polled>>

Next ==
  \/ \E c \in Cqe : Put(c)
  \/ PollOne \/ PollEmpty \/ PollEnd
  \/ \E r \in Rsn : ResetQp(r) \/ ReviveQp(r) \/ CleanStart(r)
  \/ Scan \/ Sweep \/ CleanEnd
  \/ \E n \in RingSizes : ResizeStart(n)
  \/ Copy \/ ResizeEnd

Spec == Init /\ [][Next]_vars

-----------------------------------------------------------------------------
(***************************************************************************)
(* Properties.                                                             *)
(***************************************************************************)

Index == 0 .. IndexMod - 1

TypeOK ==
  LET entry == [op : {"invalid", "done", "resize"}, own : {0, 1},
                cqe : Cqe \cup {Nothing}]
  IN  /\ cq \in [cons_index : Index, size : RingSizes,
                 loop : [pc : {"free", "poll", "scan", "sweep", "copy", "failed"},
                         n : 0 .. Ne, rsn : Rsn \cup {Nothing},
                         prod_index : Index, nfreed : Nat]]
      /\ buf \in [0 .. cq.size - 1 -> entry]
      /\ resize_buf \in Seq(entry)
      /\ dbrec \in Index
      /\ card \in [prod : Index, resized : Index]
      /\ qp_state \in [Rsn -> {"live", "reset", "clean"}]
      /\ polled \in Cqe \cup {Nothing}

(* The copying loop finds the RESIZE_CQ entry, and no entry before it that  *)
(* the card still owns: mlx5_cq_resize_copy_cqes never gives up half way.   *)
ResizeCompletes == ~Locked("failed")

(* The CQEs from index i to index j, in the ring and in the new one.        *)
Slice(i, j) == [k \in 1 .. Ahead(j, i) |-> buf[(i + k - 1) % cq.size].cqe]
NewSlice(i, j) ==
  [k \in 1 .. Ahead(j, i) |-> resize_buf[1 + ((i + k - 1) % Len(resize_buf))].cqe]

(* The queue the ring stands for.  A sweep takes effect when it has found   *)
(* the end of the queue: what is left to look at stands without the CQEs of *)
(* the QP, what it has looked at is in place.                               *)
Queue ==
  IF Locked("sweep")
    THEN Without(Slice(cq.cons_index, cq.loop.prod_index), cq.loop.rsn)
           \o Slice(Add(cq.loop.prod_index, cq.loop.nfreed), card.prod)
  ELSE IF Resizing
    THEN Slice(cq.cons_index, card.resized)
           \o NewSlice(Add(card.resized, 1), card.prod)
  ELSE Slice(cq.cons_index, card.prod)

Fifo == INSTANCE CqFifo WITH fifo <- Queue

(* Whatever the card writes between the steps of a sweep or of a resize,    *)
(* the CQ is a queue: a poll returns the oldest CQE, once, and nothing only *)
(* when there is nothing, and a sweep takes the CQEs of its QP out at the   *)
(* moment it has found the end of the queue.                                *)
IsFifo == Fifo!Spec
=============================================================================

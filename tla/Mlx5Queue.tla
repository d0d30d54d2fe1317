----------------------------- MODULE Mlx5Queue -----------------------------
(***************************************************************************)
(* The send queue and the receive queue of the QPs of libmlx5 that share a *)
(* CQ: posting of lists of work requests (qp.c), the card that executes    *)
(* them, the poll that finds out which request a CQE is about and releases *)
(* its slots (cq.c), the error state with its flush, and the way through   *)
(* RESET (mlx5_modify_qp in verbs.c).                                      *)
(*                                                                         *)
(* A send WQE takes one or several blocks of the ring; the ring's indices  *)
(* count blocks, head and tail count requests, and wqe_head leads from the *)
(* one to the other.  A request that is not signalled has no CQE: the next *)
(* CQE releases it too.                                                    *)
(*                                                                         *)
(* The poster holds the queue's lock from its first request to the         *)
(* doorbell, the poller the CQ's lock: their steps interleave, and those   *)
(* of the card with both.  The CQ is what CqFifo says, which Mlx5Cq        *)
(* implements; a poll of a CQE is one step under its lock.                 *)
(***************************************************************************)
EXTENDS Integers, Sequences, FiniteSets, SequencesExt

CONSTANTS
  Qps,        \* the QPs
  SqBlocks,   \* sq.wqe_cnt: blocks of a send queue, a power of 2
  SqMaxPost,  \* sq.max_post
  WqeBlocks,  \* blocks a send WQE may take
  RqCnt,      \* rq.wqe_cnt, and rq.max_post
  ListMax,    \* bound: requests in one call
  CtrMod,     \* the counters of the rings are modulo this: 2^32, in a CQE 2^16
  NumMod      \* head and tail of a queue, which count requests: 2^32
ASSUME QueueAssumption ==
  /\ {SqBlocks, SqMaxPost, RqCnt, ListMax, CtrMod, NumMod} \subseteq Nat \ {0}
  /\ WqeBlocks \subseteq Nat \ {0}
  /\ \A n \in WqeBlocks : SqMaxPost * n <= SqBlocks   \* max_post = wq_size / wqe_size
  /\ CtrMod % SqBlocks = 0 /\ CtrMod > SqBlocks
  /\ NumMod % RqCnt = 0 /\ NumMod > RqCnt /\ NumMod > SqMaxPost

VARIABLES
  sq,        \* per QP: head, tail, scur_post, wqe_head, wrid, and the ring's blocks
  rq,        \* per QP: head, tail, wrid
  nreq,      \* per QP: requests of the posting call in progress
  db,        \* per QP: MLX5_SND_DBR, MLX5_RCV_DBR
  card,      \* per QP: the card's counters of the two queues, and its error
  reset,     \* per QP: how far mlx5_modify_qp to RESET is
  fifo,      \* the CQ
  sends,     \* history, per QP: requests posted whose slots are not released
  recvs      \* history, per QP: receives posted and not reported

qVars == <<sq, rq, nreq, db, card, reset>>
vars == <<qVars, fifo, sends, recvs>>

Ctrs == 0 .. CtrMod - 1
Nums == 0 .. NumMod - 1
Blocks == 0 .. SqBlocks - 1
Slots == 0 .. RqCnt - 1

(* A CQE: its queue pair, its opcode, the counter of its WQE, and, for the  *)
(* properties only, the request it is about.  The wr_id of a request is its *)
(* number in the queue.                                                     *)
Cqe == [rsn : Qps, op : {"req", "resp"}, wqe_counter : Ctrs, of : Nums]

Cq == INSTANCE CqFifo WITH Rsn <- Qps, Nothing <- 0, polled <- 0

Add(i, k) == (i + k) % CtrMod

(* Mutant of Num: the number of a request is not wrapped. *)
Num_NoWrap(i, k) == i + k

Num(i, k) == (i + k) % NumMod

(* mlx5_init_qp_indices, and the rings as malloc leaves them.               *)
NoBlock == [id |-> 0, part |-> 0]

EmptySq == [head |-> 0, tail |-> 0, scur_post |-> 0,
            wqe_head |-> [k \in Blocks |-> 0], wrid |-> [k \in Blocks |-> 0],
            ring |-> [k \in Blocks |-> NoBlock]]

EmptyRq == [head |-> 0, tail |-> 0, wrid |-> [k \in Slots |-> 0]]

NewCard == [sent |-> 0, received |-> 0, error |-> FALSE]

Init ==
  /\ sq = [q \in Qps |-> EmptySq]
  /\ rq = [q \in Qps |-> EmptyRq]
  /\ nreq = [q \in Qps |-> 0]
  /\ db = [q \in Qps |-> [snd |-> 0, rcv |-> 0]]
  /\ card = [q \in Qps |-> NewCard]
  /\ reset = [q \in Qps |-> "no"]
  /\ fifo = <<>>
  /\ sends = [q \in Qps |-> <<>>]
  /\ recvs = [q \in Qps |-> <<>>]

-----------------------------------------------------------------------------
(***************************************************************************)
(* mlx5_post_send and mlx5_post_recv.                                      *)
(***************************************************************************)

(* Mutant of Overflow: one request more than the queue has room for. *)
Overflow_OffByOne(wq, n, max_post) == (wq.head - wq.tail + n) % NumMod > max_post

(* mlx5_wq_overflow. *)
Overflow(wq, n, max_post) == (wq.head - wq.tail + n) % NumMod >= max_post

(* Mutant of PostSendOne: wqe_head does not count the requests of this call. *)
PostSendOne_HeadOnly(q, size, signaled) ==
  /\ reset[q] = "no"
  /\ nreq[q] < ListMax
  /\ ~Overflow(sq[q], nreq[q], SqMaxPost)
  /\ LET at  == sq[q].scur_post
         idx == at % SqBlocks
         id  == Num(sq[q].head, nreq[q])
         wr  == [id |-> id, size |-> size, signaled |-> signaled]
     IN  /\ sq' = [sq EXCEPT
              ![q].ring = [k \in Blocks |->
                 LET part == (k - at) % SqBlocks
                 IN  IF part < size THEN [id |-> id, part |-> part] ELSE @[k]],
              ![q].wrid[idx] = id,
              ![q].wqe_head[idx] = sq[q].head,
              ![q].scur_post = Add(@, size)]
         /\ sends' = [sends EXCEPT ![q] = Append(@, wr)]
  /\ nreq' = [nreq EXCEPT ![q] = @ + 1]
  /\ UNCHANGED <<rq, db, card, reset, fifo, recvs>>

(* A request of the list gets its WQE: size blocks, which may wrap.         *)
PostSendOne(q, size, signaled) ==
  /\ reset[q] = "no"
  /\ nreq[q] < ListMax
  /\ ~Overflow(sq[q], nreq[q], SqMaxPost)
  /\ LET at  == sq[q].scur_post
         idx == at % SqBlocks
         id  == Num(sq[q].head, nreq[q])
         wr  == [id |-> id, size |-> size, signaled |-> signaled]
     IN  /\ sq' = [sq EXCEPT
              ![q].ring = [k \in Blocks |->
                 LET part == (k - at) % SqBlocks
                 IN  IF part < size THEN [id |-> id, part |-> part] ELSE @[k]],
              ![q].wrid[idx] = id,
              ![q].wqe_head[idx] = id,
              ![q].scur_post = Add(@, size)]
         /\ sends' = [sends EXCEPT ![q] = Append(@, wr)]
  /\ nreq' = [nreq EXCEPT ![q] = @ + 1]
  /\ UNCHANGED <<rq, db, card, reset, fifo, recvs>>

(* Mutant of PostSendEnd: the doorbell leaves the last request out. *)
PostSendEnd_LastNotRung(q) ==
  /\ nreq[q] > 0
  /\ sq' = [sq EXCEPT ![q].head = Num(@, nreq[q])]
  /\ db' = [db EXCEPT ![q].snd = Add(sq[q].scur_post, -Last(sends[q]).size)]
  /\ nreq' = [nreq EXCEPT ![q] = 0]
  /\ UNCHANGED <<rq, card, reset, fifo, sends, recvs>>

(* The list ends, or a request of it is refused: head and the doorbell.     *)
PostSendEnd(q) ==
  /\ nreq[q] > 0
  /\ sq' = [sq EXCEPT ![q].head = Num(@, nreq[q])]
  /\ db' = [db EXCEPT ![q].snd = sq[q].scur_post]
  /\ nreq' = [nreq EXCEPT ![q] = 0]
  /\ UNCHANGED <<rq, card, reset, fifo, sends, recvs>>

(* A receive; a list of them is posted one by one, since head and doorbell  *)
(* after each make no difference to a queue whose WQEs are all one block.   *)
PostRecv(q) ==
  /\ reset[q] = "no"
  /\ ~Overflow(rq[q], 0, RqCnt)
  /\ rq' = [rq EXCEPT ![q].wrid[rq[q].head % RqCnt] = rq[q].head,
                      ![q].head = Num(@, 1)]
  /\ db' = [db EXCEPT ![q].rcv = Num(rq[q].head, 1)]
  /\ recvs' = [recvs EXCEPT ![q] = Append(@, [id |-> rq[q].head])]
  /\ UNCHANGED <<sq, nreq, card, reset, fifo, sends>>

-----------------------------------------------------------------------------
(***************************************************************************)
(* The card.  It executes what the doorbell has announced, in order, and   *)
(* reports requests that are signalled, that fail, or that it flushes.     *)
(***************************************************************************)

(* The WQE the card finds: the block has the id, and with it the request.   *)
Wqe(q) ==
  LET id == sq[q].ring[card[q].sent % SqBlocks].id
  IN  sends[q][SelectInSeq(sends[q], LAMBDA wr : wr.id = id)]

CardSends(q, fails) ==
  /\ reset[q] = "no"
  /\ card[q].sent # db[q].snd
  /\ LET wqe == Wqe(q)
         bad == fails \/ card[q].error
     IN  /\ card' = [card EXCEPT ![q].sent = Add(@, wqe.size), ![q].error = bad]
         /\ IF wqe.signaled \/ bad
              THEN Cq!Put([rsn |-> q, op |-> "req", wqe_counter |-> card[q].sent,
                           of |-> wqe.id])
              ELSE UNCHANGED fifo
  /\ UNCHANGED <<sq, rq, nreq, db, reset, sends, recvs>>

(* A packet arrives, or in the error state the receive is flushed.          *)
CardReceives(q) ==
  /\ reset[q] = "no"
  /\ card[q].received # db[q].rcv
  /\ card' = [card EXCEPT ![q].received = Num(@, 1)]
  /\ Cq!Put([rsn |-> q, op |-> "resp", wqe_counter |-> 0,
             of |-> rq[q].wrid[card[q].received % RqCnt]])
  /\ UNCHANGED <<sq, rq, nreq, db, reset, sends, recvs>>

-----------------------------------------------------------------------------
(***************************************************************************)
(* mlx5_poll_one.                                                          *)
(***************************************************************************)

(* History: the requests up to the one with this id are released.           *)
After(open, id) ==
  LET k == SelectInSeq(open, LAMBDA wr : wr.id = id)
  IN  SubSeq(open, k + 1, Len(open))

(* MLX5_CQE_REQ, and MLX5_CQE_REQ_ERR alike. *)
PollSend ==
  /\ fifo # <<>> /\ Head(fifo).op = "req"
  /\ LET cqe == Head(fifo)
         q   == cqe.rsn
         idx == cqe.wqe_counter % SqBlocks
     IN  /\ sq' = [sq EXCEPT ![q].tail = Num(sq[q].wqe_head[idx], 1)]
         /\ sends' = [sends EXCEPT ![q] = After(@, cqe.of)]
  /\ Cq!Take
  /\ UNCHANGED <<rq, nreq, db, card, reset, recvs>>

(* MLX5_CQE_RESP_*: receives complete in the order they were posted.        *)
PollRecv ==
  /\ fifo # <<>> /\ Head(fifo).op = "resp"
  /\ LET cqe == Head(fifo)
         q   == cqe.rsn
     IN  /\ rq' = [rq EXCEPT ![q].tail = Num(@, 1)]
         /\ recvs' = [recvs EXCEPT ![q] = After(@, cqe.of)]
  /\ Cq!Take
  /\ UNCHANGED <<sq, nreq, db, card, reset, sends>>

-----------------------------------------------------------------------------
(***************************************************************************)
(* mlx5_modify_qp to RESET: the kernel stops the QP, its CQEs are swept    *)
(* out of the CQ, then the indices and the doorbells start again.  Another *)
(* thread may poll the CQ between any two of these; none may post.         *)
(***************************************************************************)

ResetQp(q) ==
  /\ reset[q] = "no" /\ nreq[q] = 0
  /\ reset' = [reset EXCEPT ![q] = "stopped"]
  /\ card' = [card EXCEPT ![q] = NewCard]
  /\ UNCHANGED <<sq, rq, nreq, db, fifo, sends, recvs>>

(* Mutant of CleanCq: the CQEs of receives stay. *)
CleanCq_SendsOnly(q) ==
  /\ reset[q] = "stopped"
  /\ reset' = [reset EXCEPT ![q] = "clean"]
  /\ fifo' = SelectSeq(fifo, LAMBDA cqe : cqe.rsn # q \/ cqe.op = "resp")
  /\ UNCHANGED <<sq, rq, nreq, db, card, sends, recvs>>

CleanCq(q) ==
  /\ reset[q] = "stopped"
  /\ reset' = [reset EXCEPT ![q] = "clean"]
  /\ Cq!Remove(q)
  /\ UNCHANGED <<sq, rq, nreq, db, card, sends, recvs>>

InitIndices(q) ==
  /\ reset[q] = "clean"
  /\ reset' = [reset EXCEPT ![q] = "no"]
  /\ sq' = [sq EXCEPT ![q].head = 0, ![q].tail = 0, ![q].scur_post = 0]
  /\ rq' = [rq EXCEPT ![q].head = 0, ![q].tail = 0]
  /\ db' = [db EXCEPT ![q] = [snd |-> 0, rcv |-> 0]]
  /\ sends' = [sends EXCEPT ![q] = <<>>]
  /\ recvs' = [recvs EXCEPT ![q] = <<>>]
  /\ UNCHANGED <<nreq, card, fifo>>

Next ==
  \/ \E q \in Qps :
       \/ \E size \in WqeBlocks, signaled \in BOOLEAN : PostSendOne(q, size, signaled)
       \/ PostSendEnd(q)
       \/ PostRecv(q)
       \/ \E fails \in BOOLEAN : CardSends(q, fails)
       \/ CardReceives(q)
       \/ ResetQp(q) \/ CleanCq(q) \/ InitIndices(q)
  \/ PollSend \/ PollRecv

(* The card works, and the application polls.                               *)
Fairness ==
  /\ \A q \in Qps : WF_vars(CardSends(q, FALSE)) /\ WF_vars(PostSendEnd(q))
  /\ WF_vars(PollSend \/ PollRecv)

Spec == Init /\ [][Next]_vars

FairSpec == Spec /\ Fairness

-----------------------------------------------------------------------------
(***************************************************************************)
(* Properties.                                                             *)
(***************************************************************************)

TypeOK ==
  /\ sq \in [Qps -> [head : Nums, tail : Nums, scur_post : Ctrs,
                     wqe_head : [Blocks -> Nums], wrid : [Blocks -> Nums],
                     ring : [Blocks -> [id : Nums, part : Nat]]]]
  /\ rq \in [Qps -> [head : Nums, tail : Nums, wrid : [Slots -> Nums]]]
  /\ nreq \in [Qps -> 0 .. ListMax]
  /\ db \in [Qps -> [snd : Ctrs, rcv : Nums]]
  /\ card \in [Qps -> [sent : Ctrs, received : Nums, error : BOOLEAN]]
  /\ reset \in [Qps -> {"no", "stopped", "clean"}]
  /\ fifo \in Seq(Cqe)

(* The CQEs of receives of QP q before place k of the queue.                *)
RespsBefore(q, k) ==
  Cardinality({j \in 1 .. k - 1 : fifo[j].rsn = q /\ fifo[j].op = "resp"})

(* The wr_id a poll makes of the k-th CQE of the queue.  CQEs of receives    *)
(* carry none: they take those of the receive queue in order.               *)
WrId(k) ==
  LET q == fifo[k].rsn
  IN  IF fifo[k].op = "req" THEN sq[q].wrid[fifo[k].wqe_counter % SqBlocks]
                            ELSE rq[q].wrid[(rq[q].tail + RespsBefore(q, k)) % RqCnt]

(* A work completion carries the wr_id of the request it is about, however  *)
(* many requests were posted since, and also if the QP goes through RESET.  *)
RightCompletion == \A k \in 1 .. Len(fifo) : WrId(k) = fifo[k].of

(* The blocks of the requests of QP q from the one numbered k on.           *)
BlocksFrom(q, k) ==
  SumFunctionOnSet([j \in 1 .. Len(sends[q]) |-> sends[q][j].size],
                   k .. Len(sends[q]))

(* No WQE is overwritten before its slots are released: the ring still has  *)
(* every block of every request that the poller has not released.           *)
NoOverwrite ==
  \A q \in Qps : reset[q] = "no" =>
    \A k \in 1 .. Len(sends[q]) :
      LET first == Add(sq[q].scur_post, -BlocksFrom(q, k))
      IN  \A part \in 0 .. sends[q][k].size - 1 :
            sq[q].ring[(first + part) % SqBlocks] =
              [id |-> sends[q][k].id, part |-> part]

(* The room the library counts is the room there is: requests that are not  *)
(* signalled are released by the next CQE, all of them and no other.        *)
SlotsExact ==
  \A q \in Qps : reset[q] = "no" =>
    /\ (sq[q].head + nreq[q] - sq[q].tail) % NumMod = Len(sends[q])
    /\ (rq[q].head - rq[q].tail) % NumMod = Len(recvs[q])
    /\ Len(sends[q]) <= SqMaxPost
    /\ Len(recvs[q]) <= RqCnt

(* A send queue that refuses requests takes them again, if the last request *)
(* in it asks for a CQE, and whatever part of a list was refused.           *)
Refuses(q) == reset[q] = "no" /\ Overflow(sq[q], nreq[q], SqMaxPost)

RoomReturns ==
  \A q \in Qps :
    Refuses(q) /\ sends[q] # <<>> /\ Last(sends[q]).signaled ~> ~Refuses(q)
=============================================================================

---------------------------- MODULE MprudEndpoint ----------------------------
(***************************************************************************)
(* One endpoint of an MPRUD connection without path failure: the queue of  *)
(* work requests kept in mpctx.wqe_table, the posting loops of             *)
(* mprud_post_send / mprud_post_recv, and mprud_poll_cq with its inner     *)
(* poll (one packet completion of one path) and outer poll (one message    *)
(* completion for the application).                                        *)
(*                                                                         *)
(* The client runs the send functions and the server the receive           *)
(* functions; on the control of this module they are the same code on the  *)
(* counters of their side (posted_scnt or posted_rcnt, tot_sposted or      *)
(* tot_rposted, ...), with max_outstd 256 or 512.  One thread runs the     *)
(* endpoint; the network card adds completions at any time.                *)
(*                                                                         *)
(* What the bytes of a packet are is left to MprudPlacement, the network   *)
(* between two endpoints to MprudTransfer, a path failure to the recovery  *)
(* module: active_num is a variable because recovery changes it.           *)
(***************************************************************************)
EXTENDS MprudSplit, Sequences, FiniteSets, Functions

CONSTANTS
  NumPath,    \* MPRUD_NUM_PATH, the inner QPs
  TableLen,   \* MPRUD_TABLE_LEN, the slots of wqe_table
  MaxOutstd,  \* max_outstd of the posting loop: 256 for sends, 512 for receives
  Depth,      \* the application's tx_depth / rx_depth: posted messages not completed
  Sizes,      \* the message sizes the application posts
  MaxMsgs,    \* bound: messages posted in a behaviour
  PollIdle    \* whether the application polls with no message outstanding

Paths == 0 .. NumPath - 1
Slots == 0 .. TableLen - 1

ASSUME EndpointAssumption ==
  /\ NumPath \in Nat \ {0}
  /\ TableLen \in Nat \ {0}
  /\ MaxOutstd \in Nat \ {0}
  /\ Depth \in Nat \ {0}
  /\ MaxMsgs \in Nat
  /\ Sizes \subseteq Nat
  /\ PollIdle \in BOOLEAN

(***************************************************************************)
(* A message of fewer bytes than paths has no packet at all; the receiver  *)
(* divides by that number (mprud_store_wr, avg_size_per_pkt), so such a    *)
(* message stops the program and none is posted here.                      *)
(***************************************************************************)
ASSUME SizesAssumption == \A s \in Sizes : s >= NumPath

VARIABLES
  active_num,  \* mp_manager.active_num
  wqe_table,   \* mpctx.wqe_table: head, next, sqn and the slots
  qp_stat,     \* mpctx.qp_stat of the inner QPs
  tot,         \* mpctx.tot_[rs]posted and tot_[rs]polled
  post_turn,   \* mpctx.post_turn
  poll_turn,   \* mpctx.poll_turn
  call,        \* the posting function that is running, and its locals
  cq,          \* completions in the CQ of each inner QP, not yet polled
  done,        \* message completions returned to the application
  cum          \* history: cum[m + 1] is the packets per path of messages 0..m-1

vars == <<active_num, wqe_table, qp_stat, tot, post_turn, poll_turn, call,
          cq, done, cum>>

-----------------------------------------------------------------------------
(* Mutant of Wrap: the index is not reset at the end of the table. *)
Wrap_NoReset(k) == k

(* A slot index after the last one is the first one. *)
Wrap(k) == IF k = TableLen THEN 0 ELSE k

(* Packets posted that no inner poll has counted. *)
Outstanding(t) == t.posted - t.polled

(* Mutant of QueueFull: one packet too many. *)
QueueFull_OffByOne(t) == Outstanding(t) > MaxOutstd

(* The posting loop must poll before it posts another packet. *)
QueueFull(t) == Outstanding(t) >= MaxOutstd

UnusedWqe == [valid |-> 0, iter_each |-> [p \in Paths |-> 0]]

Init ==
  /\ active_num = NumPath
  /\ wqe_table = [head |-> 0, next |-> 0, sqn |-> 0,
                  wqe |-> [k \in Slots |-> UnusedWqe]]
  /\ qp_stat = [p \in Paths |-> [posted |-> 0, polled |-> 0, tot_pkt |-> 0,
                                 comp_temp |-> 0, wqe_idx |-> 0, qlen |-> 0]]
  /\ tot = [posted |-> 0, polled |-> 0]
  /\ post_turn = 0
  /\ poll_turn = 0
  /\ call = [pc |-> "idle", i |-> 0, iter |-> 0, active |-> NumPath]
  /\ cq = [p \in Paths |-> 0]
  /\ done = 0
  /\ cum = <<0>>

-----------------------------------------------------------------------------
(***************************************************************************)
(* Posting a message.                                                      *)
(***************************************************************************)

(* Mutant of StoreWr: the slot is filled after next has moved on. *)
StoreWr_AfterNext(n) ==
  wqe_table' =
    [wqe_table EXCEPT
       !.next = Wrap(@ + 1),
       !.sqn = @ + 1,
       !.wqe[Wrap(wqe_table.next + 1)] =
          [valid |-> 1,
           iter_each |-> [p \in Paths |-> IF p < active_num THEN n ELSE 0]]]

(* mprud_store_wr: the message takes slot next. *)
StoreWr(n) ==
  wqe_table' =
    [wqe_table EXCEPT
       !.next = Wrap(@ + 1),
       !.sqn = @ + 1,
       !.wqe[wqe_table.next] =
          [valid |-> 1,
           iter_each |-> [p \in Paths |-> IF p < active_num THEN n ELSE 0]]]

(* The application posts a message: mprud_post_send or mprud_post_recv up   *)
(* to its loop.  The application keeps at most Depth messages outstanding.  *)
Post(size) ==
  /\ call.pc = "idle"
  /\ wqe_table.sqn < MaxMsgs
  /\ wqe_table.sqn - done < Depth
  /\ StoreWr(IterEach(size, active_num))
  /\ post_turn' = post_turn % active_num
  /\ call' = [pc |-> "post", i |-> 0, iter |-> Iter(size, active_num),
              active |-> active_num]
  /\ cum' = Append(cum, cum[Len(cum)] + IterEach(size, active_num))
  /\ UNCHANGED <<active_num, qp_stat, tot, poll_turn, cq, done>>

(* Mutant of NextPacket: the turn does not move after a wait for room. *)
NextPacket_TurnKept ==
  /\ post_turn' = IF call.pc = "drain" THEN post_turn
                                       ELSE (post_turn + 1) % call.active
  /\ call' = [call EXCEPT !.i = @ + 1,
                          !.pc = IF call.i + 1 = call.iter THEN "idle" ELSE "post"]

(* The end of an iteration of the posting loop. *)
NextPacket ==
  /\ post_turn' = (post_turn + 1) % call.active
  /\ call' = [call EXCEPT !.i = @ + 1,
                          !.pc = IF call.i + 1 = call.iter THEN "idle" ELSE "post"]

(* One packet goes to the inner QP of the turn, which has room for it       *)
(* (QueueBounded); with max_outstd packets outstanding the loop polls       *)
(* before it goes on.                                                       *)
PostPacket ==
  /\ call.pc = "post"
  /\ active_num = call.active
  /\ qp_stat' = [qp_stat EXCEPT ![post_turn].posted = @ + 1,
                                ![post_turn].qlen = @ + 1]
  /\ tot' = [tot EXCEPT !.posted = @ + 1]
  /\ IF QueueFull(tot')
       THEN /\ call' = [call EXCEPT !.pc = "drain"]
            /\ UNCHANGED post_turn
       ELSE NextPacket
  /\ UNCHANGED <<active_num, wqe_table, poll_turn, cq, done, cum>>

-----------------------------------------------------------------------------
(***************************************************************************)
(* Polling.                                                                *)
(***************************************************************************)

(* Mutant of Polled: comp_temp is not reset at the end of a message. *)
Polled_TempKept(s, t) ==
  LET full == s.comp_temp + 1 = wqe_table.wqe[s.wqe_idx].iter_each[t]
  IN  [s EXCEPT !.polled = @ + 1,
                !.tot_pkt = @ + 1,
                !.qlen = @ - 1,
                !.comp_temp = @ + 1,
                !.wqe_idx = IF full THEN Wrap(@ + 1) ELSE @]

(* What mprud_inner_poll does to the status of path t on one completion.    *)
Polled(s, t) ==
  LET full == s.comp_temp + 1 = wqe_table.wqe[s.wqe_idx].iter_each[t]
  IN  [s EXCEPT !.polled = @ + 1,
                !.tot_pkt = @ + 1,
                !.qlen = @ - 1,
                !.comp_temp = IF full THEN 0 ELSE @ + 1,
                !.wqe_idx = IF full THEN Wrap(@ + 1) ELSE @]

(* Mutant of InnerPoll: the turn is not moved on. *)
InnerPoll_TurnKept ==
  LET t == poll_turn % active_num
  IN  /\ UNCHANGED poll_turn
      /\ IF Outstanding(tot) > 0 /\ cq[t] > 0
           THEN /\ qp_stat' = [qp_stat EXCEPT ![t] = Polled(@, t)]
                /\ tot' = [tot EXCEPT !.polled = @ + 1]
                /\ cq' = [cq EXCEPT ![t] = @ - 1]
           ELSE UNCHANGED <<qp_stat, tot, cq>>

(* mprud_inner_poll: one completion, if there is one, of the path of the    *)
(* turn.  The turn moves on even when that path's CQ is empty.              *)
InnerPoll ==
  LET t == poll_turn % active_num
  IN  /\ IF Outstanding(tot) > 0
           THEN poll_turn' = (poll_turn + 1) % active_num
           ELSE UNCHANGED poll_turn
      /\ IF Outstanding(tot) > 0 /\ cq[t] > 0
           THEN /\ qp_stat' = [qp_stat EXCEPT ![t] = Polled(@, t)]
                /\ tot' = [tot EXCEPT !.polled = @ + 1]
                /\ cq' = [cq EXCEPT ![t] = @ - 1]
           ELSE UNCHANGED <<qp_stat, tot, cq>>

(* Mutant of HeadComplete: one path speaks for all. *)
HeadComplete_FirstPath ==
  qp_stat[0].polled >= wqe_table.wqe[wqe_table.head].iter_each[0]

(* Mutant of HeadComplete: a packet more than the message has is awaited. *)
HeadComplete_Strict ==
  LET wqe == wqe_table.wqe[wqe_table.head]
  IN  \A p \in 0 .. active_num - 1 : qp_stat[p].polled > wqe.iter_each[p]

(* The oldest message has all its packets on every active path. *)
HeadComplete ==
  LET wqe == wqe_table.wqe[wqe_table.head]
  IN  \A p \in 0 .. active_num - 1 : qp_stat[p].polled >= wqe.iter_each[p]

(* mprud_poll_cq inside the posting loop: no outer poll. *)
DrainPoll ==
  /\ call.pc = "drain"
  /\ InnerPoll
  /\ IF QueueFull(tot') THEN UNCHANGED <<call, post_turn>>
                        ELSE NextPacket
  /\ UNCHANGED <<active_num, wqe_table, done, cum>>

(* The application calls mprud_poll_cq; before the first packet it returns  *)
(* at once.                                                                 *)
AppPolls ==
  /\ call.pc = "idle"
  /\ tot.posted > 0
  /\ PollIdle \/ done < wqe_table.sqn

(* mprud_outer_poll reports the oldest message. *)
PollComplete ==
  /\ AppPolls
  /\ HeadComplete
  /\ qp_stat' =
       [p \in Paths |->
          IF p < active_num
            THEN [qp_stat[p] EXCEPT
                    !.polled = @ - wqe_table.wqe[wqe_table.head].iter_each[p]]
            ELSE qp_stat[p]]
  /\ wqe_table' = [wqe_table EXCEPT !.wqe[wqe_table.head].valid = 0,
                                    !.head = Wrap(@ + 1)]
  /\ done' = done + 1
  /\ UNCHANGED <<active_num, tot, post_turn, poll_turn, call, cq, cum>>

(* Nothing to report: one inner poll. *)
PollProgress ==
  /\ AppPolls
  /\ ~HeadComplete
  /\ InnerPoll
  /\ UNCHANGED <<active_num, wqe_table, post_turn, call, done, cum>>

-----------------------------------------------------------------------------
(***************************************************************************)
(* The network card completes the oldest packet of an inner QP.  A UD send *)
(* completes when it has left, a receive when a packet has filled it.      *)
(***************************************************************************)
NicComplete(p) ==
  /\ cq[p] < qp_stat[p].qlen
  /\ cq' = [cq EXCEPT ![p] = @ + 1]
  /\ UNCHANGED <<active_num, wqe_table, qp_stat, tot, post_turn, poll_turn,
                 call, done, cum>>

-----------------------------------------------------------------------------
AppNext == \/ \E size \in Sizes : Post(size)
           \/ PostPacket
           \/ DrainPoll
           \/ PollComplete
           \/ PollProgress

Next == AppNext \/ \E p \in Paths : NicComplete(p)

(* The application's loop polls as long as a message is outstanding, a      *)
(* posting call runs on, and the card completes what it was given.          *)
Fairness ==
  /\ WF_vars(PostPacket)
  /\ WF_vars(DrainPoll)
  /\ WF_vars(PollComplete)
  /\ WF_vars(PollProgress)
  /\ \A p \in Paths : WF_vars(NicComplete(p))

Spec == Init /\ [][Next]_vars

FairSpec == Spec /\ Fairness
-----------------------------------------------------------------------------
(***************************************************************************)
(* Properties.                                                             *)
(***************************************************************************)

(* The messages posted and not reported, by sequence number. *)
Live == done .. wqe_table.sqn - 1

(* The packets message m has on each path. *)
MsgPackets(m) == cum[m + 2] - cum[m + 1]

Wqe == [valid : {0, 1}, iter_each : [Paths -> Nat]]

QpStatus == [posted : Nat, polled : Nat, tot_pkt : Nat, comp_temp : Nat,
             wqe_idx : Slots, qlen : Nat]

(* Every counter is a natural number, whatever is subtracted from it, and   *)
(* every index is a slot or a path.                                         *)
TypeOK ==
  /\ active_num \in 1 .. NumPath
  /\ wqe_table \in [head : Slots, next : Slots, sqn : Nat, wqe : [Slots -> Wqe]]
  /\ qp_stat \in [Paths -> QpStatus]
  /\ tot \in [posted : Nat, polled : Nat]
  /\ post_turn \in Paths
  /\ poll_turn \in Paths
  /\ call \in [pc : {"idle", "post", "drain"}, i : Nat, iter : Nat,
               active : 1 .. NumPath]
  /\ cq \in [Paths -> Nat]
  /\ done \in Nat
  /\ cum \in Seq(Nat)

(* A message reported to the application has had all its packets completed  *)
(* on every path, with those of every message before it: the outer poll     *)
(* compares per-path counters that carry over from one message to the next. *)
NoEarlyCompletion ==
  /\ done <= wqe_table.sqn
  /\ \A p \in Paths : qp_stat[p].tot_pkt >= cum[done + 1]

(* The outer poll neither reports a message early nor holds one back: the   *)
(* oldest one is reportable exactly when each path has completed the        *)
(* packets of all messages up to it.                                        *)
ReportsExactly ==
  done < wqe_table.sqn =>
    (HeadComplete <=> \A p \in Paths : qp_stat[p].tot_pkt >= cum[done + 2])

(* The slots of the table in use are those of the live messages, each with  *)
(* its own packet counts: store_wr, which does not look at head, never      *)
(* takes a slot whose message is not reported.                              *)
LiveWqes ==
  /\ wqe_table.head = done % TableLen
  /\ wqe_table.next = wqe_table.sqn % TableLen
  /\ \A k \in Slots :
       wqe_table.wqe[k].valid = 1 <=> \E m \in Live : k = m % TableLen
  /\ \A m \in Live, p \in Paths :
       wqe_table.wqe[m % TableLen].iter_each[p] = MsgPackets(m)

(* Path p is at message c: it has completed the packets of the messages     *)
(* before c and comp_temp packets of c, and wqe_idx is the slot of c.       *)
PathAt(p, c) ==
  LET s == qp_stat[p]
  IN  /\ s.wqe_idx = c % TableLen
      /\ s.tot_pkt = cum[c + 1] + s.comp_temp
      /\ c < wqe_table.sqn => s.comp_temp < MsgPackets(c)
      /\ c = wqe_table.sqn => s.comp_temp = 0

(* The per-path cursor wqe_idx / comp_temp of the inner poll, which decides *)
(* when the sub buffer is copied and which message a recovery starts from,  *)
(* and the cursor head of the outer poll agree although they are advanced   *)
(* by different functions: the path is at a live message or at the end.     *)
CursorsAgree ==
  \A p \in Paths : \E c \in done .. wqe_table.sqn : PathAt(p, c)

(* The inner QPs are never given more than they have room for, their queues *)
(* having max_outstd entries (mprud_create_inner_qps): what is outstanding  *)
(* on the paths adds up to tot_posted - tot_polled, never exceeds           *)
(* max_outstd, and a path has completed no packet it was not given.  So the *)
(* posting loop never meets a full queue, the error it cannot recover from. *)
QueueBounded ==
  /\ SumFunction([p \in Paths |-> qp_stat[p].qlen]) = Outstanding(tot)
  /\ Outstanding(tot) <= MaxOutstd
  /\ \A p \in Paths : /\ qp_stat[p].posted - qp_stat[p].tot_pkt = qp_stat[p].qlen
                      /\ cq[p] <= qp_stat[p].qlen

(* Both endpoints must choose the same path for the same packet with no     *)
(* word about it in the packet: between calls the turn is back at path 0    *)
(* and every path has been given the packets of every message, and during a *)
(* call the first post_turn paths are exactly one packet ahead.             *)
TurnInSync ==
  \A p \in Paths :
    IF call.pc = "idle"
      THEN post_turn = 0 /\ qp_stat[p].posted = cum[wqe_table.sqn + 1]
      ELSE qp_stat[p].posted =
             cum[wqe_table.sqn] + call.i \div call.active
               + (IF p < post_turn \/ (p = post_turn /\ call.pc = "drain")
                    THEN 1 ELSE 0)

(* An application that polls when nothing is outstanding gets no message:   *)
(* "No more work requests. Stop polling." (mprud_poll_cq).  The test behind *)
(* that line comes after the return and never runs.  run_iter_bw_server     *)
(* polls so: after every message it polls until a poll returns none.        *)
NoSpuriousCompletion == done <= wqe_table.sqn

(***************************************************************************)
(* The inductive invariant: the properties above, and what the steps need  *)
(* to preserve them.                                                       *)
(***************************************************************************)

(* The history of the packet counts grows with every message. *)
HistoryInv ==
  /\ Len(cum) = wqe_table.sqn + 1
  /\ \A j, k \in 1 .. Len(cum) : j < k => cum[j] < cum[k]

(* The posting loop: packet i goes to path i % active, and every message    *)
(* gives each path as many packets as its WQE says.                         *)
CallInv ==
  /\ active_num = NumPath
  /\ call.active = NumPath
  /\ call.pc # "idle" =>
       /\ wqe_table.sqn > 0
       /\ call.iter = MsgPackets(wqe_table.sqn - 1) * NumPath
       /\ call.i < call.iter
       /\ post_turn = call.i % NumPath
  /\ call.pc = "drain" <=> QueueFull(tot)

(* The counters of a path are views of the same two numbers, the packets    *)
(* posted and the packets completed.                                        *)
CountInv ==
  /\ tot.polled <= tot.posted
  /\ Outstanding(tot) <= MaxOutstd
  /\ \A p \in Paths :
       /\ qp_stat[p].posted = qp_stat[p].tot_pkt + qp_stat[p].qlen
       /\ cq[p] <= qp_stat[p].qlen
       /\ qp_stat[p].polled = qp_stat[p].tot_pkt - cum[done + 1]

(* The window of live messages is never larger than the depth. *)
WindowInv == done <= wqe_table.sqn /\ wqe_table.sqn - done <= Depth

IndInv ==
  /\ TypeOK
  /\ WindowInv
  /\ HistoryInv
  /\ CallInv
  /\ CountInv
  /\ LiveWqes
  /\ CursorsAgree
  /\ TurnInSync

(* Every message posted is reported. *)
AllReported == \A m \in 1 .. MaxMsgs : wqe_table.sqn >= m ~> done >= m

(* A posting call returns: the loop that waits for room polls every path. *)
PostReturns == call.pc # "idle" ~> call.pc = "idle"
=============================================================================

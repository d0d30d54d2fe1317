------------------------- MODULE MprudEndpointProofs -------------------------
(***************************************************************************)
(* The safety properties of MprudEndpoint for every number of paths, every *)
(* table length, every limit on outstanding packets and every message      *)
(* size, as long as the application keeps no more messages outstanding     *)
(* than the table has slots and does not poll with none outstanding.       *)
(***************************************************************************)
EXTENDS MprudEndpoint, MprudSplitProofs

(* The application's queue depth fits the table of work requests.           *)
DepthFits == Depth <= TableLen

(* The application polls only when a message is outstanding.                *)
NoIdlePoll == PollIdle = FALSE

-----------------------------------------------------------------------------
(* A slot index moves on the way message numbers do.                        *)
LEMMA WrapIsSucc ==
  ASSUME NEW m \in Nat
  PROVE  Wrap((m % TableLen) + 1) = (m + 1) % TableLen
  BY ModSucc, DivMod, EndpointAssumption DEF Wrap

(* Every message the application posts has a packet for each path.          *)
LEMMA PacketsPositive ==
  ASSUME NEW size \in Sizes
  PROVE  /\ IterEach(size, NumPath) \in Nat \ {0}
         /\ Iter(size, NumPath) = IterEach(size, NumPath) * NumPath
  BY IterEachPositive, EndpointAssumption, SizesAssumption DEF Iter

(* The types of the counters of a path, one by one.                         *)
LEMMA QpTypes ==
  ASSUME TypeOK, NEW p \in Paths
  PROVE  /\ qp_stat[p] \in QpStatus
         /\ qp_stat[p].posted \in Nat /\ qp_stat[p].polled \in Nat
         /\ qp_stat[p].tot_pkt \in Nat /\ qp_stat[p].comp_temp \in Nat
         /\ qp_stat[p].wqe_idx \in Slots /\ qp_stat[p].qlen \in Nat
         /\ cq[p] \in Nat
<1>1. qp_stat[p] \in QpStatus /\ cq[p] \in Nat
  BY DEF TypeOK
<1> QED
  BY <1>1 DEF QpStatus

(* The types of the other variables, one by one.                            *)
LEMMA VarTypes ==
  ASSUME TypeOK
  PROVE  /\ wqe_table.head \in Slots /\ wqe_table.next \in Slots
         /\ wqe_table.sqn \in Nat /\ wqe_table.wqe \in [Slots -> Wqe]
         /\ tot.posted \in Nat /\ tot.polled \in Nat
         /\ call.i \in Nat /\ call.iter \in Nat
         /\ call.pc \in {"idle", "post", "drain"} /\ call.active \in 1 .. NumPath
  BY DEF TypeOK

(* The history of packet counts as a sequence of increasing numbers.        *)
LEMMA HistoryFacts ==
  ASSUME IndInv
  PROVE  /\ wqe_table.sqn \in Nat /\ done \in 0 .. wqe_table.sqn
         /\ Len(cum) = wqe_table.sqn + 1 /\ cum \in Seq(Nat)
         /\ \A m \in 0 .. wqe_table.sqn : cum[m + 1] \in Nat
         /\ \A m \in 0 .. wqe_table.sqn - 1 :
              MsgPackets(m) = cum[m + 2] - cum[m + 1] /\ MsgPackets(m) \in Nat \ {0}
         /\ \A j, m \in 0 .. wqe_table.sqn : j <= m => cum[j + 1] <= cum[m + 1]
<1>1. /\ wqe_table.sqn \in Nat /\ done \in 0 .. wqe_table.sqn
      /\ Len(cum) = wqe_table.sqn + 1 /\ cum \in Seq(Nat)
      /\ \A j, k \in 1 .. wqe_table.sqn + 1 : j < k => cum[j] < cum[k]
  BY VarTypes DEF IndInv, TypeOK, HistoryInv, WindowInv
<1>2. \A j \in 1 .. wqe_table.sqn + 1 : cum[j] \in Nat
  BY <1>1
<1>3. \A m \in 0 .. wqe_table.sqn : cum[m + 1] \in Nat
  BY <1>1, <1>2
<1>4. \A m \in 0 .. wqe_table.sqn - 1 :
        MsgPackets(m) = cum[m + 2] - cum[m + 1] /\ MsgPackets(m) \in Nat \ {0}
  <2> SUFFICES ASSUME NEW m \in 0 .. wqe_table.sqn - 1
               PROVE  MsgPackets(m) = cum[m + 2] - cum[m + 1]
                      /\ MsgPackets(m) \in Nat \ {0}
    OBVIOUS
  <2>1. /\ m + 1 \in 1 .. wqe_table.sqn + 1 /\ m + 2 \in 1 .. wqe_table.sqn + 1
        /\ m + 1 < m + 2
    BY <1>1
  <2>2. cum[m + 1] < cum[m + 2] /\ cum[m + 1] \in Nat /\ cum[m + 2] \in Nat
    BY <1>1, <1>2, <2>1
  <2> QED
    BY <2>2 DEF MsgPackets
<1>5. \A j, m \in 0 .. wqe_table.sqn : j <= m => cum[j + 1] <= cum[m + 1]
  <2> SUFFICES ASSUME NEW j \in 0 .. wqe_table.sqn, NEW m \in 0 .. wqe_table.sqn, j <= m
               PROVE  cum[j + 1] <= cum[m + 1]
    OBVIOUS
  <2>1. CASE j = m
    BY <1>3, <2>1
  <2>2. CASE j # m
    <3>1. /\ j + 1 \in 1 .. wqe_table.sqn + 1 /\ m + 1 \in 1 .. wqe_table.sqn + 1
          /\ j + 1 < m + 1
      BY <1>1, <2>2
    <3>2. cum[j + 1] < cum[m + 1] /\ cum[j + 1] \in Nat /\ cum[m + 1] \in Nat
      BY <1>1, <1>2, <3>1
    <3> QED
      BY <3>2
  <2> QED
    BY <2>1, <2>2
<1> QED
  BY <1>1, <1>3, <1>4, <1>5

(* The program starts in a state of the invariant.                          *)
LEMMA InitInv == Init => IndInv
<1> SUFFICES ASSUME Init PROVE IndInv
  OBVIOUS
<1> USE EndpointAssumption DEF Init
<1>1. 0 % TableLen = 0 /\ 0 \in Slots /\ 0 \in Paths
  <2>1. 0 = TableLen * 0 + 0 /\ 0 \in 0 .. TableLen - 1
    OBVIOUS
  <2> QED
    BY <2>1, DivModUnique DEF Slots, Paths
<1>2. TypeOK
  <2>1. UnusedWqe \in Wqe
    BY DEF UnusedWqe, Wqe
  <2>2. wqe_table \in [head : Slots, next : Slots, sqn : Nat, wqe : [Slots -> Wqe]]
    BY <1>1, <2>1
  <2>3. qp_stat \in [Paths -> QpStatus]
    BY <1>1 DEF QpStatus
  <2> QED
    BY <1>1, <2>2, <2>3 DEF TypeOK
<1>3. HistoryInv /\ WindowInv
  BY DEF HistoryInv, WindowInv
<1>4. CallInv
  BY DEF CallInv, QueueFull, Outstanding
<1>5. CountInv
  BY DEF CountInv, Outstanding
<1>6. LiveWqes
  BY <1>1 DEF LiveWqes, Live, UnusedWqe
<1>7. CursorsAgree
  <2>1. \A p \in Paths : PathAt(p, 0)
    BY <1>1 DEF PathAt
  <2> QED
    BY <2>1 DEF CursorsAgree
<1>8. TurnInSync
  BY DEF TurnInSync
<1> QED
  BY <1>2, <1>3, <1>4, <1>5, <1>6, <1>7, <1>8 DEF IndInv

-----------------------------------------------------------------------------
(* No path is given more packets than the messages posted have.             *)
LEMMA PostedBound ==
  ASSUME IndInv, NEW p \in Paths
  PROVE  qp_stat[p].posted <= cum[wqe_table.sqn + 1]
<1> DEFINE s == wqe_table.sqn
<1>1. TypeOK /\ TurnInSync /\ CallInv
  BY DEF IndInv
<1>2. qp_stat[p].posted \in Nat /\ call.i \in Nat
  BY <1>1, QpTypes, VarTypes
<1>3. s \in Nat /\ cum[s + 1] \in Nat
  BY HistoryFacts
<1>4. CASE call.pc = "idle"
  BY <1>1, <1>2, <1>4 DEF TurnInSync
<1>5. CASE call.pc # "idle"
  <2> DEFINE n == MsgPackets(s - 1)
  <2>1. s > 0 /\ call.i < n * NumPath /\ call.active = NumPath
    BY <1>1, <1>5 DEF CallInv
  <2>2. s - 1 \in 0 .. s - 1 /\ s - 1 \in 0 .. s /\ (s - 1) + 1 = s /\ (s - 1) + 2 = s + 1
    BY <1>3, <2>1
  <2>3. n = cum[s + 1] - cum[s] /\ n \in Nat /\ cum[s] \in Nat
    <3>1. n = cum[(s - 1) + 2] - cum[(s - 1) + 1] /\ n \in Nat
      BY <2>2, HistoryFacts
    <3>2. cum[(s - 1) + 1] \in Nat
      BY <2>2, HistoryFacts
    <3> QED
      BY <2>2, <3>1, <3>2
  <2>4. call.i \div NumPath < n /\ call.i \div NumPath \in Nat
    BY <1>2, <2>1, <2>3, RoundBound, DivMod, EndpointAssumption
  <2>5. \/ qp_stat[p].posted = cum[s] + (call.i \div NumPath) + 1
        \/ qp_stat[p].posted = cum[s] + (call.i \div NumPath) + 0
    BY <1>1, <1>5, <2>1 DEF TurnInSync
  <2> QED
    BY <1>2, <1>3, <2>3, <2>4, <2>5
<1> QED
  BY <1>4, <1>5

(* A path with a completion to poll is at a live message.                   *)
LEMMA CursorLive ==
  ASSUME IndInv, NEW p \in Paths, cq[p] > 0
  PROVE  \E c \in Live : PathAt(p, c)
<1> DEFINE s == wqe_table.sqn
<1>1. PICK c \in done .. s : PathAt(p, c)
  BY DEF IndInv, CursorsAgree
<1>2. /\ qp_stat[p].posted \in Nat /\ qp_stat[p].tot_pkt \in Nat
      /\ qp_stat[p].qlen \in Nat /\ cq[p] \in Nat
  BY QpTypes DEF IndInv
<1>3. qp_stat[p].tot_pkt < qp_stat[p].posted
  BY <1>2 DEF IndInv, CountInv
<1>4. qp_stat[p].posted <= cum[s + 1]
  BY PostedBound
<1>5. s \in Nat /\ cum[s + 1] \in Nat /\ done \in Nat
  BY HistoryFacts
<1>6. c # s
  <2> SUFFICES ASSUME c = s PROVE FALSE
    OBVIOUS
  <2>1. qp_stat[p].tot_pkt = cum[s + 1] + 0
    BY <1>1 DEF PathAt
  <2> QED
    BY <1>2, <1>3, <1>4, <1>5, <2>1
<1> QED
  BY <1>1, <1>5, <1>6 DEF Live
-----------------------------------------------------------------------------
(* The end of an iteration of the posting loop: the paths up to the turn    *)
(* have had their packet of this round, and the turn and the packet number  *)
(* move on together.                                                        *)
LEMMA NextPacketStep ==
  ASSUME IndInv, call.pc # "idle", NextPacket, ~ QueueFull(tot'),
         UNCHANGED <<active_num, wqe_table, cum>>,
         \A p \in Paths :
           qp_stat'[p].posted = cum[wqe_table.sqn] + (call.i \div NumPath)
                                  + (IF p <= post_turn THEN 1 ELSE 0)
  PROVE  /\ CallInv' /\ TurnInSync'
         /\ post_turn' \in Paths
         /\ call' \in [pc : {"idle", "post", "drain"}, i : Nat, iter : Nat,
                       active : 1 .. NumPath]
<1> USE EndpointAssumption
<1> DEFINE s == wqe_table.sqn
           n == MsgPackets(s - 1)
           i == call.i
<1>1. TypeOK /\ CallInv
  BY DEF IndInv
<1>2. /\ s > 0 /\ call.iter = n * NumPath /\ i < call.iter /\ i \in Nat
      /\ post_turn = i % NumPath /\ call.active = NumPath /\ active_num = NumPath
      /\ call.iter \in Nat
  BY <1>1, VarTypes DEF CallInv
<1>3. s \in Nat /\ s - 1 \in 0 .. s - 1 /\ s - 1 \in 0 .. s /\ (s - 1) + 1 = s
      /\ (s - 1) + 2 = s + 1
  <2>1. s \in Nat
    BY <1>1, VarTypes
  <2> QED
    BY ONLY <1>2, <2>1
<1>4. n = cum[s + 1] - cum[s] /\ n \in Nat /\ cum[s] \in Nat
  <2>1. n = cum[(s - 1) + 2] - cum[(s - 1) + 1] /\ n \in Nat /\ cum[(s - 1) + 1] \in Nat
    BY <1>3, HistoryFacts
  <2> QED
    BY <1>3, <2>1
<1>5. /\ call' = [call EXCEPT !.i = i + 1, !.pc = IF i + 1 = call.iter THEN "idle" ELSE "post"]
      /\ post_turn' = (post_turn + 1) % NumPath
  BY <1>2 DEF NextPacket
<1>6. /\ call'.i = i + 1 /\ call'.iter = call.iter /\ call'.active = NumPath
      /\ call'.pc = IF i + 1 = call.iter THEN "idle" ELSE "post"
      /\ call' \in [pc : {"idle", "post", "drain"}, i : Nat, iter : Nat,
                    active : 1 .. NumPath]
  <2>1. call \in [pc : {"idle", "post", "drain"}, i : Nat, iter : Nat,
                  active : 1 .. NumPath]
    BY <1>1 DEF TypeOK
  <2>2. i + 1 \in Nat
    BY <1>2
  <2> QED
    BY ONLY <1>2, <1>5, <2>1, <2>2
<1>7. post_turn' = (i + 1) % NumPath /\ post_turn' \in Paths
  <2>1. ((i % NumPath) + 1) % NumPath = (i + 1) % NumPath
    BY <1>2, ModSucc
  <2>2. i + 1 \in Nat
    BY <1>2
  <2>3. (i + 1) % NumPath \in 0 .. NumPath - 1
    BY <2>2, DivMod
  <2> QED
    BY ONLY <1>2, <1>5, <2>1, <2>3 DEF Paths
<1>8. /\ i % NumPath \in 0 .. NumPath - 1 /\ i \div NumPath \in Nat
      /\ (i + 1) % NumPath
           = (IF (i % NumPath) + 1 = NumPath THEN 0 ELSE (i % NumPath) + 1)
      /\ (i + 1) \div NumPath
           = (IF (i % NumPath) + 1 = NumPath THEN (i \div NumPath) + 1 ELSE i \div NumPath)
  <2>1. i \in Nat /\ NumPath \in Nat \ {0}
    BY <1>2
  <2> QED
    BY ONLY <2>1, ModSucc, DivMod, ZenonT(30)
<1>9. CallInv'
  BY <1>2, <1>3, <1>6, <1>7 DEF CallInv, MsgPackets
<1>10. \A p \in Paths :
         qp_stat'[p].posted = cum[s] + ((i + 1) \div NumPath)
                                + (IF p < post_turn' THEN 1 ELSE 0)
  <2> SUFFICES ASSUME NEW p \in Paths
               PROVE  qp_stat'[p].posted = cum[s] + ((i + 1) \div NumPath)
                                + (IF p < post_turn' THEN 1 ELSE 0)
    OBVIOUS
  <2>1. p \in 0 .. NumPath - 1
    BY DEF Paths
  <2>2. qp_stat'[p].posted = cum[s] + (i \div NumPath)
                               + (IF p <= i % NumPath THEN 1 ELSE 0)
    BY <1>2
  <2>3. CASE (i % NumPath) + 1 = NumPath
    <3>1. post_turn' = 0 /\ (i + 1) \div NumPath = (i \div NumPath) + 1
      BY <1>7, <1>8, <2>3
    <3>2. p <= i % NumPath /\ ~ (p < post_turn')
      BY <1>8, <2>1, <2>3, <3>1
    <3> QED
      BY ONLY <1>4, <1>8, <2>2, <3>1, <3>2
  <2>4. CASE (i % NumPath) + 1 # NumPath
    <3>1. post_turn' = (i % NumPath) + 1 /\ (i + 1) \div NumPath = i \div NumPath
      BY <1>7, <1>8, <2>4
    <3>2. p <= i % NumPath <=> p < post_turn'
      BY <1>8, <2>1, <3>1
    <3> QED
      BY ONLY <1>4, <1>8, <2>2, <3>1, <3>2
  <2> QED
    BY <2>3, <2>4
<1>11. TurnInSync'
  <2>1. CASE i + 1 = call.iter
    <3>1. i + 1 = NumPath * n + 0 /\ 0 \in 0 .. NumPath - 1 /\ i + 1 \in Nat
      BY <1>2, <1>4, <2>1
    <3>2. (i + 1) % NumPath = 0 /\ (i + 1) \div NumPath = n
      BY ONLY <1>4, <3>1, DivModUnique, EndpointAssumption
    <3>3. post_turn' = 0
      BY <1>7, <3>2
    <3>4. \A p \in Paths : qp_stat'[p].posted = cum[s + 1]
      <4>1. \A p \in Paths : ~ (p < post_turn')
        BY <3>3 DEF Paths
      <4>2. cum[s] + n = cum[s + 1]
        <5>1. cum[s + 1] \in Nat
          <6>1. s \in 0 .. s
            BY ONLY <1>3
          <6>2. \A m \in 0 .. s : cum[m + 1] \in Nat
            BY HistoryFacts, Zenon
          <6> QED
            BY ONLY <6>1, <6>2, Zenon
        <5> QED
          BY <1>4, <5>1
      <4> QED
        BY <1>4, <1>10, <3>2, <4>1, <4>2
    <3> QED
      BY <1>6, <2>1, <3>3, <3>4 DEF TurnInSync
  <2>2. CASE i + 1 # call.iter
    <3>1. call'.pc = "post" /\ call'.i = i + 1 /\ call'.active = NumPath
      BY <1>6, <2>2
    <3> QED
      BY <1>10, <3>1 DEF TurnInSync
  <2> QED
    BY <2>1, <2>2
<1> QED
  BY <1>6, <1>7, <1>9, <1>11

(* The status of a path after one completion, field by field.               *)
LEMMA PolledFields ==
  ASSUME NEW q \in QpStatus, NEW t, NEW n \in Nat, q.qlen > 0,
         wqe_table.wqe[q.wqe_idx].iter_each[t] = n
  PROVE  LET r == Polled(q, t)
             full == q.comp_temp + 1 = n
         IN  /\ r.posted = q.posted /\ r.polled = q.polled + 1
             /\ r.tot_pkt = q.tot_pkt + 1 /\ r.qlen = q.qlen - 1
             /\ r.comp_temp = (IF full THEN 0 ELSE q.comp_temp + 1)
             /\ r.wqe_idx = (IF full THEN Wrap(q.wqe_idx + 1) ELSE q.wqe_idx)
             /\ r \in QpStatus
<1> DEFINE full == q.comp_temp + 1 = n
<1>1. /\ q.posted \in Nat /\ q.polled \in Nat /\ q.tot_pkt \in Nat
      /\ q.comp_temp \in Nat /\ q.wqe_idx \in Slots /\ q.qlen \in Nat
  BY DEF QpStatus
<1>2. Wrap(q.wqe_idx + 1) \in Slots
  BY <1>1, EndpointAssumption DEF Wrap, Slots
<1>3. q.polled + 1 \in Nat /\ q.tot_pkt + 1 \in Nat /\ q.qlen - 1 \in Nat
      /\ q.comp_temp + 1 \in Nat
  BY <1>1
<1>4. CASE full
  <2>1. Polled(q, t) = [q EXCEPT !.polled = q.polled + 1, !.tot_pkt = q.tot_pkt + 1,
                                 !.qlen = q.qlen - 1, !.comp_temp = 0,
                                 !.wqe_idx = Wrap(q.wqe_idx + 1)]
    BY <1>4 DEF Polled
  <2>2. Polled(q, t) \in QpStatus
    <3>1. PICK w \in Slots, z \in Nat : w = Wrap(q.wqe_idx + 1) /\ z = 0
      BY <1>2
    <3>2. Polled(q, t) = [q EXCEPT !.polled = q.polled + 1, !.tot_pkt = q.tot_pkt + 1,
                                   !.qlen = q.qlen - 1, !.comp_temp = z, !.wqe_idx = w]
      BY <2>1, <3>1
    <3> QED
      BY ONLY <1>3, <3>2, q \in QpStatus, w \in Slots, z \in Nat DEF QpStatus
  <2>3. /\ Polled(q, t).posted = q.posted /\ Polled(q, t).polled = q.polled + 1
        /\ Polled(q, t).tot_pkt = q.tot_pkt + 1 /\ Polled(q, t).qlen = q.qlen - 1
        /\ Polled(q, t).comp_temp = 0
        /\ Polled(q, t).wqe_idx = Wrap(q.wqe_idx + 1)
    BY <2>1 DEF QpStatus
  <2> QED
    BY <1>4, <2>2, <2>3
<1>5. CASE ~ full
  <2>1. Polled(q, t) = [q EXCEPT !.polled = q.polled + 1, !.tot_pkt = q.tot_pkt + 1,
                                 !.qlen = q.qlen - 1, !.comp_temp = q.comp_temp + 1,
                                 !.wqe_idx = q.wqe_idx]
    BY <1>5 DEF Polled
  <2>2. Polled(q, t) \in QpStatus
    BY <1>1, <1>3, <2>1 DEF QpStatus
  <2>3. /\ Polled(q, t).posted = q.posted /\ Polled(q, t).polled = q.polled + 1
        /\ Polled(q, t).tot_pkt = q.tot_pkt + 1 /\ Polled(q, t).qlen = q.qlen - 1
        /\ Polled(q, t).comp_temp = q.comp_temp + 1
        /\ Polled(q, t).wqe_idx = q.wqe_idx
    BY <2>1 DEF QpStatus
  <2> QED
    BY <1>5, <2>2, <2>3
<1> QED
  BY <1>4, <1>5

(* One inner poll: the counters stay views of the same two numbers, and     *)
(* the cursor of the polled path moves over the packet, to the next message *)
(* when it was the last one.                                                *)
LEMMA InnerPollStep ==
  ASSUME IndInv, InnerPoll, UNCHANGED <<active_num, wqe_table, done, cum>>
  PROVE  /\ qp_stat' \in [Paths -> QpStatus]
         /\ tot' \in [posted : Nat, polled : Nat]
         /\ cq' \in [Paths -> Nat]
         /\ poll_turn' \in Paths
         /\ CountInv' /\ CursorsAgree'
         /\ \A p \in Paths : qp_stat'[p].posted = qp_stat[p].posted
         /\ Outstanding(tot') <= Outstanding(tot)
<1> USE EndpointAssumption
<1> DEFINE s == wqe_table.sqn
<1>1. TypeOK /\ CallInv /\ CountInv /\ LiveWqes /\ CursorsAgree
  BY DEF IndInv
<1>2. /\ poll_turn % active_num \in Paths
      /\ (poll_turn + 1) % active_num \in Paths
  <2>1. active_num = NumPath
    BY <1>1 DEF CallInv
  <2>2. poll_turn \in Nat /\ poll_turn + 1 \in Nat
    BY <1>1 DEF TypeOK, Paths
  <2>3. poll_turn % NumPath \in 0 .. NumPath - 1
        /\ (poll_turn + 1) % NumPath \in 0 .. NumPath - 1
    BY <2>2, DivMod
  <2> QED
    BY ONLY <2>1, <2>3 DEF Paths
<1>3. poll_turn' \in Paths
  BY <1>1, <1>2 DEF InnerPoll, TypeOK
<1>4. tot.posted \in Nat /\ tot.polled \in Nat
  BY <1>1, VarTypes
<1>7. cum' = cum /\ wqe_table' = wqe_table /\ done' = done
  OBVIOUS
<1>8. PICK t \in Paths : t = poll_turn % active_num
  BY <1>2
<1>5. CASE ~ (Outstanding(tot) > 0 /\ cq[t] > 0)
  <2>1. UNCHANGED <<qp_stat, tot, cq>>
    BY <1>5, <1>8 DEF InnerPoll
  <2>2. CountInv'
    BY <1>1, <2>1 DEF CountInv, Outstanding
  <2>3. CursorsAgree'
    BY <1>1, <2>1 DEF CursorsAgree, PathAt, MsgPackets
  <2> QED
    BY <1>1, <1>3, <1>4, <2>1, <2>2, <2>3 DEF TypeOK, Outstanding
<1>6. CASE Outstanding(tot) > 0 /\ cq[t] > 0
  <2> DEFINE q == qp_stat[t]
  <2>1. PICK c \in Live : PathAt(t, c)
    BY <1>2, <1>6, CursorLive
  <2>2. c \in 0 .. s - 1 /\ c \in done .. s /\ c + 1 \in done .. s /\ s \in Nat
        /\ c \in Nat /\ c < s
    <3>1. s \in Nat /\ done \in Nat
      BY HistoryFacts
    <3>2. c \in done .. s - 1
      BY DEF Live
    <3> QED
      BY ONLY <3>1, <3>2
  <2>3. wqe_table.wqe[q.wqe_idx].iter_each[t] = MsgPackets(c)
    BY <1>1, <1>2, <2>1 DEF LiveWqes, PathAt
  <2>4. /\ q.posted \in Nat /\ q.polled \in Nat /\ q.tot_pkt \in Nat
        /\ q.comp_temp \in Nat /\ q.wqe_idx \in Slots /\ q.qlen \in Nat
        /\ cq[t] \in Nat /\ q \in QpStatus
    BY <1>1, <1>2, QpTypes
  <2>5. /\ qp_stat' = [qp_stat EXCEPT ![t] = Polled(q, t)]
        /\ tot' = [tot EXCEPT !.polled = tot.polled + 1]
        /\ cq' = [cq EXCEPT ![t] = cq[t] - 1]
    BY <1>6, <1>8 DEF InnerPoll
  <2> DEFINE full == q.comp_temp + 1 = MsgPackets(c)
             r == Polled(q, t)
  <2>6. cq[t] <= q.qlen /\ q.posted = q.tot_pkt + q.qlen
        /\ q.polled = q.tot_pkt - cum[done + 1]
    BY <1>1, <1>2 DEF CountInv
  <2>7. MsgPackets(c) \in Nat
    BY <2>2, HistoryFacts
  <2>8. q.qlen > 0
    BY <1>6, <2>4, <2>6
  <2>9. /\ r.posted = q.posted /\ r.polled = q.polled + 1 /\ r.tot_pkt = q.tot_pkt + 1
        /\ r.qlen = q.qlen - 1
        /\ r.comp_temp = (IF full THEN 0 ELSE q.comp_temp + 1)
        /\ r.wqe_idx = (IF full THEN Wrap(q.wqe_idx + 1) ELSE q.wqe_idx)
        /\ r \in QpStatus
    BY <2>3, <2>4, <2>7, <2>8, PolledFields
  <2>10. /\ qp_stat'[t] = r /\ cq'[t] = cq[t] - 1
         /\ \A p \in Paths : p # t => qp_stat'[p] = qp_stat[p] /\ cq'[p] = cq[p]
    BY <1>1, <1>2, <2>5 DEF TypeOK
  <2>11. /\ qp_stat' \in [Paths -> QpStatus] /\ cq' \in [Paths -> Nat]
         /\ tot' \in [posted : Nat, polled : Nat]
         /\ tot'.posted = tot.posted /\ tot'.polled = tot.polled + 1
    <3>1. qp_stat' \in [Paths -> QpStatus]
      BY <1>1, <1>2, <2>5, <2>9 DEF TypeOK
    <3>2. cq' \in [Paths -> Nat]
      <4>1. cq[t] - 1 \in Nat
        BY <1>6, <2>4
      <4> QED
        BY <1>1, <2>5, <4>1 DEF TypeOK
    <3>3. /\ tot' \in [posted : Nat, polled : Nat]
          /\ tot'.posted = tot.posted /\ tot'.polled = tot.polled + 1
      <4>1. tot \in [posted : Nat, polled : Nat] /\ tot.polled + 1 \in Nat
        BY <1>1, <1>4 DEF TypeOK
      <4> QED
        BY ONLY <2>5, <4>1
    <3> QED
      BY <3>1, <3>2, <3>3
  <2>12. CountInv'
    <3>1. cum[done + 1] \in Nat
      BY HistoryFacts
    <3>2. /\ tot'.polled <= tot'.posted /\ Outstanding(tot') <= MaxOutstd
      BY <1>1, <1>4, <1>6, <2>11 DEF CountInv, Outstanding
    <3>3. /\ qp_stat'[t].posted = qp_stat'[t].tot_pkt + qp_stat'[t].qlen
          /\ cq'[t] <= qp_stat'[t].qlen
          /\ qp_stat'[t].polled = qp_stat'[t].tot_pkt - cum[done + 1]
      BY <2>4, <2>6, <2>9, <2>10, <3>1
    <3> QED
      BY <1>1, <2>10, <3>2, <3>3 DEF CountInv
  <2>13. (full => PathAt(t, c + 1)') /\ (~ full => PathAt(t, c)')
    <3>1. cum[c + 1] \in Nat /\ MsgPackets(c) = cum[c + 2] - cum[c + 1]
          /\ MsgPackets(c) \in Nat /\ cum[c + 2] \in Nat
      <4>1. c + 1 \in 0 .. s /\ c \in 0 .. s /\ (c + 1) + 1 = c + 2
        BY <2>2
      <4> QED
        BY <2>2, <4>1, HistoryFacts
    <3>2. q.wqe_idx = c % TableLen /\ q.tot_pkt = cum[c + 1] + q.comp_temp
          /\ q.comp_temp < MsgPackets(c)
      BY <2>1, <2>2 DEF PathAt
    <3>3. CASE full
      <4>1. r.wqe_idx = (c + 1) % TableLen
        BY <2>2, <2>9, <3>2, <3>3, WrapIsSucc
      <4>2. r.tot_pkt = cum[(c + 1) + 1] + 0 /\ r.comp_temp = 0
        <5>1. (c + 1) + 1 = c + 2
          BY <2>2
        <5> QED
          BY <2>4, <2>9, <3>1, <3>2, <3>3, <5>1
      <4>3. c + 1 < s => 0 < MsgPackets(c + 1)
        <5>1. c + 1 < s => c + 1 \in 0 .. s - 1
          BY <2>2
        <5> QED
          BY <5>1, HistoryFacts
      <4> QED
        BY <1>7, <2>2, <2>10, <3>3, <4>1, <4>2, <4>3 DEF PathAt, MsgPackets
    <3>4. CASE ~ full
      <4>1. r.wqe_idx = c % TableLen /\ r.tot_pkt = cum[c + 1] + r.comp_temp
            /\ r.comp_temp < MsgPackets(c)
        BY <2>4, <2>9, <3>1, <3>2, <3>4
      <4> QED
        BY <1>7, <2>2, <2>10, <3>4, <4>1 DEF PathAt, MsgPackets
    <3> QED
      BY <3>3, <3>4
  <2>14. CursorsAgree'
    <3> SUFFICES ASSUME NEW p \in Paths
                 PROVE  \E d \in done .. s : PathAt(p, d)'
      BY <1>7 DEF CursorsAgree
    <3>1. CASE p = t
      BY <2>2, <2>13, <3>1
    <3>2. CASE p # t
      <4>1. PICK d \in done .. s : PathAt(p, d)
        BY <1>1 DEF CursorsAgree
      <4>2. PathAt(p, d)'
        BY <2>10, <3>2, <4>1 DEF PathAt, MsgPackets
      <4> QED
        BY <4>2
    <3> QED
      BY <3>1, <3>2
  <2>15. \A p \in Paths : qp_stat'[p].posted = qp_stat[p].posted
    BY <2>9, <2>10
  <2>16. Outstanding(tot') <= Outstanding(tot)
    BY <1>4, <2>11 DEF Outstanding
  <2> QED
    BY <1>3, <2>11, <2>12, <2>14, <2>15, <2>16
<1> QED
  BY <1>5, <1>6
-----------------------------------------------------------------------------
(* A state with the same variables is as good.                              *)
LEMMA StutterInv == IndInv /\ UNCHANGED vars => IndInv'
<1> SUFFICES ASSUME IndInv, UNCHANGED vars PROVE IndInv'
  OBVIOUS
<1>1. TypeOK' /\ WindowInv' /\ HistoryInv'
  BY DEF IndInv, vars, TypeOK, WindowInv, HistoryInv
<1>2. CallInv' /\ CountInv'
  BY DEF IndInv, vars, CallInv, CountInv, MsgPackets, QueueFull, Outstanding
<1>3. LiveWqes' /\ TurnInSync'
  BY DEF IndInv, vars, LiveWqes, Live, MsgPackets, TurnInSync
<1>4. CursorsAgree'
  BY DEF IndInv, vars, CursorsAgree, PathAt, MsgPackets
<1> QED
  BY <1>1, <1>2, <1>3, <1>4 DEF IndInv

(* The card's completions move nothing but the CQ.                          *)
LEMMA NicCompleteInv ==
  ASSUME IndInv, NEW p \in Paths, NicComplete(p)
  PROVE  IndInv'
<1>1. cq[p] \in Nat /\ qp_stat[p].qlen \in Nat
  BY QpTypes DEF IndInv
<1>2. cq' \in [Paths -> Nat] /\ \A r \in Paths : cq'[r] <= qp_stat[r].qlen
  <2>1. cq \in [Paths -> Nat] /\ \A r \in Paths : cq[r] <= qp_stat[r].qlen
    BY DEF IndInv, TypeOK, CountInv
  <2>2. cq' = [cq EXCEPT ![p] = cq[p] + 1] /\ cq[p] < qp_stat[p].qlen
    BY DEF NicComplete
  <2> QED
    BY <1>1, <2>1, <2>2
<1>3. TypeOK' /\ WindowInv' /\ HistoryInv'
  BY <1>2 DEF IndInv, NicComplete, TypeOK, WindowInv, HistoryInv
<1>4. CallInv' /\ CountInv'
  BY <1>2 DEF IndInv, NicComplete, CallInv, CountInv, MsgPackets, QueueFull, Outstanding
<1>5. LiveWqes' /\ TurnInSync'
  BY DEF IndInv, NicComplete, LiveWqes, Live, MsgPackets, TurnInSync
<1>6. CursorsAgree'
  BY DEF IndInv, NicComplete, CursorsAgree, PathAt, MsgPackets
<1> QED
  BY <1>3, <1>4, <1>5, <1>6 DEF IndInv

(* A poll that reports nothing.                                             *)
LEMMA PollProgressInv ==
  ASSUME IndInv, PollProgress
  PROVE  IndInv'
<1>1. InnerPoll /\ UNCHANGED <<active_num, wqe_table, post_turn, call, done, cum>>
      /\ call.pc = "idle"
  BY DEF PollProgress, AppPolls
<1>2. /\ qp_stat' \in [Paths -> QpStatus] /\ tot' \in [posted : Nat, polled : Nat]
      /\ cq' \in [Paths -> Nat] /\ poll_turn' \in Paths
      /\ CountInv' /\ CursorsAgree'
      /\ \A p \in Paths : qp_stat'[p].posted = qp_stat[p].posted
      /\ Outstanding(tot') <= Outstanding(tot)
  BY <1>1, InnerPollStep
<1>3. TypeOK' /\ WindowInv' /\ HistoryInv'
  BY <1>1, <1>2 DEF IndInv, TypeOK, WindowInv, HistoryInv
<1>4. CallInv'
  <2>1. ~ QueueFull(tot)
    BY <1>1 DEF IndInv, CallInv
  <2>2. ~ QueueFull(tot')
    <3>1. tot.posted \in Nat /\ tot.polled \in Nat
      BY VarTypes DEF IndInv
    <3>2. tot'.posted \in Nat /\ tot'.polled \in Nat
      BY <1>2
    <3> QED
      BY <1>2, <2>1, <3>1, <3>2, EndpointAssumption DEF QueueFull, Outstanding
  <2> QED
    BY <1>1, <2>2 DEF IndInv, CallInv
<1>5. LiveWqes'
  BY <1>1 DEF IndInv, LiveWqes, Live, MsgPackets
<1>6. TurnInSync'
  BY <1>1, <1>2 DEF IndInv, TurnInSync
<1> QED
  BY <1>2, <1>3, <1>4, <1>5, <1>6 DEF IndInv

(* A poll of the posting loop, which goes on when there is room again.      *)
LEMMA DrainPollInv ==
  ASSUME IndInv, DrainPoll
  PROVE  IndInv'
<1>1. InnerPoll /\ UNCHANGED <<active_num, wqe_table, done, cum>> /\ call.pc = "drain"
  BY DEF DrainPoll
<1>2. /\ qp_stat' \in [Paths -> QpStatus] /\ tot' \in [posted : Nat, polled : Nat]
      /\ cq' \in [Paths -> Nat] /\ poll_turn' \in Paths
      /\ CountInv' /\ CursorsAgree'
      /\ \A p \in Paths : qp_stat'[p].posted = qp_stat[p].posted
  BY <1>1, InnerPollStep
<1>3. WindowInv' /\ HistoryInv' /\ LiveWqes'
  BY <1>1 DEF IndInv, WindowInv, HistoryInv, LiveWqes, Live, MsgPackets
<1>4. CASE QueueFull(tot')
  <2>1. UNCHANGED <<call, post_turn>>
    BY <1>4 DEF DrainPoll
  <2>2. TypeOK'
    BY <1>1, <1>2, <2>1 DEF IndInv, TypeOK
  <2>3. CallInv'
    BY <1>1, <1>4, <2>1 DEF IndInv, CallInv, MsgPackets
  <2>4. TurnInSync'
    BY <1>1, <1>2, <2>1 DEF IndInv, TurnInSync
  <2> QED
    BY <1>2, <1>3, <2>2, <2>3, <2>4 DEF IndInv
<1>5. CASE ~ QueueFull(tot')
  <2>1. NextPacket
    BY <1>5 DEF DrainPoll
  <2>2. \A p \in Paths :
          qp_stat'[p].posted = cum[wqe_table.sqn] + (call.i \div NumPath)
                                 + (IF p <= post_turn THEN 1 ELSE 0)
    <3> SUFFICES ASSUME NEW p \in Paths
                 PROVE  qp_stat'[p].posted = cum[wqe_table.sqn] + (call.i \div NumPath)
                                               + (IF p <= post_turn THEN 1 ELSE 0)
      OBVIOUS
    <3>1. qp_stat[p].posted = cum[wqe_table.sqn] + (call.i \div NumPath)
                              + (IF p < post_turn \/ p = post_turn THEN 1 ELSE 0)
      BY <1>1 DEF IndInv, TurnInSync, CallInv
    <3>2. p <= post_turn <=> p < post_turn \/ p = post_turn
      BY DEF IndInv, TypeOK, Paths
    <3> QED
      BY <1>2, <3>1, <3>2
  <2>3. /\ CallInv' /\ TurnInSync' /\ post_turn' \in Paths
        /\ call' \in [pc : {"idle", "post", "drain"}, i : Nat, iter : Nat,
                      active : 1 .. NumPath]
    BY <1>1, <1>5, <2>1, <2>2, NextPacketStep
  <2>4. TypeOK'
    BY <1>1, <1>2, <2>3 DEF IndInv, TypeOK
  <2> QED
    BY <1>2, <1>3, <2>3, <2>4 DEF IndInv
<1> QED
  BY <1>4, <1>5
(* A message is reported: the window moves over it, and no path was still   *)
(* at it.                                                                   *)
LEMMA PollCompleteInv ==
  ASSUME IndInv, PollComplete, DepthFits, NoIdlePoll
  PROVE  IndInv'
<1> USE EndpointAssumption
<1> DEFINE s == wqe_table.sqn
           h == wqe_table.head
           each == wqe_table.wqe[h].iter_each
<1>1. TypeOK /\ WindowInv /\ HistoryInv /\ CallInv /\ CountInv /\ LiveWqes
      /\ CursorsAgree /\ TurnInSync
  BY DEF IndInv
<1>2. /\ HeadComplete /\ call.pc = "idle" /\ done < s /\ active_num = NumPath
      /\ UNCHANGED <<active_num, tot, post_turn, poll_turn, call, cq, cum>>
      /\ done' = done + 1
      /\ wqe_table' = [wqe_table EXCEPT !.wqe[h].valid = 0, !.head = Wrap(h + 1)]
  BY <1>1 DEF PollComplete, AppPolls, NoIdlePoll, CallInv
<1>3. /\ s \in Nat /\ done \in Nat /\ done \in 0 .. s - 1 /\ done \in Live
      /\ done + 1 \in 0 .. s /\ s - done <= Depth
  <2>1. s \in Nat /\ done \in Nat
    BY HistoryFacts
  <2> QED
    BY <1>1, <1>2, <2>1 DEF Live, WindowInv
<1>4. /\ h = done % TableLen /\ h \in Slots
      /\ \A p \in Paths : each[p] = MsgPackets(done)
  BY <1>1, <1>3, VarTypes DEF LiveWqes
<1>5. /\ cum[done + 1] \in Nat /\ cum[done + 2] \in Nat
      /\ MsgPackets(done) = cum[done + 2] - cum[done + 1]
      /\ MsgPackets(done) \in Nat
  <2>1. done \in 0 .. s /\ done + 1 \in 0 .. s /\ (done + 1) + 1 = done + 2
    BY <1>3
  <2>2. cum[done + 1] \in Nat /\ cum[(done + 1) + 1] \in Nat
    BY <2>1, HistoryFacts
  <2>3. MsgPackets(done) = cum[done + 2] - cum[done + 1] /\ MsgPackets(done) \in Nat
    BY <1>3, HistoryFacts
  <2> QED
    BY <2>1, <2>2, <2>3
<1>6. \A p \in Paths : /\ qp_stat[p].polled >= MsgPackets(done)
                        /\ qp_stat[p].tot_pkt >= cum[done + 2]
  <2> SUFFICES ASSUME NEW p \in Paths
               PROVE  /\ qp_stat[p].polled >= MsgPackets(done)
                      /\ qp_stat[p].tot_pkt >= cum[done + 2]
    OBVIOUS
  <2>1. qp_stat[p].polled >= each[p]
    BY <1>2 DEF HeadComplete, Paths
  <2>2. qp_stat[p].polled >= MsgPackets(done)
    BY <1>4, <2>1
  <2>3. qp_stat[p].polled = qp_stat[p].tot_pkt - cum[done + 1]
        /\ qp_stat[p].polled \in Nat /\ qp_stat[p].tot_pkt \in Nat
    BY <1>1, QpTypes DEF CountInv
  <2> QED
    BY <1>5, <2>2, <2>3
<1>7. \A p \in Paths :
        qp_stat'[p] = [qp_stat[p] EXCEPT !.polled = qp_stat[p].polled - MsgPackets(done)]
  BY <1>2, <1>4 DEF PollComplete, Paths
<1>8. qp_stat' \in [Paths -> QpStatus]
  <2>1. \A p \in Paths : qp_stat'[p] \in QpStatus
    <3> SUFFICES ASSUME NEW p \in Paths PROVE qp_stat'[p] \in QpStatus
      OBVIOUS
    <3>1. qp_stat[p].polled - MsgPackets(done) \in Nat /\ qp_stat[p] \in QpStatus
      BY <1>1, <1>5, <1>6, QpTypes
    <3> QED
      BY <1>7, <3>1 DEF QpStatus
  <2>2. qp_stat' = [p \in Paths |-> qp_stat'[p]]
    BY DEF PollComplete
  <2> QED
    BY <2>1, <2>2
<1>9. \A p \in Paths :
        /\ qp_stat'[p].polled = qp_stat[p].polled - MsgPackets(done)
        /\ qp_stat'[p].posted = qp_stat[p].posted
        /\ qp_stat'[p].tot_pkt = qp_stat[p].tot_pkt
        /\ qp_stat'[p].comp_temp = qp_stat[p].comp_temp
        /\ qp_stat'[p].wqe_idx = qp_stat[p].wqe_idx
        /\ qp_stat'[p].qlen = qp_stat[p].qlen
  BY <1>1, <1>7, QpTypes DEF QpStatus
<1>10. /\ wqe_table'.head = (done + 1) % TableLen /\ wqe_table'.head \in Slots
       /\ wqe_table'.next = wqe_table.next /\ wqe_table'.sqn = s
       /\ wqe_table'.wqe = [wqe_table.wqe EXCEPT ![h].valid = 0]
       /\ wqe_table'.wqe \in [Slots -> Wqe]
       /\ wqe_table' \in [head : Slots, next : Slots, sqn : Nat, wqe : [Slots -> Wqe]]
  <2>1. wqe_table \in [head : Slots, next : Slots, sqn : Nat, wqe : [Slots -> Wqe]]
    BY <1>1 DEF TypeOK
  <2>2. Wrap(h + 1) = (done + 1) % TableLen
    BY <1>3, <1>4, WrapIsSucc
  <2>3. (done + 1) % TableLen \in Slots
    <3>1. done + 1 \in Nat
      BY <1>3
    <3>2. (done + 1) % TableLen \in 0 .. TableLen - 1
      BY <3>1, DivMod
    <3> QED
      BY <3>2 DEF Slots
  <2>4. [wqe_table.wqe[h] EXCEPT !.valid = 0] \in Wqe
    BY <1>4, <2>1 DEF Wqe
  <2>5. wqe_table' = [wqe_table EXCEPT
                        !.wqe = [wqe_table.wqe EXCEPT
                                   ![h] = [wqe_table.wqe[h] EXCEPT !.valid = 0]],
                        !.head = Wrap(h + 1)]
    BY <1>2, <2>1
  <2>6. [wqe_table.wqe EXCEPT ![h] = [wqe_table.wqe[h] EXCEPT !.valid = 0]]
          \in [Slots -> Wqe]
    BY <2>1, <2>4
  <2> QED
    BY <2>1, <2>2, <2>3, <2>5, <2>6
<1>11. TypeOK'
  <2>1. /\ active_num' \in 1 .. NumPath
        /\ tot' \in [posted : Nat, polled : Nat]
        /\ post_turn' \in Paths /\ poll_turn' \in Paths
        /\ call' \in [pc : {"idle", "post", "drain"}, i : Nat, iter : Nat,
                      active : 1 .. NumPath]
        /\ cq' \in [Paths -> Nat]
        /\ cum' \in Seq(Nat)
    <3>1. UNCHANGED <<active_num, tot, post_turn, poll_turn, call, cq, cum>>
      BY <1>2
    <3> QED
      BY ONLY <1>1, <3>1, SMTT(30) DEF TypeOK
  <2>2. /\ wqe_table' \in [head : Slots, next : Slots, sqn : Nat, wqe : [Slots -> Wqe]]
        /\ qp_stat' \in [Paths -> QpStatus]
    BY <1>8, <1>10
  <2>3. done' \in Nat
    BY ONLY <1>2, <1>3
  <2> QED
    BY ONLY <2>1, <2>2, <2>3, Zenon DEF TypeOK
<1>12. WindowInv' /\ HistoryInv'
  <2>1. wqe_table'.sqn = s /\ cum' = cum
    BY <1>2, <1>10
  <2>2. WindowInv'
    <3>1. done' = done + 1 /\ done + 1 <= s /\ s - (done + 1) <= Depth
      BY <1>2, <1>3, SMTT(30)
    <3> QED
      BY ONLY <2>1, <3>1, Zenon DEF WindowInv
  <2>3. HistoryInv'
    BY ONLY <1>1, <2>1, Zenon DEF HistoryInv
  <2> QED
    BY <2>2, <2>3
<1>13. CallInv'
  BY <1>1, <1>2 DEF CallInv
<1>14. CountInv'
  <2> SUFFICES ASSUME NEW p \in Paths
               PROVE  /\ qp_stat'[p].posted = qp_stat'[p].tot_pkt + qp_stat'[p].qlen
                      /\ cq'[p] <= qp_stat'[p].qlen
                      /\ qp_stat'[p].polled = qp_stat'[p].tot_pkt - cum'[done' + 1]
    BY <1>1, <1>2 DEF CountInv, Outstanding
  <2>1. /\ qp_stat[p].posted = qp_stat[p].tot_pkt + qp_stat[p].qlen
        /\ cq[p] <= qp_stat[p].qlen
        /\ qp_stat[p].polled = qp_stat[p].tot_pkt - cum[done + 1]
        /\ qp_stat[p].tot_pkt \in Nat
    BY <1>1, QpTypes DEF CountInv
  <2>2. cum'[done' + 1] = cum[done + 2]
    BY <1>2, <1>3
  <2> QED
    BY <1>2, <1>5, <1>9, <2>1, <2>2
<1>15. LiveWqes'
  <2>1. Live' = done + 1 .. s - 1
    BY <1>2, <1>10 DEF Live
  <2>2. \A m \in Live' : m \in Live /\ m % TableLen # h /\ m % TableLen \in Slots
    <3> SUFFICES ASSUME NEW m \in done + 1 .. s - 1
                 PROVE  m \in Live /\ m % TableLen # h /\ m % TableLen \in Slots
      BY <2>1
    <3>1. m \in Nat /\ m > done /\ m - done < TableLen /\ m \in done .. s - 1
      BY <1>3 DEF DepthFits
    <3>2. m % TableLen # done % TableLen
      <4> SUFFICES ASSUME m % TableLen = done % TableLen PROVE FALSE
        OBVIOUS
      <4>1. done <= m /\ done \in Nat
        BY <1>3, <3>1
      <4>2. m = done
        BY ONLY <3>1, <4>1, m % TableLen = done % TableLen, ModDistinct, EndpointAssumption
      <4> QED
        BY <3>1, <4>2
    <3>3. m % TableLen \in 0 .. TableLen - 1
      BY <3>1, DivMod
    <3> QED
      BY <1>4, <3>1, <3>2, <3>3 DEF Live, Slots
  <2>3. \A k \in Slots : k # h => wqe_table'.wqe[k] = wqe_table.wqe[k]
    BY <1>1, <1>10 DEF TypeOK
  <2>4. wqe_table'.wqe[h].valid = 0
    <3>1. wqe_table.wqe \in [Slots -> Wqe]
      BY <1>1, VarTypes
    <3>2. wqe_table.wqe[h] \in Wqe
      BY <1>4, <3>1
    <3> QED
      BY <1>4, <1>10, <3>1, <3>2 DEF Wqe
  <2>5. \A m \in Live', p \in Paths :
          wqe_table'.wqe[m % TableLen].iter_each[p] = MsgPackets(m)
    BY <1>1, <2>2, <2>3 DEF LiveWqes
  <2>6. \A k \in Slots : wqe_table'.wqe[k].valid = 1 <=> \E m \in Live' : k = m % TableLen
    <3> SUFFICES ASSUME NEW k \in Slots
                 PROVE  wqe_table'.wqe[k].valid = 1 <=> \E m \in Live' : k = m % TableLen
      OBVIOUS
    <3>1. CASE k = h
      BY <2>2, <2>4, <3>1
    <3>2. CASE k # h
      <4>1. wqe_table'.wqe[k].valid = 1 <=> \E m \in Live : k = m % TableLen
        BY <1>1, <2>3, <3>2 DEF LiveWqes
      <4>2. \A m \in Live : k = m % TableLen => m \in Live'
        <5>1. \A m \in done .. s - 1 : m # done => m \in done + 1 .. s - 1
          BY <1>3
        <5>2. Live = done .. s - 1
          BY DEF Live
        <5> QED
          BY ONLY <1>4, <2>1, <3>2, <5>1, <5>2
      <4> QED
        BY <2>2, <4>1, <4>2
    <3> QED
      BY <3>1, <3>2
  <2> QED
    BY <1>1, <1>2, <1>10, <2>5, <2>6 DEF LiveWqes, MsgPackets
<1>16. CursorsAgree'
  <2> SUFFICES ASSUME NEW p \in Paths
               PROVE  \E c \in done + 1 .. s : PathAt(p, c)'
    BY <1>2, <1>10 DEF CursorsAgree
  <2>1. PICK c \in done .. s : PathAt(p, c)
    BY <1>1 DEF CursorsAgree
  <2>2. c # done
    <3> SUFFICES ASSUME c = done PROVE FALSE
      OBVIOUS
    <3>1. /\ qp_stat[p].tot_pkt = cum[done + 1] + qp_stat[p].comp_temp
          /\ qp_stat[p].comp_temp < MsgPackets(done)
      BY <1>2, <2>1 DEF PathAt
    <3>2. qp_stat[p].tot_pkt \in Nat /\ qp_stat[p].comp_temp \in Nat
      BY <1>1, QpTypes
    <3> QED
      BY <1>5, <1>6, <3>1, <3>2
  <2>3. c \in done + 1 .. s
    BY <1>3, <2>2
  <2>4. PathAt(p, c)'
    BY <1>2, <1>9, <1>10, <2>1 DEF PathAt, MsgPackets
  <2> QED
    BY <2>3, <2>4
<1>17. TurnInSync'
  BY <1>1, <1>2, <1>9, <1>10 DEF TurnInSync
<1> QED
  BY <1>11, <1>12, <1>13, <1>14, <1>15, <1>16, <1>17 DEF IndInv
(* A message is posted: it takes a slot no live message has, and its        *)
(* packets come after those of all messages before it.                      *)
LEMMA PostInv ==
  ASSUME IndInv, NEW size \in Sizes, Post(size), DepthFits
  PROVE  IndInv'
<1> USE EndpointAssumption
<1>0. PICK s \in Nat, x \in Slots : s = wqe_table.sqn /\ x = wqe_table.next
  BY VarTypes DEF IndInv
<1> USE <1>0
<1>1. TypeOK /\ WindowInv /\ HistoryInv /\ CallInv /\ CountInv /\ LiveWqes
      /\ CursorsAgree /\ TurnInSync
  BY DEF IndInv
<1>2. PICK n \in Nat \ {0} : /\ n = IterEach(size, NumPath)
                            /\ Iter(size, NumPath) = n * NumPath
  BY PacketsPositive
<1>3. /\ call.pc = "idle" /\ active_num = NumPath /\ s - done < Depth
      /\ post_turn' = post_turn % NumPath
      /\ call' = [pc |-> "post", i |-> 0, iter |-> n * NumPath, active |-> NumPath]
      /\ cum' = Append(cum, cum[Len(cum)] + n)
      /\ UNCHANGED <<active_num, qp_stat, tot, poll_turn, cq, done>>
  BY <1>1, <1>2 DEF Post, CallInv
<1> DEFINE w == [valid |-> 1, iter_each |-> [p \in Paths |-> n]]
<1>4. wqe_table' = [wqe_table EXCEPT !.next = Wrap(x + 1), !.sqn = s + 1, !.wqe[x] = w]
  <2>1. [p \in Paths |-> IF p < NumPath THEN n ELSE 0] = [p \in Paths |-> n]
    BY DEF Paths
  <2> QED
    BY <1>2, <1>3, <2>1 DEF Post, StoreWr
<1>5. /\ s \in Nat /\ done \in Nat /\ done \in 0 .. s /\ Len(cum) = s + 1
      /\ cum \in Seq(Nat) /\ cum[s + 1] \in Nat
  <2>1. s \in Nat /\ done \in 0 .. s /\ Len(cum) = s + 1 /\ cum \in Seq(Nat)
    BY HistoryFacts
  <2> QED
    BY ONLY <2>1
<1>6. /\ x = s % TableLen /\ x \in Slots /\ wqe_table.wqe \in [Slots -> Wqe]
  BY <1>1, VarTypes DEF LiveWqes
<1>7. /\ wqe_table'.next = (s + 1) % TableLen /\ wqe_table'.head = wqe_table.head
      /\ wqe_table'.sqn = s + 1
      /\ wqe_table'.wqe = [wqe_table.wqe EXCEPT ![x] = w]
      /\ wqe_table' \in [head : Slots, next : Slots, sqn : Nat, wqe : [Slots -> Wqe]]
  <2>1. wqe_table \in [head : Slots, next : Slots, sqn : Nat, wqe : [Slots -> Wqe]]
    BY <1>1 DEF TypeOK
  <2>2. Wrap(x + 1) = (s + 1) % TableLen
    BY <1>5, <1>6, WrapIsSucc
  <2>3. (s + 1) % TableLen \in Slots
    <3>1. s + 1 \in Nat
      BY <1>5
    <3>2. (s + 1) % TableLen \in 0 .. TableLen - 1
      BY <3>1, DivMod
    <3> QED
      BY <3>2 DEF Slots
  <2>4. [wqe_table.wqe EXCEPT ![x] = w] \in [Slots -> Wqe]
    <3>1. w \in Wqe
      BY <1>2 DEF Wqe
    <3> QED
      BY <1>6, <3>1
  <2>5. s + 1 \in Nat
    BY <1>5
  <2>6. wqe_table' = [wqe_table EXCEPT !.next = Wrap(x + 1), !.sqn = s + 1,
                                       !.wqe = [wqe_table.wqe EXCEPT ![x] = w]]
    BY <1>4, <2>1
  <2> QED
    BY ONLY <2>1, <2>2, <2>3, <2>4, <2>5, <2>6
<1>8. /\ cum' \in Seq(Nat) /\ Len(cum') = s + 2
      /\ \A j \in 1 .. s + 1 : cum'[j] = cum[j]
      /\ cum'[s + 2] = cum[s + 1] + n
  <2>1. cum' = Append(cum, cum[s + 1] + n) /\ cum[s + 1] + n \in Nat
    <3>1. cum[s + 1] + n \in Nat
      <4>1. cum[s + 1] \in Nat
        BY <1>5
      <4> QED
        BY ONLY <4>1, n \in Nat \ {0}
    <3>2. cum' = Append(cum, cum[Len(cum)] + n)
      BY <1>3
    <3> QED
      BY ONLY <1>5, <3>1, <3>2
  <2> QED
    BY ONLY <1>5, <2>1
<1>9. /\ \A m \in 0 .. s - 1 : MsgPackets(m)' = MsgPackets(m)
      /\ MsgPackets(s)' = n
  <2>1. \A m \in 0 .. s - 1 : m + 1 \in 1 .. s + 1 /\ m + 2 \in 1 .. s + 1
    OBVIOUS
  <2>2. cum'[s + 2] - cum'[s + 1] = n
    <3>1. s + 1 \in 1 .. s + 1
      OBVIOUS
    <3>2. cum'[s + 1] = cum[s + 1] /\ cum'[s + 2] = cum[s + 1] + n
      BY <1>8, <3>1
    <3> QED
      BY ONLY <1>2, <1>5, <3>2
  <2> QED
    BY <1>8, <2>1, <2>2 DEF MsgPackets
<1>10. post_turn' = 0 /\ 0 \in Paths /\ 0 % NumPath = 0
  <2>1. 0 = NumPath * 0 + 0 /\ 0 \in 0 .. NumPath - 1
    OBVIOUS
  <2>2. 0 % NumPath = 0 /\ 0 \div NumPath = 0
    BY <2>1, DivModUnique
  <2> QED
    BY <1>1, <1>3, <2>1, <2>2 DEF TurnInSync, Paths
<1>11. TypeOK'
  <2>1. n * NumPath \in Nat
    BY <1>2
  <2> QED
    BY <1>1, <1>3, <1>7, <1>8, <1>10, <2>1 DEF TypeOK
<1>12. WindowInv'
  <2>1. done <= s + 1 /\ (s + 1) - done <= Depth
    <3>1. s - done < Depth
      BY <1>3
    <3> QED
      BY ONLY <1>5, <3>1, EndpointAssumption
  <2> QED
    BY <1>3, <1>7, <2>1 DEF WindowInv
<1>13. HistoryInv'
  <2> SUFFICES ASSUME NEW j \in 1 .. s + 2, NEW k \in 1 .. s + 2, j < k
               PROVE  cum'[j] < cum'[k]
    <3>1. 1 .. Len(cum') = 1 .. s + 2 /\ Len(cum') = wqe_table'.sqn + 1
      BY <1>5, <1>7, <1>8
    <3> QED
      BY ONLY <3>1, \A j, k \in 1 .. s + 2 : j < k => cum'[j] < cum'[k] DEF HistoryInv
  <2>1. j \in 1 .. s + 1 /\ cum'[j] = cum[j] /\ cum[j] \in Nat
    <3>1. j \in 1 .. s + 1
      OBVIOUS
    <3> QED
      BY ONLY <1>5, <1>8, <3>1
  <2>2. CASE k = s + 2
    <3>1. cum[j] <= cum[s + 1]
      <4>1. CASE j = s + 1
        BY <1>5, <4>1
      <4>2. CASE j # s + 1
        <5>1. cum[j] < cum[s + 1]
          <6>1. j < s + 1 /\ s + 1 \in 1 .. s + 1
            BY <2>1, <4>2
          <6> QED
            BY <1>1, <1>5, <2>1, <6>1 DEF HistoryInv
        <5> QED
          BY ONLY <1>5, <2>1, <5>1
      <4> QED
        BY <4>1, <4>2
    <3> QED
      BY ONLY <1>2, <1>5, <1>8, <2>1, <2>2, <3>1
  <2>3. CASE k # s + 2
    <3>1. k \in 1 .. s + 1
      BY <1>5, <2>3, SMTT(30)
    <3> QED
      BY <1>1, <1>5, <1>8, <2>1, <3>1 DEF HistoryInv
  <2> QED
    BY <2>2, <2>3
<1>14. CallInv'
  <2>1. call'.pc = "post" /\ call'.i = 0 /\ call'.iter = n * NumPath
        /\ call'.active = NumPath
    BY <1>3
  <2>2. 0 < n * NumPath
    BY <1>2
  <2>3. (s + 1) - 1 = s /\ s + 1 > 0
    BY <1>5
  <2>4. ~ QueueFull(tot)
    BY <1>1, <1>3 DEF CallInv
  <2>5. MsgPackets(wqe_table.sqn - 1)' = n
    <3>1. MsgPackets(wqe_table.sqn - 1)' = cum'[((s + 1) - 1) + 2] - cum'[((s + 1) - 1) + 1]
      BY <1>7 DEF MsgPackets
    <3>2. MsgPackets(s)' = cum'[s + 2] - cum'[s + 1]
      BY DEF MsgPackets
    <3> QED
      BY <1>9, <2>3, <3>1, <3>2
  <2> QED
    BY <1>3, <1>7, <1>10, <2>1, <2>2, <2>3, <2>4, <2>5 DEF CallInv
<1>15. CountInv'
  <2>1. cum'[done' + 1] = cum[done + 1]
    <3>1. done + 1 \in 1 .. s + 1
      BY <1>5
    <3> QED
      BY <1>3, <1>8, <3>1
  <2> QED
    BY <1>1, <1>3, <2>1 DEF CountInv, Outstanding
<1>16. LiveWqes'
  <2>1. Live' = done .. s
    <3>1. (s + 1) - 1 = s
      BY <1>5
    <3> QED
      BY <1>3, <1>7, <3>1 DEF Live
  <2>2. /\ Live = done .. s - 1
        /\ s \in Live'
        /\ \A m \in Live' : m # s => m \in Live
        /\ \A m \in Live : m \in Live'
    <3>1. Live = done .. s - 1
      BY DEF Live
    <3>2. s \in done .. s /\ \A m \in done .. s : m # s => m \in done .. s - 1
      BY <1>5
    <3>3. \A m \in done .. s - 1 : m \in done .. s
      BY <1>5
    <3> QED
      BY ONLY <2>1, <3>1, <3>2, <3>3
  <2>3. \A m \in Live : m % TableLen # x /\ m % TableLen \in Slots /\ m \in 0 .. s - 1
    <3> SUFFICES ASSUME NEW m \in done .. s - 1
                 PROVE  m % TableLen # x /\ m % TableLen \in Slots /\ m \in 0 .. s - 1
      BY <2>2
    <3>1. m \in Nat /\ m <= s /\ s - m < TableLen /\ m # s /\ m \in 0 .. s - 1
      <4>1. s - m <= s - done
        BY <1>5
      <4>2. s - done < TableLen
        <5>1. s - done < Depth /\ Depth <= TableLen
          BY <1>3 DEF DepthFits
        <5> QED
          BY ONLY <1>5, <5>1, EndpointAssumption
      <4> QED
        BY ONLY <1>5, <4>1, <4>2, s \in Nat, m \in done .. s - 1, EndpointAssumption
    <3>2. m % TableLen # s % TableLen
      <4> SUFFICES ASSUME s % TableLen = m % TableLen PROVE FALSE
        OBVIOUS
      <4>1. s = m
        BY ONLY <1>5, <3>1, s % TableLen = m % TableLen, ModDistinct, EndpointAssumption
      <4> QED
        BY <3>1, <4>1
    <3>3. m % TableLen \in 0 .. TableLen - 1
      BY <3>1, DivMod
    <3> QED
      BY <1>6, <3>1, <3>2, <3>3 DEF Slots
  <2>4. /\ wqe_table'.wqe[x] = w
        /\ \A k \in Slots : k # x => wqe_table'.wqe[k] = wqe_table.wqe[k]
    BY <1>6, <1>7
  <2>5. \A m \in Live', p \in Paths :
          wqe_table'.wqe[m % TableLen].iter_each[p] = MsgPackets(m)'
    <3> SUFFICES ASSUME NEW m \in Live', NEW p \in Paths
                 PROVE  wqe_table'.wqe[m % TableLen].iter_each[p] = MsgPackets(m)'
      OBVIOUS
    <3>1. CASE m = s
      BY <1>6, <1>9, <2>4, <3>1
    <3>2. CASE m # s
      <4>1. m \in Live /\ m % TableLen # x /\ m % TableLen \in Slots
            /\ MsgPackets(m)' = MsgPackets(m)
        BY <1>9, <2>2, <2>3, <3>2
      <4> QED
        BY <1>1, <2>4, <4>1 DEF LiveWqes
    <3> QED
      BY <3>1, <3>2
  <2>6. \A k \in Slots : wqe_table'.wqe[k].valid = 1 <=> \E m \in Live' : k = m % TableLen
    <3> SUFFICES ASSUME NEW k \in Slots
                 PROVE  wqe_table'.wqe[k].valid = 1 <=> \E m \in Live' : k = m % TableLen
      OBVIOUS
    <3>1. CASE k = x
      BY <1>6, <2>2, <2>4, <3>1
    <3>2. CASE k # x
      <4>1. wqe_table'.wqe[k].valid = 1 <=> \E m \in Live : k = m % TableLen
        BY <1>1, <2>4, <3>2 DEF LiveWqes
      <4> QED
        <5>1. ASSUME NEW m \in Live, k = m % TableLen PROVE m \in Live'
          <6>1. m \in done .. s - 1
            BY DEF Live
          <6>2. m \in done .. s
            BY <6>1
          <6> QED
            BY <2>1, <6>2
        <5>2. ASSUME NEW m \in Live', k = m % TableLen PROVE m \in Live
          BY ONLY <1>6, <2>2, <3>2, m \in Live', k = m % TableLen
        <5> QED
          BY ONLY <4>1, <5>1, <5>2
    <3> QED
      BY <3>1, <3>2
  <2> QED
    BY <1>1, <1>3, <1>7, <2>5, <2>6 DEF LiveWqes
<1>17. CursorsAgree'
  <2> SUFFICES ASSUME NEW p \in Paths
               PROVE  \E c \in done .. s + 1 : PathAt(p, c)'
    BY <1>3, <1>7 DEF CursorsAgree
  <2>1. PICK c \in done .. s : PathAt(p, c)
    BY <1>1 DEF CursorsAgree
  <2>2. c \in done .. s + 1 /\ c + 1 \in 1 .. s + 1 /\ c \in 0 .. s /\ c < s + 1
        /\ c # s + 1
    BY <1>5
  <2>3. /\ qp_stat[p].wqe_idx = c % TableLen
        /\ qp_stat[p].tot_pkt = cum'[c + 1] + qp_stat[p].comp_temp
    BY <1>8, <2>1, <2>2 DEF PathAt
  <2>4. qp_stat[p].comp_temp < MsgPackets(c)'
    <3>1. CASE c = s
      BY <1>2, <1>9, <2>1, <3>1 DEF PathAt
    <3>2. CASE c # s
      <4>1. c \in 0 .. s - 1 /\ c < s
        BY <1>5, <2>2, <3>2
      <4> QED
        BY <1>9, <2>1, <4>1 DEF PathAt
    <3> QED
      BY <3>1, <3>2
  <2>5. PathAt(p, c)'
    BY <1>3, <1>7, <2>2, <2>3, <2>4 DEF PathAt
  <2> QED
    BY <2>2, <2>5
<1>18. TurnInSync'
  <2> SUFFICES ASSUME NEW p \in Paths
               PROVE  qp_stat[p].posted
                        = cum'[s + 1] + (0 \div NumPath) + (IF p < 0 THEN 1 ELSE 0)
    <3>1. /\ call'.pc = "post" /\ call'.i = 0 /\ call'.active = NumPath
          /\ post_turn' = 0 /\ qp_stat' = qp_stat
      BY <1>3, <1>10
    <3>2. wqe_table'.sqn = s + 1
      BY <1>7
    <3> QED
      BY ONLY <3>1, <3>2,
              \A p \in Paths :
                qp_stat[p].posted
                  = cum'[s + 1] + (0 \div NumPath) + (IF p < 0 THEN 1 ELSE 0)
         DEF TurnInSync
  <2>1. qp_stat[p].posted = cum[s + 1]
    BY <1>1, <1>3 DEF TurnInSync
  <2>2. cum'[s + 1] = cum[s + 1]
    <3>1. s + 1 \in 1 .. s + 1
      BY <1>5
    <3> QED
      BY <1>8, <3>1
  <2>3. 0 \div NumPath = 0
    <3>1. 0 = NumPath * 0 + 0 /\ 0 \in 0 .. NumPath - 1
      OBVIOUS
    <3> QED
      BY <3>1, DivModUnique
  <2>4. ~ (p < 0)
    BY DEF Paths
  <2> QED
    BY <1>5, <2>1, <2>2, <2>3, <2>4
<1> QED
  BY <1>11, <1>12, <1>13, <1>14, <1>15, <1>16, <1>17, <1>18 DEF IndInv
(* A packet is posted: its path is one ahead until the loop goes on.        *)
LEMMA PostPacketInv ==
  ASSUME IndInv, PostPacket
  PROVE  IndInv'
<1> USE EndpointAssumption
<1>0. PICK t \in Paths : t = post_turn
  BY DEF IndInv, TypeOK
<1>1. TypeOK /\ WindowInv /\ HistoryInv /\ CallInv /\ CountInv /\ LiveWqes
      /\ CursorsAgree /\ TurnInSync
  BY DEF IndInv
<1>2. /\ call.pc = "post"
      /\ qp_stat' = [qp_stat EXCEPT ![t].posted = qp_stat[t].posted + 1,
                                    ![t].qlen = qp_stat[t].qlen + 1]
      /\ tot' = [tot EXCEPT !.posted = tot.posted + 1]
      /\ UNCHANGED <<active_num, wqe_table, poll_turn, cq, done, cum>>
  BY <1>0, <1>1 DEF PostPacket, TypeOK
<1>3. /\ qp_stat[t] \in QpStatus /\ qp_stat[t].posted \in Nat /\ qp_stat[t].qlen \in Nat
      /\ tot.posted \in Nat /\ tot.polled \in Nat
  BY <1>1, QpTypes, VarTypes
<1>4. /\ tot'.posted = tot.posted + 1 /\ tot'.polled = tot.polled
      /\ tot' \in [posted : Nat, polled : Nat]
  <2>1. tot \in [posted : Nat, polled : Nat] /\ tot.posted + 1 \in Nat
    BY <1>1, <1>3 DEF TypeOK
  <2> QED
    BY ONLY <1>2, <2>1
<1>5. /\ \A p \in Paths : p # t => qp_stat'[p] = qp_stat[p]
      /\ qp_stat'[t] = [qp_stat[t] EXCEPT !.posted = qp_stat[t].posted + 1,
                                          !.qlen = qp_stat[t].qlen + 1]
  BY <1>1, <1>2 DEF TypeOK
<1>6. /\ qp_stat'[t].posted = qp_stat[t].posted + 1
      /\ qp_stat'[t].qlen = qp_stat[t].qlen + 1
      /\ qp_stat'[t].polled = qp_stat[t].polled
      /\ qp_stat'[t].tot_pkt = qp_stat[t].tot_pkt
      /\ qp_stat'[t].comp_temp = qp_stat[t].comp_temp
      /\ qp_stat'[t].wqe_idx = qp_stat[t].wqe_idx
      /\ qp_stat'[t] \in QpStatus
  <2>1. PICK a \in Nat : a = qp_stat[t].posted + 1
    BY <1>3
  <2>2. PICK b \in Nat : b = qp_stat[t].qlen + 1
    BY <1>3
  <2>3. qp_stat'[t] = [qp_stat[t] EXCEPT !.posted = a, !.qlen = b]
    BY <1>5, <2>1, <2>2
  <2> QED
    BY ONLY <1>3, <2>1, <2>2, <2>3, a \in Nat, b \in Nat DEF QpStatus
<1>7. qp_stat' \in [Paths -> QpStatus]
  <2>1. qp_stat \in [Paths -> QpStatus]
    BY <1>1 DEF TypeOK
  <2> QED
    BY <1>2, <1>5, <1>6, <2>1
<1>8. WindowInv' /\ HistoryInv' /\ LiveWqes'
  BY <1>1, <1>2 DEF WindowInv, HistoryInv, LiveWqes, Live, MsgPackets
<1>9. CursorsAgree'
  <2> SUFFICES ASSUME NEW p \in Paths
               PROVE  \E c \in done .. wqe_table.sqn : PathAt(p, c)'
    BY <1>2 DEF CursorsAgree
  <2>1. PICK c \in done .. wqe_table.sqn : PathAt(p, c)
    BY <1>1 DEF CursorsAgree
  <2>2. PathAt(p, c)'
    BY <1>2, <1>5, <1>6, <2>1 DEF PathAt, MsgPackets
  <2> QED
    BY <2>2
<1>10. CountInv'
  <2>1. ~ QueueFull(tot)
    BY <1>1, <1>2 DEF CallInv
  <2>2. tot'.polled <= tot'.posted /\ Outstanding(tot') <= MaxOutstd
    BY <1>1, <1>3, <1>4, <2>1 DEF CountInv, QueueFull, Outstanding
  <2>3. \A p \in Paths :
          /\ qp_stat'[p].posted = qp_stat'[p].tot_pkt + qp_stat'[p].qlen
          /\ cq'[p] <= qp_stat'[p].qlen
          /\ qp_stat'[p].polled = qp_stat'[p].tot_pkt - cum'[done' + 1]
    <3> SUFFICES ASSUME NEW p \in Paths
                 PROVE  /\ qp_stat'[p].posted = qp_stat'[p].tot_pkt + qp_stat'[p].qlen
                        /\ cq[p] <= qp_stat'[p].qlen
                        /\ qp_stat'[p].polled = qp_stat'[p].tot_pkt - cum[done + 1]
      BY <1>2
    <3>1. /\ qp_stat[p].posted = qp_stat[p].tot_pkt + qp_stat[p].qlen
          /\ cq[p] <= qp_stat[p].qlen
          /\ qp_stat[p].polled = qp_stat[p].tot_pkt - cum[done + 1]
          /\ qp_stat[p].qlen \in Nat /\ cq[p] \in Nat /\ qp_stat[p].tot_pkt \in Nat
      BY <1>1, QpTypes DEF CountInv
    <3>2. CASE p = t
      BY <1>3, <1>6, <3>1, <3>2
    <3>3. CASE p # t
      BY <1>5, <3>1, <3>3
    <3> QED
      BY <3>2, <3>3
  <2> QED
    BY <2>2, <2>3 DEF CountInv
<1>11. \A p \in Paths :
         qp_stat'[p].posted = cum[wqe_table.sqn] + (call.i \div NumPath)
                                + (IF p <= post_turn THEN 1 ELSE 0)
  <2> SUFFICES ASSUME NEW p \in Paths
               PROVE  qp_stat'[p].posted = cum[wqe_table.sqn] + (call.i \div NumPath)
                                             + (IF p <= t THEN 1 ELSE 0)
    BY <1>0
  <2>1. /\ wqe_table.sqn \in Nat /\ wqe_table.sqn > 0 /\ call.active = NumPath
        /\ call.i \in Nat
    BY <1>1, <1>2, VarTypes DEF CallInv
  <2>2. cum[wqe_table.sqn] \in Nat
    <3>1. wqe_table.sqn - 1 \in 0 .. wqe_table.sqn
          /\ (wqe_table.sqn - 1) + 1 = wqe_table.sqn
      BY <2>1
    <3>2. cum[(wqe_table.sqn - 1) + 1] \in Nat
      BY <3>1, HistoryFacts
    <3> QED
      BY <3>1, <3>2
  <2>3. call.i \div NumPath \in Nat
    BY <2>1, DivMod
  <2>4. qp_stat[p].posted = cum[wqe_table.sqn] + (call.i \div NumPath)
                              + (IF p < t THEN 1 ELSE 0)
    BY <1>0, <1>1, <1>2, <2>1 DEF TurnInSync
  <2>5. t \in Nat /\ p \in Nat
    BY DEF Paths
  <2>6. CASE p = t
    BY ONLY <1>6, <2>2, <2>3, <2>4, <2>5, <2>6
  <2>7. CASE p # t
    <3>1. p <= t <=> p < t
      BY <2>5, <2>7
    <3>2. qp_stat'[p] = qp_stat[p]
      BY <1>5, <2>7
    <3> QED
      BY ONLY <2>4, <3>1, <3>2
  <2> QED
    BY <2>6, <2>7
<1>12. CASE QueueFull(tot')
  <2>1. call' = [call EXCEPT !.pc = "drain"] /\ post_turn' = post_turn
    BY <1>12 DEF PostPacket
  <2>2. call \in [pc : {"idle", "post", "drain"}, i : Nat, iter : Nat,
                  active : 1 .. NumPath]
    BY <1>1 DEF TypeOK
  <2>3. /\ call'.pc = "drain" /\ call'.i = call.i /\ call'.iter = call.iter
        /\ call'.active = call.active
        /\ call' \in [pc : {"idle", "post", "drain"}, i : Nat, iter : Nat,
                      active : 1 .. NumPath]
    BY ONLY <2>1, <2>2
  <2>4. TypeOK'
    BY <1>1, <1>2, <1>4, <1>7, <2>1, <2>3 DEF TypeOK
  <2>5. CallInv'
    BY <1>1, <1>2, <1>12, <2>1, <2>3 DEF CallInv, MsgPackets
  <2>6. TurnInSync'
    <3> SUFFICES ASSUME NEW p \in Paths
                 PROVE  qp_stat'[p].posted = cum[wqe_table.sqn] + (call.i \div call.active)
                          + (IF p < post_turn \/ p = post_turn THEN 1 ELSE 0)
      BY <1>2, <2>1, <2>3 DEF TurnInSync
    <3>1. p <= post_turn <=> p < post_turn \/ p = post_turn
      BY <1>1 DEF TypeOK, Paths
    <3>2. call.active = NumPath
      BY <1>1 DEF CallInv
    <3> QED
      BY <1>11, <3>1, <3>2
  <2> QED
    BY <1>8, <1>9, <1>10, <2>4, <2>5, <2>6 DEF IndInv
<1>13. CASE ~ QueueFull(tot')
  <2>1. NextPacket
    BY <1>13 DEF PostPacket
  <2>2. /\ CallInv' /\ TurnInSync' /\ post_turn' \in Paths
        /\ call' \in [pc : {"idle", "post", "drain"}, i : Nat, iter : Nat,
                      active : 1 .. NumPath]
    BY <1>2, <1>11, <1>13, <2>1, NextPacketStep
  <2>3. TypeOK'
    BY <1>1, <1>2, <1>4, <1>7, <2>2 DEF TypeOK
  <2> QED
    BY <1>8, <1>9, <1>10, <2>2, <2>3 DEF IndInv
<1> QED
  BY <1>12, <1>13

-----------------------------------------------------------------------------
(* The invariant holds in every reachable state.                            *)
THEOREM Invariance ==
  ASSUME DepthFits, NoIdlePoll
  PROVE  Spec => []IndInv
<1>1. Init => IndInv
  BY InitInv
<1>2. IndInv /\ [Next]_vars => IndInv'
  <2> SUFFICES ASSUME IndInv, [Next]_vars PROVE IndInv'
    OBVIOUS
  <2>1. ASSUME NEW size \in Sizes, Post(size) PROVE IndInv'
    BY <2>1, PostInv
  <2>2. CASE PostPacket
    BY <2>2, PostPacketInv
  <2>3. CASE DrainPoll
    BY <2>3, DrainPollInv
  <2>4. CASE PollComplete
    BY <2>4, PollCompleteInv
  <2>5. CASE PollProgress
    BY <2>5, PollProgressInv
  <2>6. ASSUME NEW p \in Paths, NicComplete(p) PROVE IndInv'
    BY <2>6, NicCompleteInv
  <2>7. CASE UNCHANGED vars
    BY <2>7, StutterInv
  <2> QED
    BY <2>1, <2>2, <2>3, <2>4, <2>5, <2>6, <2>7 DEF Next, AppNext
<1> QED
  BY <1>1, <1>2, PTL DEF Spec
(* What the invariant says of the messages reported and of the next one.    *)
LEMMA ReportFacts ==
  ASSUME IndInv
  PROVE  NoEarlyCompletion /\ ReportsExactly
<1>1. TypeOK /\ CallInv /\ CountInv /\ LiveWqes /\ CursorsAgree
  BY DEF IndInv
<1>2. /\ wqe_table.sqn \in Nat /\ done \in Nat /\ done <= wqe_table.sqn
      /\ done \in 0 .. wqe_table.sqn /\ cum[done + 1] \in Nat
  BY HistoryFacts
<1>3. \A p \in Paths : qp_stat[p].tot_pkt >= cum[done + 1]
  <2> SUFFICES ASSUME NEW p \in Paths PROVE qp_stat[p].tot_pkt >= cum[done + 1]
    OBVIOUS
  <2>1. PICK c \in done .. wqe_table.sqn : PathAt(p, c)
    BY <1>1 DEF CursorsAgree
  <2>2. c \in 0 .. wqe_table.sqn /\ done <= c
    BY <1>2
  <2>3. cum[done + 1] <= cum[c + 1] /\ cum[c + 1] \in Nat
    BY <1>2, <2>2, HistoryFacts
  <2>4. qp_stat[p].comp_temp \in Nat /\ qp_stat[p].tot_pkt \in Nat
    BY <1>1, QpTypes
  <2> QED
    BY <1>2, <2>1, <2>3, <2>4 DEF PathAt
<1>4. ReportsExactly
  <2> SUFFICES ASSUME done < wqe_table.sqn
               PROVE  HeadComplete
                        <=> \A p \in Paths : qp_stat[p].tot_pkt >= cum[done + 2]
    BY DEF ReportsExactly
  <2>1. done \in Live /\ done \in 0 .. wqe_table.sqn - 1
    BY <1>2 DEF Live
  <2>2. MsgPackets(done) = cum[done + 2] - cum[done + 1] /\ MsgPackets(done) \in Nat
    BY <2>1, HistoryFacts
  <2>3. cum[done + 2] \in Nat
    <3>1. done + 1 \in 0 .. wqe_table.sqn /\ (done + 1) + 1 = done + 2
      BY <1>2
    <3>2. cum[(done + 1) + 1] \in Nat
      BY <3>1, HistoryFacts
    <3> QED
      BY <3>1, <3>2
  <2>4. \A p \in Paths :
          qp_stat[p].polled >= wqe_table.wqe[wqe_table.head].iter_each[p]
            <=> qp_stat[p].tot_pkt >= cum[done + 2]
    <3> SUFFICES ASSUME NEW p \in Paths
                 PROVE  qp_stat[p].polled >= wqe_table.wqe[wqe_table.head].iter_each[p]
                          <=> qp_stat[p].tot_pkt >= cum[done + 2]
      OBVIOUS
    <3>1. wqe_table.wqe[wqe_table.head].iter_each[p] = MsgPackets(done)
      BY <1>1, <2>1 DEF LiveWqes
    <3>2. qp_stat[p].polled = qp_stat[p].tot_pkt - cum[done + 1]
          /\ qp_stat[p].tot_pkt \in Nat
      BY <1>1, QpTypes DEF CountInv
    <3> QED
      BY <1>2, <2>2, <2>3, <3>1, <3>2
  <2>5. HeadComplete <=> \A p \in Paths :
          qp_stat[p].polled >= wqe_table.wqe[wqe_table.head].iter_each[p]
    BY <1>1 DEF HeadComplete, CallInv, Paths
  <2> QED
    BY <2>4, <2>5
<1> QED
  BY <1>2, <1>3, <1>4 DEF NoEarlyCompletion

(* No message is reported before each path has completed its packets and    *)
(* those of the messages before it, and none is held back: for every number *)
(* of paths and every mixture of message sizes.                             *)
THEOREM CompletionIsExact ==
  ASSUME DepthFits, NoIdlePoll
  PROVE  Spec => [](NoEarlyCompletion /\ ReportsExactly)
<1>1. Spec => []IndInv
  BY Invariance
<1>2. IndInv => NoEarlyCompletion /\ ReportsExactly
  BY ReportFacts
<1> QED
  BY <1>1, <1>2, PTL

(* In particular the application never gets a message back while the card   *)
(* still has packets of it, on whatever path.                               *)
THEOREM NoneReportedEarly ==
  ASSUME DepthFits, NoIdlePoll
  PROVE  Spec => []NoEarlyCompletion
<1>1. Spec => []IndInv
  BY Invariance
<1>2. IndInv => NoEarlyCompletion
  BY ReportFacts
<1> QED
  BY <1>1, <1>2, PTL

(* mprud_store_wr takes a slot without a look at head, and yet never that   *)
(* of a message that is not reported: the table holds the live messages.    *)
THEOREM TableHoldsTheLive ==
  ASSUME DepthFits, NoIdlePoll
  PROVE  Spec => []LiveWqes
<1>1. Spec => []IndInv
  BY Invariance
<1>2. IndInv => LiveWqes
  BY DEF IndInv
<1> QED
  BY <1>1, <1>2, PTL

(* A work request is never overwritten before its message is reported, and  *)
(* the cursors of the inner and the outer poll never lose each other.       *)
THEOREM TableIsConsistent ==
  ASSUME DepthFits, NoIdlePoll
  PROVE  Spec => [](LiveWqes /\ CursorsAgree)
<1>1. Spec => []IndInv
  BY Invariance
<1>2. IndInv => LiveWqes /\ CursorsAgree
  BY DEF IndInv
<1> QED
  BY <1>1, <1>2, PTL

(* Packet i of the connection is on the path both endpoints compute for it. *)
THEOREM TurnsStayInSync ==
  ASSUME DepthFits, NoIdlePoll
  PROVE  Spec => []TurnInSync
<1>1. Spec => []IndInv
  BY Invariance
<1>2. IndInv => TurnInSync
  BY DEF IndInv
<1> QED
  BY <1>1, <1>2, PTL

(* Every counter stays a natural number, every index inside its table.      *)
THEOREM TypeCorrect ==
  ASSUME DepthFits, NoIdlePoll
  PROVE  Spec => []TypeOK
<1>1. Spec => []IndInv
  BY Invariance
<1>2. IndInv => TypeOK
  BY DEF IndInv
<1> QED
  BY <1>1, <1>2, PTL

-----------------------------------------------------------------------------
(***************************************************************************)
(* The room of the inner queues.                                           *)
(***************************************************************************)

(* What is outstanding on each path, and that it adds up to what the        *)
(* endpoint counts as outstanding.                                          *)
Qlens == [p \in Paths |-> qp_stat[p].qlen]
SumInv == SumFunctionOnSet(Qlens, Paths) = Outstanding(tot)

(* The paths are finitely many, each with a number of packets outstanding.  *)
LEMMA QlensFinite ==
  ASSUME TypeOK
  PROVE  IsFiniteSet(Paths) /\ IntsOn(Qlens, Paths)
<1>1. IsFiniteSet(Paths)
  BY FS_Interval, EndpointAssumption DEF Paths
<1>2. ASSUME NEW p \in Paths
      PROVE  Qlens[p] \in Int
  BY QpTypes DEF Qlens
<1> QED
  BY <1>1, <1>2 DEF IntsOn

(* One path gets d packets more outstanding, and so does the endpoint.      *)
LEMMA SumMoves ==
  ASSUME TypeOK, SumInv, NEW t \in Paths, NEW d \in Int,
         qp_stat'[t].qlen = qp_stat[t].qlen + d,
         \A p \in Paths \ {t} : qp_stat'[p].qlen = qp_stat[p].qlen,
         Outstanding(tot') = Outstanding(tot) + d
  PROVE  SumInv'
<1>1. PICK f, e : f = Qlens /\ e = Qlens'
  OBVIOUS
<1>2. e[t] = f[t] + d /\ \A p \in Paths \ {t} : e[p] = f[p]
  BY <1>1 DEF Qlens
<1>3. IsFiniteSet(Paths) /\ IntsOn(f, Paths)
  BY <1>1, QlensFinite
<1>4. SumFunctionOnSet(e, Paths) = SumFunctionOnSet(f, Paths) + d
  BY <1>2, <1>3, SumChange
<1> QED
  BY <1>1, <1>4 DEF SumInv

(* Nothing outstanding moves.                                               *)
LEMMA SumStays ==
  ASSUME SumInv, \A p \in Paths : qp_stat'[p].qlen = qp_stat[p].qlen,
         tot' = tot
  PROVE  SumInv'
<1>1. Qlens' = Qlens
  BY DEF Qlens
<1> QED
  BY <1>1 DEF SumInv, Outstanding

(* An inner poll takes a packet off a path and off the endpoint's count.    *)
LEMMA InnerPollSum ==
  ASSUME IndInv, SumInv, InnerPoll
  PROVE  SumInv'
<1> DEFINE t == poll_turn % active_num
<1>1. TypeOK /\ active_num = NumPath
  BY DEF IndInv, CallInv
<1>2. t \in Paths
  <2>1. poll_turn \in Nat /\ NumPath \in Nat \ {0}
    BY <1>1, EndpointAssumption DEF TypeOK, Paths
  <2> QED
    BY <1>1, <2>1, DivMod DEF Paths
<1>3. CASE Outstanding(tot) > 0 /\ cq[t] > 0
  <2>1. /\ qp_stat' = [qp_stat EXCEPT ![t] = Polled(qp_stat[t], t)]
        /\ tot' = [tot EXCEPT !.polled = tot.polled + 1]
    BY <1>3 DEF InnerPoll
  <2>2. qp_stat \in [Paths -> QpStatus] /\ qp_stat[t] \in QpStatus
        /\ qp_stat[t].qlen \in Nat /\ tot \in [posted : Nat, polled : Nat]
    BY <1>1, <1>2, QpTypes DEF TypeOK
  <2>3. qp_stat'[t].qlen = qp_stat[t].qlen + (-1)
    <3>1. Polled(qp_stat[t], t).qlen = qp_stat[t].qlen - 1
      BY <2>2 DEF Polled, QpStatus
    <3> QED
      BY <1>2, <2>1, <2>2, <3>1
  <2>4. \A p \in Paths \ {t} : qp_stat'[p].qlen = qp_stat[p].qlen
    BY <2>1, <2>2
  <2>5. Outstanding(tot') = Outstanding(tot) + (-1)
    BY <2>1, <2>2 DEF Outstanding
  <2> QED
    BY <1>1, <1>2, <2>3, <2>4, <2>5, SumMoves
<1>4. CASE ~(Outstanding(tot) > 0 /\ cq[t] > 0)
  <2>1. UNCHANGED <<qp_stat, tot>>
    BY <1>4 DEF InnerPoll
  <2> QED
    BY <2>1, SumStays
<1> QED
  BY <1>3, <1>4

(* The sum in every step.                                                   *)
LEMMA SumStep == IndInv /\ SumInv /\ [Next]_vars => SumInv'
<1> SUFFICES ASSUME IndInv, SumInv, [Next]_vars PROVE SumInv'
  OBVIOUS
<1>0. TypeOK
  BY DEF IndInv
<1>1. ASSUME NEW size \in Sizes, Post(size) PROVE SumInv'
  BY <1>1, SumStays DEF Post
<1>2. CASE PostPacket
  <2>1. PICK t \in Paths : t = post_turn
    BY <1>0 DEF TypeOK
  <2>2. qp_stat \in [Paths -> QpStatus] /\ qp_stat[t] \in QpStatus
        /\ qp_stat[t].qlen \in Nat /\ tot \in [posted : Nat, polled : Nat]
    BY <1>0, QpTypes DEF TypeOK
  <2>3. /\ qp_stat' = [qp_stat EXCEPT ![t] = [qp_stat[t] EXCEPT
                          !.posted = qp_stat[t].posted + 1,
                          !.qlen = qp_stat[t].qlen + 1]]
        /\ tot' = [tot EXCEPT !.posted = tot.posted + 1]
    BY <1>2, <2>1, <2>2 DEF PostPacket, QpStatus
  <2>4. qp_stat'[t].qlen = qp_stat[t].qlen + 1
    BY <2>2, <2>3 DEF QpStatus
  <2>5. \A p \in Paths \ {t} : qp_stat'[p].qlen = qp_stat[p].qlen
    BY <2>2, <2>3
  <2>6. Outstanding(tot') = Outstanding(tot) + 1
    BY <2>2, <2>3 DEF Outstanding
  <2> QED
    BY <1>0, <2>4, <2>5, <2>6, SumMoves
<1>3. CASE DrainPoll
  BY <1>3, InnerPollSum DEF DrainPoll
<1>4. CASE PollComplete
  <2>1. qp_stat \in [Paths -> QpStatus]
    BY <1>0 DEF TypeOK
  <2>2. ASSUME NEW p \in Paths
        PROVE  qp_stat'[p].qlen = qp_stat[p].qlen
    BY <1>4, <2>1 DEF PollComplete, QpStatus
  <2>3. tot' = tot
    BY <1>4 DEF PollComplete
  <2> QED
    BY <2>2, <2>3, SumStays
<1>5. CASE PollProgress
  BY <1>5, InnerPollSum DEF PollProgress
<1>6. ASSUME NEW p \in Paths, NicComplete(p) PROVE SumInv'
  BY <1>6, SumStays DEF NicComplete
<1>7. CASE UNCHANGED vars
  BY <1>7, SumStays DEF vars
<1> QED
  BY <1>1, <1>2, <1>3, <1>4, <1>5, <1>6, <1>7 DEF Next, AppNext

(* The posting loop never meets a full inner queue, whatever the loops and  *)
(* the polls leave outstanding on the paths: it adds up to what the loop    *)
(* counts, and the loop counts to max_outstd.                               *)
THEOREM QueuesHaveRoom ==
  ASSUME DepthFits, NoIdlePoll
  PROVE  Spec => []QueueBounded
<1>1. Init => SumInv
  <2> SUFFICES ASSUME Init PROVE SumInv
    OBVIOUS
  <2>1. TypeOK
    BY InitInv DEF IndInv
  <2>2. \A p \in Paths : Qlens[p] = 0
    BY DEF Init, Qlens
  <2>3. SumFunctionOnSet(Qlens, Paths) = 0
    BY <2>1, <2>2, QlensFinite, SumZero
  <2>4. Outstanding(tot) = 0
    BY DEF Init, Outstanding
  <2> QED
    BY <2>3, <2>4 DEF SumInv
<1>2. IndInv /\ SumInv => QueueBounded
  <2> SUFFICES ASSUME IndInv, SumInv PROVE QueueBounded
    OBVIOUS
  <2>1. CountInv /\ TypeOK
    BY DEF IndInv
  <2>2. DOMAIN Qlens = Paths
    BY DEF Qlens
  <2>3. SumFunction(Qlens) = Outstanding(tot)
    BY <2>2 DEF SumInv, SumFunction
  <2>4. ASSUME NEW p \in Paths
        PROVE  qp_stat[p].posted - qp_stat[p].tot_pkt = qp_stat[p].qlen
    BY <2>1, QpTypes DEF CountInv
  <2> QED
    BY <2>1, <2>3, <2>4 DEF QueueBounded, CountInv, Qlens
<1>3. Spec => []IndInv
  BY Invariance
<1> QED
  BY <1>1, <1>2, <1>3, SumStep, PTL DEF Spec
=============================================================================

------------------------- MODULE MprudTransferProofs -------------------------
(***************************************************************************)
(* The packets of a transfer meet the receives that were posted for them,  *)
(* for every number of paths, every limit on outstanding packets on either *)
(* side, every table length and depth, and every sequence of messages.     *)
(*                                                                         *)
(* The argument is on the positions of packets.  The k-th packet that a    *)
(* side gives to path p, from 0, is determined by the sizes of the         *)
(* messages alone (Index); both sides number the packets of a path the     *)
(* same way although neither knows what the other has posted; and a path   *)
(* keeps the order of its packets, so that the k-th receive is filled by   *)
(* the k-th packet, or by a later one when packets were lost.  What the    *)
(* polls do to the counters plays no part: a poll moves the posting loop   *)
(* on, whatever it finds.                                                  *)
(*                                                                         *)
(* The last part is for MprudFailoverProofs: the counters of an endpoint   *)
(* keep their types even when its polls follow no books.                   *)
(***************************************************************************)
EXTENDS MprudTransfer, MprudSplitProofs, SequenceTheorems, TLAPS

Packets == [msg : 0 .. MaxMsgs - 1, i : Nat]

CallType == [pc : {"idle", "post", "drain"}, i : Nat, iter : Nat, active : {NumPath}]

TableType ==
  [head : Nat, next : Nat, sqn : Nat,
   wqe : [0 .. TableLen - 1 -> [valid : {0, 1}, iter_each : [Paths -> Nat]]]]

(* The state of a side's posting loop: sqn messages of the sizes sz have    *)
(* been posted, the last of which it may still be cutting up.               *)
Posting(sz, sqn, call, turn, cum) ==
  /\ sz \in [1 .. MaxMsgs -> Sizes]
  /\ sqn \in 0 .. MaxMsgs
  /\ call \in CallType
  /\ turn \in Paths
  /\ cum \in Seq(Nat) /\ Len(cum) = sqn + 1 /\ cum[1] = 0
  /\ \A j, k \in 1 .. sqn + 1 : j < k => cum[j] < cum[k]
  /\ \A m \in 1 .. sqn : cum[m + 1] = cum[m] + IterEach(sz[m], NumPath)
  /\ call.pc = "idle" => turn = 0
  /\ call.pc # "idle" => /\ sqn > 0
                         /\ call.iter = IterEach(sz[sqn], NumPath) * NumPath
                         /\ call.i < call.iter
                         /\ turn = call.i % NumPath

(* The packets given to path p so far.                                      *)
Given(sqn, call, turn, cum, p) ==
  IF call.pc = "idle" THEN cum[sqn + 1]
  ELSE cum[sqn] + (call.i \div NumPath)
         + (IF p < turn \/ (p = turn /\ call.pc = "drain") THEN 1 ELSE 0)

(* ... counting the packet of the iteration, when a message is cut up.       *)
Round(sqn, call, turn, cum, p) ==
  cum[sqn] + (call.i \div NumPath) + (IF p <= turn THEN 1 ELSE 0)

ClientGiven(p) == Given(cl_table.sqn, cl_call, cl_post_turn, cl_cum, p)
ServerGiven(p) == Given(sv_table.sqn, sv_call, sv_post_turn, sv_cum, p)

(* The position of a packet among the packets of its path.                  *)
Index(cum, packet) == cum[packet.msg + 1] + (packet.i \div NumPath)

(* The packet is one of path p and of a message that is posted.             *)
Fits(cum, p, packet) ==
  /\ packet \in Packets
  /\ packet.msg + 2 <= Len(cum)
  /\ packet.i % NumPath = p
  /\ Index(cum, packet) < cum[packet.msg + 2]

(* Without loss a packet is where it is due, otherwise it may be further on.*)
Due(k, n) == IF MayOverrun THEN k >= n ELSE k = n

(* A queue of path p holds the packets number base, base + 1, ...           *)
InOrder(s, cum, p, base) ==
  \A j \in 1 .. Len(s) : /\ Fits(cum, p, s[j])
                         /\ Index(cum, s[j]) = base + j - 1

(* ... or, after losses, later ones.                                        *)
Arriving(s, cum, p, base) ==
  \A j \in 1 .. Len(s) : /\ Fits(cum, p, s[j])
                         /\ Due(Index(cum, s[j]), base + j - 1)

Met(l, p, k) ==
  /\ l \in [packet : Packets, meant : Packets]
  /\ Fits(cl_cum, p, l.packet) /\ Due(Index(cl_cum, l.packet), k)
  /\ Fits(sv_cum, p, l.meant) /\ Index(sv_cum, l.meant) = k

(* Both sides count the packets of the messages alike.                      *)
SameCount ==
  \A m \in 1 .. MaxMsgs + 1 :
    m <= Len(cl_cum) /\ m <= Len(sv_cum) => cl_cum[m] = sv_cum[m]

SidesInv ==
  /\ cl_active = NumPath /\ sv_active = NumPath
  /\ Posting(sizes, cl_table.sqn, cl_call, cl_post_turn, cl_cum)
  /\ Posting(sizes, sv_table.sqn, sv_call, sv_post_turn, sv_cum)
  /\ cl_table \in TableType /\ sv_table \in TableType
  /\ SameCount

QueueTypes ==
  /\ sq \in [Paths -> Seq(Packets)]
  /\ wire \in [Paths -> Seq(Packets)]
  /\ rq \in [Paths -> Seq(Packets)]
  /\ landed \in [Paths -> Seq([packet : Packets, meant : Packets])]

PathInv(p) ==
  /\ Due(ClientGiven(p), Len(landed[p]) + Len(wire[p]) + Len(sq[p]))
  /\ ServerGiven(p) = Len(landed[p]) + Len(rq[p])
  /\ InOrder(sq[p], cl_cum, p, ClientGiven(p) - Len(sq[p]))
  /\ Arriving(wire[p], cl_cum, p, Len(landed[p]))
  /\ InOrder(rq[p], sv_cum, p, Len(landed[p]))
  /\ \A k \in 1 .. Len(landed[p]) : Met(landed[p][k], p, k - 1)

IndInv ==
  /\ SidesInv
  /\ QueueTypes
  /\ \A p \in Paths : PathInv(p)

-----------------------------------------------------------------------------
(***************************************************************************)
(* The posting loop of one side.                                           *)
(***************************************************************************)

(* The parts of its state, one by one.                                      *)
LEMMA PostingFacts ==
  ASSUME NEW sz, NEW sqn, NEW call, NEW turn, NEW cum,
         Posting(sz, sqn, call, turn, cum)
  PROVE  /\ sqn \in Nat /\ sqn <= MaxMsgs
         /\ call.pc \in {"idle", "post", "drain"} /\ call.i \in Nat
         /\ call.iter \in Nat /\ call.active = NumPath
         /\ turn \in 0 .. NumPath - 1
         /\ \A m \in 1 .. sqn + 1 : cum[m] \in Nat
         /\ \A m \in 1 .. MaxMsgs : sz[m] \in Nat /\ sz[m] >= NumPath
                                    /\ IterEach(sz[m], NumPath) \in Nat \ {0}
<1> USE TransferAssumption
<1>1. \A m \in 1 .. MaxMsgs : sz[m] \in Nat /\ sz[m] >= NumPath
  BY DEF Posting
<1>2. \A m \in 1 .. MaxMsgs : IterEach(sz[m], NumPath) \in Nat \ {0}
  BY <1>1, IterEachPositive
<1>3. \A m \in 1 .. sqn + 1 : cum[m] \in Nat
  BY DEF Posting
<1> QED
  BY <1>1, <1>2, <1>3 DEF Posting, CallType, Paths

(* While a message is cut up: what is given to a path of its turn.          *)
LEMMA PostingRound ==
  ASSUME NEW sz, NEW sqn, NEW call, NEW turn, NEW cum,
         Posting(sz, sqn, call, turn, cum), call.pc # "idle"
  PROVE  /\ sqn \in 1 .. MaxMsgs
         /\ cum[sqn] \in Nat /\ cum[sqn + 1] \in Nat
         /\ call.i \in Nat
         /\ call.i \div NumPath \in Nat
         /\ cum[sqn] + (call.i \div NumPath) < cum[sqn + 1]
         /\ turn = call.i % NumPath
<1> USE TransferAssumption
<1> DEFINE n == IterEach(sz[sqn], NumPath)
<1>1. sqn \in 1 .. MaxMsgs /\ call.i \in Nat
  <2>1. call.i \in Nat
    BY PostingFacts
  <2>2. sqn \in 0 .. MaxMsgs /\ sqn > 0
    BY DEF Posting
  <2> QED
    BY ONLY <2>1, <2>2, TransferAssumption
<1>2. n \in Nat \ {0} /\ cum[sqn] \in Nat /\ cum[sqn + 1] \in Nat
  BY <1>1, PostingFacts
<1>3. cum[sqn + 1] = cum[sqn] + n
  BY <1>1 DEF Posting
<1>4. call.i < n * NumPath /\ turn = call.i % NumPath
  BY DEF Posting
<1>5. call.i \div NumPath < n /\ call.i \div NumPath \in Nat
  BY <1>1, <1>2, <1>4, RoundBound, DivMod
<1> QED
  BY <1>1, <1>2, <1>3, <1>4, <1>5

(* The posting loop has moved on to call2 and turn2, which gives path q     *)
(* nothing more than the packet of the iteration.                           *)
PostingMoved(sz, sqn, call, turn, cum, call2, turn2, q) ==
  /\ Posting(sz, sqn, call2, turn2, cum)
  /\ Given(sqn, call2, turn2, cum, q) = Round(sqn, call, turn, cum, q)

(* The end of an iteration: what is given stays given, whatever the turn.   *)
LEMMA NextPacketPosting ==
  ASSUME NEW sz, NEW sqn, NEW call, NEW turn, NEW cum, NEW call2, NEW turn2,
         NEW q \in Paths,
         Posting(sz, sqn, call, turn, cum), call.pc # "idle",
         call2 \in CallType, call2.i = call.i + 1, call2.iter = call.iter,
         call2.pc = (IF call.i + 1 = call.iter THEN "idle" ELSE "post"),
         turn2 = (turn + 1) % NumPath
  PROVE  PostingMoved(sz, sqn, call, turn, cum, call2, turn2, q)
<1> USE TransferAssumption
<1> DEFINE n == IterEach(sz[sqn], NumPath)
           i == call.i
<1>1. /\ sqn \in 1 .. MaxMsgs /\ i \in Nat /\ i \div NumPath \in Nat
      /\ cum[sqn] \in Nat /\ cum[sqn + 1] \in Nat
      /\ turn = i % NumPath /\ turn \in 0 .. NumPath - 1
  BY PostingRound, PostingFacts
<1>2. /\ n \in Nat \ {0} /\ cum[sqn + 1] = cum[sqn] + n
      /\ call.iter = n * NumPath /\ i < call.iter /\ call.iter \in Nat
  <2>1. n \in Nat \ {0} /\ call.iter \in Nat
    BY <1>1, PostingFacts
  <2>2. cum[sqn + 1] = cum[sqn] + n /\ call.iter = n * NumPath /\ i < call.iter
    BY <1>1 DEF Posting
  <2> QED
    BY <2>1, <2>2
<1>3. call2 \in CallType /\ call2.i = i + 1 /\ call2.iter = call.iter
      /\ call2.pc = (IF i + 1 = call.iter THEN "idle" ELSE "post")
  OBVIOUS
<1>4. /\ turn2 = (i + 1) % NumPath
      /\ turn2 = (IF turn + 1 = NumPath THEN 0 ELSE turn + 1)
      /\ (i + 1) \div NumPath = (IF turn + 1 = NumPath THEN (i \div NumPath) + 1
                                                       ELSE i \div NumPath)
  <2>1. turn2 = ((i % NumPath) + 1) % NumPath
    BY <1>1
  <2>2. /\ ((i % NumPath) + 1) % NumPath = (i + 1) % NumPath
        /\ (i + 1) % NumPath
             = (IF (i % NumPath) + 1 = NumPath THEN 0 ELSE (i % NumPath) + 1)
        /\ (i + 1) \div NumPath
             = (IF (i % NumPath) + 1 = NumPath THEN (i \div NumPath) + 1
                                               ELSE i \div NumPath)
    BY ONLY <1>1, ModSucc, TransferAssumption
  <2> QED
    BY ONLY <1>1, <2>1, <2>2
<1>5. turn2 \in Paths
  BY <1>1, <1>4 DEF Paths
<1>6. CASE i + 1 = call.iter
  <2>1. i + 1 = NumPath * n + 0 /\ i + 1 \in Nat /\ n \in Int /\ 0 \in 0 .. NumPath - 1
    BY <1>1, <1>2, <1>6
  <2>2. (i + 1) % NumPath = 0 /\ (i + 1) \div NumPath = n
    BY ONLY <2>1, DivModUnique, TransferAssumption
  <2>3. turn + 1 = NumPath /\ (i \div NumPath) + 1 = n
    BY <1>1, <1>4, <2>2
  <2>4. \A p \in Paths : p <= turn
    BY <1>1, <2>3 DEF Paths
  <2>5. call2.pc = "idle" /\ turn2 = 0
    BY <1>3, <1>4, <1>6, <2>2
  <2>6. Posting(sz, sqn, call2, turn2, cum)
    BY <1>3, <1>5, <2>5 DEF Posting
  <2>7. cum[sqn] + (i \div NumPath) + 1 = cum[sqn + 1]
    BY <1>1, <1>2, <2>3
  <2> QED
    BY <1>1, <2>4, <2>5, <2>6, <2>7 DEF Given, Round, PostingMoved
<1>7. CASE i + 1 # call.iter
  <2>1. call2.pc = "post" /\ i + 1 < call.iter
    BY <1>1, <1>2, <1>3, <1>7
  <2>2. Posting(sz, sqn, call2, turn2, cum)
    BY <1>1, <1>2, <1>3, <1>4, <1>5, <2>1 DEF Posting
  <2>3. \A p \in Paths :
          Given(sqn, call2, turn2, cum, p)
            = cum[sqn] + ((i + 1) \div NumPath) + (IF p < turn2 THEN 1 ELSE 0)
    BY <1>3, <2>1 DEF Given
  <2>4. \A p \in Paths :
          ((i + 1) \div NumPath) + (IF p < turn2 THEN 1 ELSE 0)
            = (i \div NumPath) + (IF p <= turn THEN 1 ELSE 0)
    BY <1>1, <1>4 DEF Paths
  <2> QED
    BY <1>1, <1>4, <2>2, <2>3, <2>4 DEF Round, PostingMoved
<1> QED
  BY <1>6, <1>7

(* The packet of an iteration is the next one of the path of the turn, and  *)
(* once it is given (given is the call after it) it counts for that path.   *)
PacketGiven(sz, sqn, call, turn, cum, packet, given, q) ==
  /\ turn \in Paths
  /\ Fits(cum, turn, packet)
  /\ Index(cum, packet) = Given(sqn, call, turn, cum, turn)
  /\ Posting(sz, sqn, given, turn, cum)
  /\ Round(sqn, call, turn, cum, q)
       = Given(sqn, call, turn, cum, q) + (IF q = turn THEN 1 ELSE 0)
  /\ Given(sqn, given, turn, cum, q) = Round(sqn, call, turn, cum, q)

(* The packet of the iteration is the next of its path on this side.        *)
LEMMA GivePacket ==
  ASSUME NEW sz, NEW sqn, NEW call, NEW turn, NEW cum, NEW packet, NEW given,
         NEW q \in Paths,
         Posting(sz, sqn, call, turn, cum), call.pc = "post",
         packet \in Packets, packet.msg = sqn - 1, packet.i = call.i,
         given \in CallType, given.pc = "drain", given.i = call.i,
         given.iter = call.iter
  PROVE  PacketGiven(sz, sqn, call, turn, cum, packet, given, q)
<1> USE TransferAssumption
<1>1. /\ sqn \in 1 .. MaxMsgs /\ call.i \in Nat /\ call.i \div NumPath \in Nat
      /\ cum[sqn] \in Nat /\ cum[sqn + 1] \in Nat
      /\ cum[sqn] + (call.i \div NumPath) < cum[sqn + 1]
      /\ turn = call.i % NumPath
  BY PostingRound
<1>2. turn \in Paths /\ turn \in 0 .. NumPath - 1 /\ Len(cum) = sqn + 1
  BY PostingFacts DEF Posting
<1>3. packet.msg = sqn - 1 /\ packet.i = call.i /\ packet \in Packets
  OBVIOUS
<1>4. packet.msg + 1 = sqn /\ packet.msg + 2 = sqn + 1
  BY <1>1, <1>3
<1>5. Index(cum, packet) = cum[sqn] + (call.i \div NumPath)
  BY <1>3, <1>4 DEF Index
<1>6. Fits(cum, turn, packet)
  BY <1>1, <1>2, <1>3, <1>4, <1>5 DEF Fits
<1>7. \A p \in Paths :
        Given(sqn, call, turn, cum, p)
          = cum[sqn] + (call.i \div NumPath) + (IF p < turn THEN 1 ELSE 0)
  BY DEF Given
<1>8. given.pc = "drain" /\ given.i = call.i /\ given.iter = call.iter
      /\ given \in CallType
  OBVIOUS
<1>9. Posting(sz, sqn, given, turn, cum)
  BY <1>8 DEF Posting
<1>10. \A p \in Paths :
         Given(sqn, given, turn, cum, p)
           = cum[sqn] + (call.i \div NumPath)
               + (IF p < turn \/ p = turn THEN 1 ELSE 0)
  BY <1>8 DEF Given
<1>11. \A p \in Paths : p < turn \/ p = turn <=> p <= turn
  BY <1>2 DEF Paths
<1>12. \A p \in Paths :
         cum[sqn] + (call.i \div NumPath) + (IF p <= turn THEN 1 ELSE 0)
           = cum[sqn] + (call.i \div NumPath) + (IF p < turn THEN 1 ELSE 0)
               + (IF p = turn THEN 1 ELSE 0)
  BY <1>1, <1>2 DEF Paths
<1>13. \A p \in Paths :
         Round(sqn, call, turn, cum, p)
           = Given(sqn, call, turn, cum, p) + (IF p = turn THEN 1 ELSE 0)
  BY <1>7, <1>12 DEF Round
<1>14. Given(sqn, call, turn, cum, turn) = cum[sqn] + (call.i \div NumPath)
  BY <1>1, <1>2, <1>7
<1> QED
  BY <1>2, <1>5, <1>6, <1>9, <1>10, <1>11, <1>13, <1>14 DEF Round, PacketGiven

(* A history of counts that another one continues.                          *)
Continues(cum2, cum) ==
  /\ Len(cum) \in Nat /\ Len(cum2) \in Nat /\ Len(cum) <= Len(cum2)
  /\ \A m \in 1 .. Len(cum) : cum2[m] = cum[m]

(* The message is posted: the history continues, and no path is given       *)
(* anything yet.                                                            *)
MessagePosted(sz, sqn, call, turn, cum, call2, cum2, q) ==
  /\ turn = 0 /\ 0 % NumPath = 0
  /\ Posting(sz, sqn + 1, call2, 0, cum2)
  /\ Continues(cum2, cum)
  /\ Len(cum2) = sqn + 2
  /\ cum2[sqn + 2] = cum[sqn + 1] + IterEach(sz[sqn + 1], NumPath)
  /\ Given(sqn + 1, call2, 0, cum2, q) = Given(sqn, call, turn, cum, q)

(* A message is posted between two calls.                                   *)
LEMMA PostMessage ==
  ASSUME NEW sz, NEW sqn, NEW call, NEW turn, NEW cum, NEW call2, NEW cum2,
         NEW q \in Paths,
         Posting(sz, sqn, call, turn, cum), call.pc = "idle", sqn < MaxMsgs,
         call2 \in CallType, call2.pc = "post", call2.i = 0,
         call2.iter = IterEach(sz[sqn + 1], NumPath) * NumPath,
         cum2 = Append(cum, cum[Len(cum)] + IterEach(sz[sqn + 1], NumPath))
  PROVE  MessagePosted(sz, sqn, call, turn, cum, call2, cum2, q)
<1> USE TransferAssumption
<1> DEFINE n == IterEach(sz[sqn + 1], NumPath)
<1>1. /\ sqn \in Nat /\ sqn + 1 \in 1 .. MaxMsgs /\ sqn + 1 \in 0 .. MaxMsgs
      /\ turn = 0 /\ Len(cum) = sqn + 1 /\ cum \in Seq(Nat)
  BY PostingFacts DEF Posting
<1>2. n \in Nat \ {0} /\ cum[sqn + 1] \in Nat
  BY <1>1, PostingFacts
<1>3. 0 % NumPath = 0 /\ 0 \div NumPath = 0 /\ 0 \in Paths
  <2>1. 0 = NumPath * 0 + 0 /\ 0 \in 0 .. NumPath - 1
    OBVIOUS
  <2> QED
    BY <2>1, DivModUnique DEF Paths
<1>4. PICK c \in Nat : c = cum[sqn + 1] + n
  BY <1>2
<1>5. /\ cum2 \in Seq(Nat) /\ Len(cum2) = sqn + 2 /\ cum2[sqn + 2] = c
      /\ \A m \in 1 .. sqn + 1 : cum2[m] = cum[m]
  <2>1. cum2 = Append(cum, c)
    BY <1>1, <1>4
  <2> QED
    BY ONLY <2>1, <1>1, c \in Nat
<1>6. Continues(cum2, cum)
  BY <1>1, <1>5 DEF Continues
<1>7. \A j, k \in 1 .. (sqn + 1) + 1 : j < k => cum2[j] < cum2[k]
  <2> SUFFICES ASSUME NEW j \in 1 .. sqn + 2, NEW k \in 1 .. sqn + 2, j < k
               PROVE  cum2[j] < cum2[k]
    BY <1>1
  <2>1. j \in 1 .. sqn + 1 /\ cum2[j] = cum[j] /\ cum[j] \in Nat
    <3>1. j \in 1 .. sqn + 1
      BY <1>1
    <3> QED
      BY <1>5, <3>1, PostingFacts
  <2>2. CASE k = sqn + 2
    <3>1. cum[j] <= cum[sqn + 1]
      <4>1. CASE j = sqn + 1
        BY <1>2, <4>1
      <4>2. CASE j # sqn + 1
        <5>1. j < sqn + 1 /\ sqn + 1 \in 1 .. sqn + 1
          BY <1>1, <2>1, <4>2
        <5>2. cum[j] < cum[sqn + 1]
          BY <2>1, <5>1 DEF Posting
        <5> QED
          BY <1>2, <2>1, <5>2
      <4> QED
        BY <4>1, <4>2
    <3>2. cum2[k] = c /\ cum[sqn + 1] < c
      BY ONLY <1>2, <1>4, <1>5, <2>2
    <3> QED
      BY ONLY <1>2, <2>1, <3>1, <3>2, c \in Nat
  <2>3. CASE k # sqn + 2
    <3>1. k \in 1 .. sqn + 1
      BY <1>1, <2>3
    <3> QED
      BY <1>5, <2>1, <3>1 DEF Posting
  <2> QED
    BY <2>2, <2>3
<1>8. \A m \in 1 .. sqn + 1 : cum2[m + 1] = cum2[m] + IterEach(sz[m], NumPath)
  <2> SUFFICES ASSUME NEW m \in 1 .. sqn + 1
               PROVE  cum2[m + 1] = cum2[m] + IterEach(sz[m], NumPath)
    OBVIOUS
  <2>1. CASE m = sqn + 1
    <3>1. m + 1 = sqn + 2 /\ cum2[m] = cum[sqn + 1]
      BY <1>1, <1>5, <2>1
    <3> QED
      BY <1>4, <1>5, <2>1, <3>1
  <2>2. CASE m # sqn + 1
    <3>1. m \in 1 .. sqn /\ m + 1 \in 1 .. sqn + 1
      BY <1>1, <2>2
    <3>2. cum[m + 1] = cum[m] + IterEach(sz[m], NumPath)
      BY <3>1 DEF Posting
    <3> QED
      BY <1>5, <3>1, <3>2
  <2> QED
    BY <2>1, <2>2
<1>9. call2.iter = n * NumPath /\ 0 < n * NumPath
  BY <1>2
<1>10. cum2[1] = 0
  BY <1>1, <1>5 DEF Posting
<1>11. Posting(sz, sqn + 1, call2, 0, cum2)
  BY <1>1, <1>3, <1>5, <1>7, <1>8, <1>9, <1>10 DEF Posting
<1>12. \A p \in Paths : Given(sqn + 1, call2, 0, cum2, p) = cum[sqn + 1]
  <2>1. \A p \in Paths : ~(p < 0)
    BY DEF Paths
  <2>2. cum2[sqn + 1] = cum[sqn + 1]
    BY <1>1, <1>5
  <2>3. \A p \in Paths :
          Given(sqn + 1, call2, 0, cum2, p)
            = cum2[sqn + 1] + (0 \div NumPath) + (IF p < 0 \/ (p = 0 /\ FALSE) THEN 1 ELSE 0)
    BY <1>9 DEF Given
  <2>4. \A p \in Paths :
          Given(sqn + 1, call2, 0, cum2, p) = cum[sqn + 1] + 0 + 0
    BY <1>3, <2>1, <2>2, <2>3
  <2> QED
    BY <1>2, <2>4
<1>13. \A p \in Paths : Given(sqn, call, turn, cum, p) = cum[sqn + 1]
  BY DEF Given
<1> QED
  BY <1>1, <1>3, <1>4, <1>5, <1>6, <1>11, <1>12, <1>13 DEF MessagePosted

-----------------------------------------------------------------------------
(***************************************************************************)
(* The queues of a path.                                                   *)
(***************************************************************************)

(* The position of a packet does not change when messages are posted.       *)
LEMMA StillFits ==
  ASSUME NEW cum, NEW cum2, NEW p, NEW packet,
         Continues(cum2, cum), Fits(cum, p, packet)
  PROVE  Fits(cum2, p, packet) /\ Index(cum2, packet) = Index(cum, packet)
<1>1. packet.msg \in 0 .. MaxMsgs - 1 /\ packet.msg + 2 <= Len(cum)
  BY DEF Fits, Packets
<1>2. /\ packet.msg + 1 \in 1 .. Len(cum) /\ packet.msg + 2 \in 1 .. Len(cum)
      /\ packet.msg + 2 <= Len(cum2)
  BY <1>1, TransferAssumption DEF Continues
<1>3. cum2[packet.msg + 1] = cum[packet.msg + 1] /\ cum2[packet.msg + 2] = cum[packet.msg + 2]
  BY <1>2 DEF Continues
<1>4. Index(cum2, packet) = Index(cum, packet)
  BY <1>3 DEF Index
<1> QED
  BY <1>2, <1>3, <1>4 DEF Fits

(* So the queues stay in order.                                             *)
LEMMA StillInOrder ==
  ASSUME NEW cum, NEW cum2, NEW p, NEW s, NEW base, Continues(cum2, cum)
  PROVE  /\ InOrder(s, cum, p, base) => InOrder(s, cum2, p, base)
         /\ Arriving(s, cum, p, base) => Arriving(s, cum2, p, base)
  BY StillFits DEF InOrder, Arriving

(* A queue that is in order stays so when the next packet is added ...      *)
LEMMA InOrderAppend ==
  ASSUME NEW cum, NEW p, NEW s \in Seq(Packets), NEW base \in Int, NEW packet,
         InOrder(s, cum, p, base), Fits(cum, p, packet),
         Index(cum, packet) = base + Len(s)
  PROVE  /\ Append(s, packet) \in Seq(Packets)
         /\ Len(Append(s, packet)) = Len(s) + 1
         /\ InOrder(Append(s, packet), cum, p, base)
<1>1. PICK x \in Packets : x = packet
  BY DEF Fits
<1>2. /\ Append(s, x) \in Seq(Packets) /\ Len(Append(s, x)) = Len(s) + 1
      /\ Append(s, x)[Len(s) + 1] = x /\ \A j \in 1 .. Len(s) : Append(s, x)[j] = s[j]
      /\ Len(s) \in Nat
  OBVIOUS
<1>3. ASSUME NEW j \in 1 .. Len(s) + 1
      PROVE  Fits(cum, p, Append(s, x)[j]) /\ Index(cum, Append(s, x)[j]) = base + j - 1
  <2>1. CASE j = Len(s) + 1
    <3>1. base + Len(s) = base + j - 1
      BY <1>2, <2>1
    <3> QED
      BY <1>1, <1>2, <2>1, <3>1
  <2>2. CASE j # Len(s) + 1
    <3>1. j \in 1 .. Len(s) /\ Append(s, x)[j] = s[j]
      BY <1>2, <2>2
    <3> QED
      BY <3>1 DEF InOrder
  <2> QED
    BY <2>1, <2>2
<1> QED
  BY <1>1, <1>2, <1>3 DEF InOrder

(* ... and when its first packet is taken.                                  *)
LEMMA InOrderTail ==
  ASSUME NEW cum, NEW p, NEW s \in Seq(Packets), NEW base \in Int,
         InOrder(s, cum, p, base), s # <<>>
  PROVE  /\ Head(s) \in Packets /\ Tail(s) \in Seq(Packets)
         /\ Len(Tail(s)) = Len(s) - 1
         /\ Fits(cum, p, Head(s)) /\ Index(cum, Head(s)) = base
         /\ InOrder(Tail(s), cum, p, base + 1)
<1>1. /\ Len(s) \in Nat \ {0} /\ Head(s) = s[1] /\ Head(s) \in Packets
      /\ Tail(s) \in Seq(Packets) /\ Len(Tail(s)) = Len(s) - 1
      /\ \A j \in 1 .. Len(s) - 1 : Tail(s)[j] = s[j + 1] /\ j + 1 \in 1 .. Len(s)
      /\ 1 \in 1 .. Len(s)
  OBVIOUS
<1>2. Fits(cum, p, s[1]) /\ Index(cum, s[1]) = base + 1 - 1
  BY <1>1 DEF InOrder
<1>3. ASSUME NEW j \in 1 .. Len(s) - 1
      PROVE  Fits(cum, p, Tail(s)[j]) /\ Index(cum, Tail(s)[j]) = (base + 1) + j - 1
  <2>1. Fits(cum, p, s[j + 1]) /\ Index(cum, s[j + 1]) = base + (j + 1) - 1
    BY <1>1 DEF InOrder
  <2>2. base + (j + 1) - 1 = (base + 1) + j - 1
    OBVIOUS
  <2> QED
    BY <1>1, <2>1, <2>2
<1> QED
  BY <1>1, <1>2, <1>3 DEF InOrder

(* The same of what is in flight: what comes last is due last ...           *)
LEMMA ArrivingAppend ==
  ASSUME NEW cum, NEW p, NEW s \in Seq(Packets), NEW base \in Int, NEW packet,
         Arriving(s, cum, p, base), Fits(cum, p, packet),
         Due(Index(cum, packet), base + Len(s))
  PROVE  /\ Append(s, packet) \in Seq(Packets)
         /\ Len(Append(s, packet)) = Len(s) + 1
         /\ Arriving(Append(s, packet), cum, p, base)
<1>1. PICK x \in Packets : x = packet
  BY DEF Fits
<1>2. /\ Append(s, x) \in Seq(Packets) /\ Len(Append(s, x)) = Len(s) + 1
      /\ Append(s, x)[Len(s) + 1] = x /\ \A j \in 1 .. Len(s) : Append(s, x)[j] = s[j]
      /\ Len(s) \in Nat
  OBVIOUS
<1>3. ASSUME NEW j \in 1 .. Len(s) + 1
      PROVE  /\ Fits(cum, p, Append(s, x)[j])
             /\ Due(Index(cum, Append(s, x)[j]), base + j - 1)
  <2>1. CASE j = Len(s) + 1
    <3>1. base + Len(s) = base + j - 1
      BY <1>2, <2>1
    <3> QED
      BY <1>1, <1>2, <2>1, <3>1
  <2>2. CASE j # Len(s) + 1
    <3>1. j \in 1 .. Len(s) /\ Append(s, x)[j] = s[j]
      BY <1>2, <2>2
    <3> QED
      BY <3>1 DEF Arriving
  <2> QED
    BY <2>1, <2>2
<1> QED
  BY <1>1, <1>2, <1>3 DEF Arriving

(* ... and when the first one arrives the next ones are due, while a loss   *)
(* only makes them later than they are due.                                 *)
LEMMA ArrivingTail ==
  ASSUME NEW cum, NEW p, NEW s \in Seq(Packets), NEW base \in Int,
         Arriving(s, cum, p, base), s # <<>>
  PROVE  /\ Head(s) \in Packets /\ Tail(s) \in Seq(Packets)
         /\ Len(Tail(s)) = Len(s) - 1 /\ Len(s) \in Nat
         /\ Fits(cum, p, Head(s)) /\ Due(Index(cum, Head(s)), base)
         /\ Arriving(Tail(s), cum, p, base + 1)
<1>1. /\ Len(s) \in Nat \ {0} /\ Head(s) = s[1] /\ Head(s) \in Packets
      /\ Tail(s) \in Seq(Packets) /\ Len(Tail(s)) = Len(s) - 1
      /\ \A j \in 1 .. Len(s) - 1 : Tail(s)[j] = s[j + 1] /\ j + 1 \in 1 .. Len(s)
      /\ 1 \in 1 .. Len(s) /\ base + 1 - 1 = base
  OBVIOUS
<1>2. Fits(cum, p, s[1]) /\ Due(Index(cum, s[1]), base)
  BY <1>1 DEF Arriving
<1>3. ASSUME NEW j \in 1 .. Len(s) - 1
      PROVE  Fits(cum, p, Tail(s)[j]) /\ Due(Index(cum, Tail(s)[j]), (base + 1) + j - 1)
  <2>1. Fits(cum, p, s[j + 1]) /\ Due(Index(cum, s[j + 1]), base + (j + 1) - 1)
    BY <1>1 DEF Arriving
  <2>2. base + (j + 1) - 1 = (base + 1) + j - 1
    OBVIOUS
  <2> QED
    BY <1>1, <2>1, <2>2
<1> QED
  BY <1>1, <1>2, <1>3 DEF Arriving

-----------------------------------------------------------------------------
(***************************************************************************)
(* The steps of either side.                                               *)
(***************************************************************************)

(* Both sides split a message the same way.                                 *)
LEMMA SameCut ==
  ASSUME NEW size, NEW active
  PROVE  /\ Client!IterEach(size, active) = IterEach(size, active)
         /\ Server!IterEach(size, active) = IterEach(size, active)
         /\ Client!Iter(size, active) = IterEach(size, active) * active
         /\ Server!Iter(size, active) = IterEach(size, active) * active
  BY DEF Client!IterEach, Server!IterEach, IterEach, Client!Iter, Server!Iter,
         Client!ChunkSize, Server!ChunkSize, ChunkSize

(* What the client does besides giving out a packet leaves every path with   *)
(* what it was given, and only continues the history.                       *)
LEMMA ClientMoves ==
  ASSUME SidesInv, UNCHANGED <<svVars, sizes>>,
         \/ ClientPosts
         \/ Client!DrainPoll
         \/ Client!PollComplete
         \/ Client!PollProgress
  PROVE  /\ SidesInv'
         /\ Continues(cl_cum', cl_cum)
         /\ \A p \in Paths : ClientGiven(p)' = ClientGiven(p)
<1> USE TransferAssumption
<1> DEFINE sqn == cl_table.sqn
<1>1. /\ Posting(sizes, sqn, cl_call, cl_post_turn, cl_cum)
      /\ Posting(sizes, sv_table.sqn, sv_call, sv_post_turn, sv_cum)
      /\ cl_active = NumPath /\ sv_active = NumPath
      /\ cl_table \in TableType /\ sv_table \in TableType /\ SameCount
  BY DEF SidesInv
<1>2. /\ sv_active' = sv_active /\ sv_table' = sv_table /\ sv_call' = sv_call
      /\ sv_post_turn' = sv_post_turn /\ sv_cum' = sv_cum /\ sizes' = sizes
  BY DEF svVars
<1>3. Continues(cl_cum, cl_cum)
  BY <1>1 DEF Posting, Continues
<1>4. ASSUME cl_active' = cl_active, cl_cum' = cl_cum, cl_call' = cl_call,
             cl_post_turn' = cl_post_turn, cl_table' \in TableType,
             cl_table'.sqn = sqn
      PROVE  SidesInv' /\ Continues(cl_cum', cl_cum)
             /\ \A p \in Paths : ClientGiven(p)' = ClientGiven(p)
  <2>1. SidesInv'
    BY <1>1, <1>2, <1>4 DEF SidesInv, SameCount
  <2>2. \A p \in Paths : ClientGiven(p)' = ClientGiven(p)
    BY <1>4 DEF ClientGiven
  <2> QED
    BY <1>3, <1>4, <2>1, <2>2
<1>5. CASE ClientPosts
  <2> DEFINE n == IterEach(sizes[sqn + 1], NumPath)
  <2>1. /\ cl_call.pc = "idle" /\ sqn < MaxMsgs
        /\ cl_active' = cl_active
        /\ cl_post_turn' = cl_post_turn % NumPath
        /\ cl_call' = [pc |-> "post", i |-> 0, iter |-> n * NumPath, active |-> NumPath]
        /\ cl_cum' = Append(cl_cum, cl_cum[Len(cl_cum)] + n)
    BY <1>1, <1>5, SameCut DEF ClientPosts, Client!Post
  <2>2. /\ cl_post_turn' = 0
        /\ Posting(sizes, sqn + 1, cl_call', cl_post_turn', cl_cum')
        /\ Continues(cl_cum', cl_cum)
        /\ Len(cl_cum') = sqn + 2
        /\ cl_cum'[sqn + 2] = cl_cum[sqn + 1] + n
        /\ \A p \in Paths : Given(sqn + 1, cl_call', cl_post_turn', cl_cum', p)
                              = Given(sqn, cl_call, cl_post_turn, cl_cum, p)
    <3>1. /\ cl_post_turn = 0 /\ 0 % NumPath = 0
          /\ Posting(sizes, sqn + 1, cl_call', 0, cl_cum')
          /\ Continues(cl_cum', cl_cum)
          /\ Len(cl_cum') = sqn + 2
          /\ cl_cum'[sqn + 2] = cl_cum[sqn + 1] + n
          /\ \A p \in Paths : Given(sqn + 1, cl_call', 0, cl_cum', p)
                                = Given(sqn, cl_call, cl_post_turn, cl_cum, p)
      <4>1. Posting(sizes, sqn, cl_call, cl_post_turn, cl_cum)
        BY <1>1
      <4>2. /\ cl_call.pc = "idle" /\ sqn < MaxMsgs
            /\ cl_cum' = Append(cl_cum, cl_cum[Len(cl_cum)] + n)
        BY <2>1
      <4>3. n * NumPath \in Nat
        <5>1. sqn + 1 \in 1 .. MaxMsgs
          BY <1>1, <2>1, SMTT(30) DEF Posting
        <5>2. n \in Nat
          BY <1>1, <5>1, PostingFacts
        <5> QED
          BY <5>2
      <4>4. /\ cl_call' \in CallType /\ cl_call'.pc = "post" /\ cl_call'.i = 0
            /\ cl_call'.iter = n * NumPath
        BY ONLY <2>1, <4>3 DEF CallType
      <4>5. ASSUME NEW p \in Paths
            PROVE  /\ cl_post_turn = 0 /\ 0 % NumPath = 0
                   /\ Posting(sizes, sqn + 1, cl_call', 0, cl_cum')
                   /\ Continues(cl_cum', cl_cum)
                   /\ Len(cl_cum') = sqn + 2
                   /\ cl_cum'[sqn + 2] = cl_cum[sqn + 1] + n
                   /\ Given(sqn + 1, cl_call', 0, cl_cum', p)
                         = Given(sqn, cl_call, cl_post_turn, cl_cum, p)
        <5>1. PICK call2, cum2 : call2 = cl_call' /\ cum2 = cl_cum'
          OBVIOUS
        <5>2. /\ cum2 = Append(cl_cum, cl_cum[Len(cl_cum)] + n)
              /\ call2 \in CallType /\ call2.pc = "post" /\ call2.i = 0
              /\ call2.iter = n * NumPath
          BY <4>2, <4>4, <5>1
        <5>3. MessagePosted(sizes, sqn, cl_call, cl_post_turn, cl_cum, call2, cum2, p)
          BY ONLY <4>1, <4>2, <5>2, p \in Paths, PostMessage
        <5> QED
          BY ONLY <5>1, <5>3 DEF MessagePosted
      <4>6. 0 \in Paths
        BY DEF Paths
      <4> QED
        BY ONLY <4>5, <4>6
    <3> QED
      BY <2>1, <3>1
  <2>3. cl_table' \in TableType /\ cl_table'.sqn = sqn + 1
    <3>1. PICK k \in Nat, next \in Nat, each \in [Paths -> Nat] :
            cl_table' = [cl_table EXCEPT !.next = next, !.sqn = sqn + 1,
                            !.wqe[k] = [valid |-> 1, iter_each |-> each]]
      <4>1. n \in Nat
        <5>1. sqn + 1 \in 1 .. MaxMsgs
          BY <1>1, <2>1, SMTT(30) DEF Posting
        <5> QED
          BY <1>1, <5>1, PostingFacts
      <4>2. /\ cl_table.next \in Nat /\ Client!Wrap(cl_table.next + 1) \in Nat
            /\ [p \in Paths |-> IF p < NumPath THEN n ELSE 0] \in [Paths -> Nat]
        BY <1>1, <4>1 DEF TableType, Client!Wrap
      <4>3. cl_table' = [cl_table EXCEPT !.next = Client!Wrap(cl_table.next + 1),
                            !.sqn = sqn + 1,
                            !.wqe[cl_table.next] =
                               [valid |-> 1,
                                iter_each |-> [p \in Paths |-> IF p < NumPath THEN n ELSE 0]]]
        BY <1>1, <1>5, SameCut DEF ClientPosts, Client!Post, Client!StoreWr, Client!Paths, Paths
      <4> QED
        BY <4>2, <4>3
    <3>2. /\ cl_table.wqe \in [0 .. TableLen - 1
                                  -> [valid : {0, 1}, iter_each : [Paths -> Nat]]]
          /\ cl_table.head \in Nat /\ sqn + 1 \in Nat
      BY <1>1 DEF TableType
    <3>3. [valid |-> 1, iter_each |-> each] \in [valid : {0, 1}, iter_each : [Paths -> Nat]]
      OBVIOUS
    <3> QED
      BY <1>1, <3>1, <3>2, <3>3 DEF TableType
  <2>4. SameCount'
    <3> SUFFICES ASSUME NEW m \in 1 .. MaxMsgs + 1, m <= Len(cl_cum'), m <= Len(sv_cum)
                 PROVE  cl_cum'[m] = sv_cum[m]
      BY <1>2 DEF SameCount
    <3>1. sqn \in Nat /\ Len(cl_cum) = sqn + 1 /\ sqn + 1 \in 1 .. MaxMsgs
      BY <1>1, <2>1, PostingFacts, SMTT(30) DEF Posting
    <3>2. CASE m <= sqn + 1
      <4>1. m <= Len(cl_cum) /\ m \in 1 .. Len(cl_cum)
        BY <3>1, <3>2
      <4>2. cl_cum'[m] = cl_cum[m]
        BY <2>2, <4>1 DEF Continues
      <4>3. cl_cum[m] = sv_cum[m]
        BY <1>1, <4>1 DEF SameCount
      <4> QED
        BY <4>2, <4>3
    <3>3. CASE m > sqn + 1
      <4>1. m = sqn + 2
        BY <2>2, <3>1, <3>3
      <4>2. /\ sqn + 1 \in 1 .. sv_table.sqn /\ sqn + 1 \in 1 .. MaxMsgs + 1
            /\ sqn + 1 <= Len(sv_cum) /\ sqn + 1 <= Len(cl_cum)
        <5>1. Len(sv_cum) = sv_table.sqn + 1 /\ sv_table.sqn \in Nat
          BY <1>1, PostingFacts DEF Posting
        <5> QED
          BY <3>1, <4>1, <5>1, SMTT(30)
      <4>3. sv_cum[(sqn + 1) + 1] = sv_cum[sqn + 1] + n
        BY <1>1, <4>2 DEF Posting
      <4>4. sv_cum[sqn + 1] = cl_cum[sqn + 1]
        BY <1>1, <4>2 DEF SameCount
      <4>5. (sqn + 1) + 1 = m
        BY <3>1, <4>1
      <4> QED
        BY <2>2, <4>1, <4>3, <4>4, <4>5
    <3> QED
      BY <3>1, <3>2, <3>3
  <2>5. SidesInv'
    BY <1>1, <1>2, <2>1, <2>2, <2>3, <2>4 DEF SidesInv
  <2>6. \A p \in Paths : ClientGiven(p)' = ClientGiven(p)
    BY <2>2, <2>3 DEF ClientGiven
  <2> QED
    BY <2>2, <2>5, <2>6
<1>6. CASE Client!DrainPoll
  <2>1. /\ cl_call.pc = "drain" /\ UNCHANGED <<cl_active, cl_table, cl_cum>>
        /\ UNCHANGED <<cl_call, cl_post_turn>> \/ Client!NextPacket
    BY <1>6 DEF Client!DrainPoll
  <2>2. CASE UNCHANGED <<cl_call, cl_post_turn>>
    BY <1>1, <1>4, <2>1, <2>2
  <2>3. CASE Client!NextPacket
    <3>1. /\ cl_call' = [cl_call EXCEPT !.i = cl_call.i + 1,
               !.pc = IF cl_call.i + 1 = cl_call.iter THEN "idle" ELSE "post"]
          /\ cl_post_turn' = (cl_post_turn + 1) % NumPath
      BY <1>1, <2>3, PostingFacts DEF Client!NextPacket
    <3>2. cl_call.pc # "idle"
      BY <2>1
    <3>3. /\ Posting(sizes, sqn, cl_call', cl_post_turn', cl_cum)
          /\ \A p \in Paths :
               Given(sqn, cl_call', cl_post_turn', cl_cum, p)
                 = Round(sqn, cl_call, cl_post_turn, cl_cum, p)
      <4>1. Posting(sizes, sqn, cl_call, cl_post_turn, cl_cum)
        BY <1>1
      <4>2. /\ cl_call' \in CallType /\ cl_call'.i = cl_call.i + 1
            /\ cl_call'.iter = cl_call.iter
            /\ cl_call'.pc = (IF cl_call.i + 1 = cl_call.iter THEN "idle" ELSE "post")
        <5>1. cl_call \in [pc : {"idle", "post", "drain"}, i : Nat, iter : Nat,
                          active : {NumPath}]
          BY <4>1 DEF Posting, CallType
        <5>2. cl_call.i + 1 \in Nat
          BY <5>1
        <5> QED
          BY ONLY <3>1, <5>1, <5>2 DEF CallType
      <4>3. ASSUME NEW p \in Paths
            PROVE  /\ Posting(sizes, sqn, cl_call', cl_post_turn', cl_cum)
                   /\ Given(sqn, cl_call', cl_post_turn', cl_cum, p)
                        = Round(sqn, cl_call, cl_post_turn, cl_cum, p)
        <5>1. PICK call2, turn2 : call2 = cl_call' /\ turn2 = cl_post_turn'
          OBVIOUS
        <5>2. /\ call2 \in CallType /\ call2.i = cl_call.i + 1
              /\ call2.iter = cl_call.iter
              /\ call2.pc = (IF cl_call.i + 1 = cl_call.iter THEN "idle" ELSE "post")
              /\ turn2 = (cl_post_turn + 1) % NumPath
          BY <3>1, <4>2, <5>1
        <5>3. PostingMoved(sizes, sqn, cl_call, cl_post_turn, cl_cum, call2, turn2, p)
          BY ONLY <3>2, <4>1, <5>2, p \in Paths, NextPacketPosting
        <5> QED
          BY ONLY <5>1, <5>3 DEF PostingMoved
      <4>4. 0 \in Paths
        BY DEF Paths
      <4> QED
        BY ONLY <4>3, <4>4
    <3>4. \A p \in Paths : p < cl_post_turn \/ p = cl_post_turn <=> p <= cl_post_turn
      BY <1>1 DEF Posting, Paths
    <3>5. \A p \in Paths :
            Given(sqn, cl_call, cl_post_turn, cl_cum, p)
              = Round(sqn, cl_call, cl_post_turn, cl_cum, p)
      BY <2>1, <3>4 DEF Given, Round
    <3>6. \A p \in Paths : ClientGiven(p)' = ClientGiven(p)
      BY <2>1, <3>3, <3>5 DEF ClientGiven
    <3>7. SidesInv'
      BY <1>1, <1>2, <2>1, <3>3 DEF SidesInv, SameCount
    <3> QED
      BY <1>3, <2>1, <3>6, <3>7
  <2> QED
    BY <2>1, <2>2, <2>3
<1>7. CASE Client!PollComplete
  <2>1. /\ UNCHANGED <<cl_active, cl_post_turn, cl_call, cl_cum>>
        /\ cl_table' = [cl_table EXCEPT !.wqe[cl_table.head].valid = 0,
                                        !.head = Client!Wrap(cl_table.head + 1)]
    BY <1>7 DEF Client!PollComplete
  <2>2. /\ cl_table.head \in Nat /\ Client!Wrap(cl_table.head + 1) \in Nat
        /\ cl_table.wqe \in [0 .. TableLen - 1
                                -> [valid : {0, 1}, iter_each : [Paths -> Nat]]]
    BY <1>1 DEF TableType, Client!Wrap
  <2>3. PICK h \in Nat, w \in [0 .. TableLen - 1
                               -> [valid : {0, 1}, iter_each : [Paths -> Nat]]] :
          cl_table' = [cl_table EXCEPT !.wqe = w, !.head = h]
    <3>1. [cl_table.wqe EXCEPT ![cl_table.head].valid = 0]
            \in [0 .. TableLen - 1 -> [valid : {0, 1}, iter_each : [Paths -> Nat]]]
      BY <2>2
    <3>2. cl_table' = [cl_table EXCEPT
                !.wqe = [cl_table.wqe EXCEPT ![cl_table.head].valid = 0],
                !.head = Client!Wrap(cl_table.head + 1)]
      BY <2>1
    <3> QED
      BY <2>2, <3>1, <3>2
  <2>4. cl_table \in TableType
    BY <1>1
  <2>5. cl_table' \in TableType /\ cl_table'.sqn = sqn
    BY ONLY <2>3, <2>4 DEF TableType
  <2> QED
    BY <1>4, <2>1, <2>5
<1>8. CASE Client!PollProgress
  BY <1>1, <1>4, <1>8 DEF Client!PollProgress
<1> QED
  BY <1>5, <1>6, <1>7, <1>8

(* What the server does besides giving out a packet leaves every path with   *)
(* what it was given, and only continues the history.                       *)
LEMMA ServerMoves ==
  ASSUME SidesInv, UNCHANGED <<clVars, sizes>>,
         \/ ServerPosts
         \/ Server!DrainPoll
         \/ Server!PollComplete
         \/ Server!PollProgress
  PROVE  /\ SidesInv'
         /\ Continues(sv_cum', sv_cum)
         /\ \A p \in Paths : ServerGiven(p)' = ServerGiven(p)
<1> USE TransferAssumption
<1> DEFINE sqn == sv_table.sqn
<1>1. /\ Posting(sizes, sqn, sv_call, sv_post_turn, sv_cum)
      /\ Posting(sizes, cl_table.sqn, cl_call, cl_post_turn, cl_cum)
      /\ sv_active = NumPath /\ cl_active = NumPath
      /\ sv_table \in TableType /\ cl_table \in TableType /\ SameCount
  BY DEF SidesInv
<1>2. /\ cl_active' = cl_active /\ cl_table' = cl_table /\ cl_call' = cl_call
      /\ cl_post_turn' = cl_post_turn /\ cl_cum' = cl_cum /\ sizes' = sizes
  BY DEF clVars
<1>3. Continues(sv_cum, sv_cum)
  BY <1>1 DEF Posting, Continues
<1>4. ASSUME sv_active' = sv_active, sv_cum' = sv_cum, sv_call' = sv_call,
             sv_post_turn' = sv_post_turn, sv_table' \in TableType,
             sv_table'.sqn = sqn
      PROVE  SidesInv' /\ Continues(sv_cum', sv_cum)
             /\ \A p \in Paths : ServerGiven(p)' = ServerGiven(p)
  <2>1. SidesInv'
    BY <1>1, <1>2, <1>4 DEF SidesInv, SameCount
  <2>2. \A p \in Paths : ServerGiven(p)' = ServerGiven(p)
    BY <1>4 DEF ServerGiven
  <2> QED
    BY <1>3, <1>4, <2>1, <2>2
<1>5. CASE ServerPosts
  <2> DEFINE n == IterEach(sizes[sqn + 1], NumPath)
  <2>1. /\ sv_call.pc = "idle" /\ sqn < MaxMsgs
        /\ sv_active' = sv_active
        /\ sv_post_turn' = sv_post_turn % NumPath
        /\ sv_call' = [pc |-> "post", i |-> 0, iter |-> n * NumPath, active |-> NumPath]
        /\ sv_cum' = Append(sv_cum, sv_cum[Len(sv_cum)] + n)
    BY <1>1, <1>5, SameCut DEF ServerPosts, Server!Post
  <2>2. /\ sv_post_turn' = 0
        /\ Posting(sizes, sqn + 1, sv_call', sv_post_turn', sv_cum')
        /\ Continues(sv_cum', sv_cum)
        /\ Len(sv_cum') = sqn + 2
        /\ sv_cum'[sqn + 2] = sv_cum[sqn + 1] + n
        /\ \A p \in Paths : Given(sqn + 1, sv_call', sv_post_turn', sv_cum', p)
                              = Given(sqn, sv_call, sv_post_turn, sv_cum, p)
    <3>1. /\ sv_post_turn = 0 /\ 0 % NumPath = 0
          /\ Posting(sizes, sqn + 1, sv_call', 0, sv_cum')
          /\ Continues(sv_cum', sv_cum)
          /\ Len(sv_cum') = sqn + 2
          /\ sv_cum'[sqn + 2] = sv_cum[sqn + 1] + n
          /\ \A p \in Paths : Given(sqn + 1, sv_call', 0, sv_cum', p)
                                = Given(sqn, sv_call, sv_post_turn, sv_cum, p)
      <4>1. Posting(sizes, sqn, sv_call, sv_post_turn, sv_cum)
        BY <1>1
      <4>2. /\ sv_call.pc = "idle" /\ sqn < MaxMsgs
            /\ sv_cum' = Append(sv_cum, sv_cum[Len(sv_cum)] + n)
        BY <2>1
      <4>3. n * NumPath \in Nat
        <5>1. sqn + 1 \in 1 .. MaxMsgs
          BY <1>1, <2>1, SMTT(30) DEF Posting
        <5>2. n \in Nat
          BY <1>1, <5>1, PostingFacts
        <5> QED
          BY <5>2
      <4>4. /\ sv_call' \in CallType /\ sv_call'.pc = "post" /\ sv_call'.i = 0
            /\ sv_call'.iter = n * NumPath
        BY ONLY <2>1, <4>3 DEF CallType
      <4>5. ASSUME NEW p \in Paths
            PROVE  /\ sv_post_turn = 0 /\ 0 % NumPath = 0
                   /\ Posting(sizes, sqn + 1, sv_call', 0, sv_cum')
                   /\ Continues(sv_cum', sv_cum)
                   /\ Len(sv_cum') = sqn + 2
                   /\ sv_cum'[sqn + 2] = sv_cum[sqn + 1] + n
                   /\ Given(sqn + 1, sv_call', 0, sv_cum', p)
                         = Given(sqn, sv_call, sv_post_turn, sv_cum, p)
        <5>1. PICK call2, cum2 : call2 = sv_call' /\ cum2 = sv_cum'
          OBVIOUS
        <5>2. /\ cum2 = Append(sv_cum, sv_cum[Len(sv_cum)] + n)
              /\ call2 \in CallType /\ call2.pc = "post" /\ call2.i = 0
              /\ call2.iter = n * NumPath
          BY <4>2, <4>4, <5>1
        <5>3. MessagePosted(sizes, sqn, sv_call, sv_post_turn, sv_cum, call2, cum2, p)
          BY ONLY <4>1, <4>2, <5>2, p \in Paths, PostMessage
        <5> QED
          BY ONLY <5>1, <5>3 DEF MessagePosted
      <4>6. 0 \in Paths
        BY DEF Paths
      <4> QED
        BY ONLY <4>5, <4>6
    <3> QED
      BY <2>1, <3>1
  <2>3. sv_table' \in TableType /\ sv_table'.sqn = sqn + 1
    <3>1. PICK k \in Nat, next \in Nat, each \in [Paths -> Nat] :
            sv_table' = [sv_table EXCEPT !.next = next, !.sqn = sqn + 1,
                            !.wqe[k] = [valid |-> 1, iter_each |-> each]]
      <4>1. n \in Nat
        <5>1. sqn + 1 \in 1 .. MaxMsgs
          BY <1>1, <2>1, SMTT(30) DEF Posting
        <5> QED
          BY <1>1, <5>1, PostingFacts
      <4>2. /\ sv_table.next \in Nat /\ Server!Wrap(sv_table.next + 1) \in Nat
            /\ [p \in Paths |-> IF p < NumPath THEN n ELSE 0] \in [Paths -> Nat]
        BY <1>1, <4>1 DEF TableType, Server!Wrap
      <4>3. sv_table' = [sv_table EXCEPT !.next = Server!Wrap(sv_table.next + 1),
                            !.sqn = sqn + 1,
                            !.wqe[sv_table.next] =
                               [valid |-> 1,
                                iter_each |-> [p \in Paths |-> IF p < NumPath THEN n ELSE 0]]]
        BY <1>1, <1>5, SameCut DEF ServerPosts, Server!Post, Server!StoreWr, Server!Paths, Paths
      <4> QED
        BY <4>2, <4>3
    <3>2. /\ sv_table.wqe \in [0 .. TableLen - 1
                                  -> [valid : {0, 1}, iter_each : [Paths -> Nat]]]
          /\ sv_table.head \in Nat /\ sqn + 1 \in Nat
      BY <1>1 DEF TableType
    <3>3. [valid |-> 1, iter_each |-> each] \in [valid : {0, 1}, iter_each : [Paths -> Nat]]
      OBVIOUS
    <3> QED
      BY <1>1, <3>1, <3>2, <3>3 DEF TableType
  <2>4. SameCount'
    <3> SUFFICES ASSUME NEW m \in 1 .. MaxMsgs + 1, m <= Len(sv_cum'), m <= Len(cl_cum)
                 PROVE  sv_cum'[m] = cl_cum[m]
      BY <1>2 DEF SameCount
    <3>1. sqn \in Nat /\ Len(sv_cum) = sqn + 1 /\ sqn + 1 \in 1 .. MaxMsgs
      BY <1>1, <2>1, PostingFacts, SMTT(30) DEF Posting
    <3>2. CASE m <= sqn + 1
      <4>1. m <= Len(sv_cum) /\ m \in 1 .. Len(sv_cum)
        BY <3>1, <3>2
      <4>2. sv_cum'[m] = sv_cum[m]
        BY <2>2, <4>1 DEF Continues
      <4>3. sv_cum[m] = cl_cum[m]
        BY <1>1, <4>1 DEF SameCount
      <4> QED
        BY <4>2, <4>3
    <3>3. CASE m > sqn + 1
      <4>1. m = sqn + 2
        BY <2>2, <3>1, <3>3
      <4>2. /\ sqn + 1 \in 1 .. cl_table.sqn /\ sqn + 1 \in 1 .. MaxMsgs + 1
            /\ sqn + 1 <= Len(cl_cum) /\ sqn + 1 <= Len(sv_cum)
        <5>1. Len(cl_cum) = cl_table.sqn + 1 /\ cl_table.sqn \in Nat
          BY <1>1, PostingFacts DEF Posting
        <5> QED
          BY <3>1, <4>1, <5>1, SMTT(30)
      <4>3. cl_cum[(sqn + 1) + 1] = cl_cum[sqn + 1] + n
        BY <1>1, <4>2 DEF Posting
      <4>4. cl_cum[sqn + 1] = sv_cum[sqn + 1]
        BY <1>1, <4>2 DEF SameCount
      <4>5. (sqn + 1) + 1 = m
        BY <3>1, <4>1
      <4> QED
        BY <2>2, <4>1, <4>3, <4>4, <4>5
    <3> QED
      BY <3>1, <3>2, <3>3
  <2>5. SidesInv'
    BY <1>1, <1>2, <2>1, <2>2, <2>3, <2>4 DEF SidesInv
  <2>6. \A p \in Paths : ServerGiven(p)' = ServerGiven(p)
    BY <2>2, <2>3 DEF ServerGiven
  <2> QED
    BY <2>2, <2>5, <2>6
<1>6. CASE Server!DrainPoll
  <2>1. /\ sv_call.pc = "drain" /\ UNCHANGED <<sv_active, sv_table, sv_cum>>
        /\ UNCHANGED <<sv_call, sv_post_turn>> \/ Server!NextPacket
    BY <1>6 DEF Server!DrainPoll
  <2>2. CASE UNCHANGED <<sv_call, sv_post_turn>>
    BY <1>1, <1>4, <2>1, <2>2
  <2>3. CASE Server!NextPacket
    <3>1. /\ sv_call' = [sv_call EXCEPT !.i = sv_call.i + 1,
               !.pc = IF sv_call.i + 1 = sv_call.iter THEN "idle" ELSE "post"]
          /\ sv_post_turn' = (sv_post_turn + 1) % NumPath
      BY <1>1, <2>3, PostingFacts DEF Server!NextPacket
    <3>2. sv_call.pc # "idle"
      BY <2>1
    <3>3. /\ Posting(sizes, sqn, sv_call', sv_post_turn', sv_cum)
          /\ \A p \in Paths :
               Given(sqn, sv_call', sv_post_turn', sv_cum, p)
                 = Round(sqn, sv_call, sv_post_turn, sv_cum, p)
      <4>1. Posting(sizes, sqn, sv_call, sv_post_turn, sv_cum)
        BY <1>1
      <4>2. /\ sv_call' \in CallType /\ sv_call'.i = sv_call.i + 1
            /\ sv_call'.iter = sv_call.iter
            /\ sv_call'.pc = (IF sv_call.i + 1 = sv_call.iter THEN "idle" ELSE "post")
        <5>1. sv_call \in [pc : {"idle", "post", "drain"}, i : Nat, iter : Nat,
                          active : {NumPath}]
          BY <4>1 DEF Posting, CallType
        <5>2. sv_call.i + 1 \in Nat
          BY <5>1
        <5> QED
          BY ONLY <3>1, <5>1, <5>2 DEF CallType
      <4>3. ASSUME NEW p \in Paths
            PROVE  /\ Posting(sizes, sqn, sv_call', sv_post_turn', sv_cum)
                   /\ Given(sqn, sv_call', sv_post_turn', sv_cum, p)
                        = Round(sqn, sv_call, sv_post_turn, sv_cum, p)
        <5>1. PICK call2, turn2 : call2 = sv_call' /\ turn2 = sv_post_turn'
          OBVIOUS
        <5>2. /\ call2 \in CallType /\ call2.i = sv_call.i + 1
              /\ call2.iter = sv_call.iter
              /\ call2.pc = (IF sv_call.i + 1 = sv_call.iter THEN "idle" ELSE "post")
              /\ turn2 = (sv_post_turn + 1) % NumPath
          BY <3>1, <4>2, <5>1
        <5>3. PostingMoved(sizes, sqn, sv_call, sv_post_turn, sv_cum, call2, turn2, p)
          BY ONLY <3>2, <4>1, <5>2, p \in Paths, NextPacketPosting
        <5> QED
          BY ONLY <5>1, <5>3 DEF PostingMoved
      <4>4. 0 \in Paths
        BY DEF Paths
      <4> QED
        BY ONLY <4>3, <4>4
    <3>4. \A p \in Paths : p < sv_post_turn \/ p = sv_post_turn <=> p <= sv_post_turn
      BY <1>1 DEF Posting, Paths
    <3>5. \A p \in Paths :
            Given(sqn, sv_call, sv_post_turn, sv_cum, p)
              = Round(sqn, sv_call, sv_post_turn, sv_cum, p)
      BY <2>1, <3>4 DEF Given, Round
    <3>6. \A p \in Paths : ServerGiven(p)' = ServerGiven(p)
      BY <2>1, <3>3, <3>5 DEF ServerGiven
    <3>7. SidesInv'
      BY <1>1, <1>2, <2>1, <3>3 DEF SidesInv, SameCount
    <3> QED
      BY <1>3, <2>1, <3>6, <3>7
  <2> QED
    BY <2>1, <2>2, <2>3
<1>7. CASE Server!PollComplete
  <2>1. /\ UNCHANGED <<sv_active, sv_post_turn, sv_call, sv_cum>>
        /\ sv_table' = [sv_table EXCEPT !.wqe[sv_table.head].valid = 0,
                                        !.head = Server!Wrap(sv_table.head + 1)]
    BY <1>7 DEF Server!PollComplete
  <2>2. /\ sv_table.head \in Nat /\ Server!Wrap(sv_table.head + 1) \in Nat
        /\ sv_table.wqe \in [0 .. TableLen - 1
                                -> [valid : {0, 1}, iter_each : [Paths -> Nat]]]
    BY <1>1 DEF TableType, Server!Wrap
  <2>3. PICK h \in Nat, w \in [0 .. TableLen - 1
                               -> [valid : {0, 1}, iter_each : [Paths -> Nat]]] :
          sv_table' = [sv_table EXCEPT !.wqe = w, !.head = h]
    <3>1. [sv_table.wqe EXCEPT ![sv_table.head].valid = 0]
            \in [0 .. TableLen - 1 -> [valid : {0, 1}, iter_each : [Paths -> Nat]]]
      BY <2>2
    <3>2. sv_table' = [sv_table EXCEPT
                !.wqe = [sv_table.wqe EXCEPT ![sv_table.head].valid = 0],
                !.head = Server!Wrap(sv_table.head + 1)]
      BY <2>1
    <3> QED
      BY <2>2, <3>1, <3>2
  <2>4. sv_table \in TableType
    BY <1>1
  <2>5. sv_table' \in TableType /\ sv_table'.sqn = sqn
    BY ONLY <2>3, <2>4 DEF TableType
  <2> QED
    BY <1>4, <2>1, <2>5
<1>8. CASE Server!PollProgress
  BY <1>1, <1>4, <1>8 DEF Server!PollProgress
<1> QED
  BY <1>5, <1>6, <1>7, <1>8

(* The client gives the packet of the iteration to the path of its turn.     *)
LEMMA ClientGives ==
  ASSUME SidesInv, Client!PostPacket, UNCHANGED <<svVars, sizes>>
  PROVE  LET t == cl_post_turn
             packet == Packet(cl_table.sqn - 1, cl_call.i)
         IN  /\ SidesInv'
             /\ cl_cum' = cl_cum
             /\ t \in Paths
             /\ Fits(cl_cum, t, packet)
             /\ Index(cl_cum, packet) = ClientGiven(t)
             /\ \A p \in Paths : ClientGiven(p)' = ClientGiven(p) + (IF p = t THEN 1 ELSE 0)
<1> USE TransferAssumption
<1> DEFINE sqn == cl_table.sqn
           t == cl_post_turn
           packet == Packet(sqn - 1, cl_call.i)
<1>1. /\ Posting(sizes, sqn, cl_call, t, cl_cum)
      /\ Posting(sizes, sv_table.sqn, sv_call, sv_post_turn, sv_cum)
      /\ cl_active = NumPath /\ sv_active = NumPath
      /\ cl_table \in TableType /\ sv_table \in TableType /\ SameCount
  BY DEF SidesInv
<1>2. /\ sv_active' = sv_active /\ sv_table' = sv_table /\ sv_call' = sv_call
      /\ sv_post_turn' = sv_post_turn /\ sv_cum' = sv_cum /\ sizes' = sizes
  BY DEF svVars
<1>3. /\ cl_call.pc = "post"
      /\ UNCHANGED <<cl_active, cl_table, cl_cum>>
      /\ \/ cl_call' = [cl_call EXCEPT !.pc = "drain"] /\ cl_post_turn' = t
         \/ Client!NextPacket
  BY DEF Client!PostPacket
<1>4. PICK given : given = [cl_call EXCEPT !.pc = "drain"]
  OBVIOUS
<1>5. cl_call \in [pc : {"idle", "post", "drain"}, i : Nat, iter : Nat, active : {NumPath}]
  BY <1>1 DEF Posting, CallType
<1>6. /\ given \in CallType /\ given.pc = "drain" /\ given.i = cl_call.i
      /\ given.iter = cl_call.iter
  BY ONLY <1>4, <1>5 DEF CallType
<1>7. /\ packet \in Packets /\ packet.msg = sqn - 1 /\ packet.i = cl_call.i
  <2>1. sqn \in 1 .. MaxMsgs /\ cl_call.i \in Nat
    <3>1. cl_call.pc # "idle"
      BY <1>3
    <3> QED
      BY ONLY <1>1, <3>1, PostingRound
  <2> QED
    BY <2>1 DEF Packet, Packets
<1>8. ASSUME NEW p \in Paths
      PROVE  PacketGiven(sizes, sqn, cl_call, t, cl_cum, packet, given, p)
  <2>1. PICK x : x = packet
    OBVIOUS
  <2>2. PacketGiven(sizes, sqn, cl_call, t, cl_cum, x, given, p)
    BY ONLY <1>1, <1>3, <1>6, <1>7, <2>1, p \in Paths, GivePacket
  <2> QED
    BY ONLY <2>1, <2>2
<1>9. 0 \in Paths
  BY DEF Paths
<1>10. t \in Paths /\ Fits(cl_cum, t, packet) /\ Index(cl_cum, packet) = ClientGiven(t)
  BY ONLY <1>8, <1>9 DEF PacketGiven, ClientGiven
<1>11. ASSUME NEW p \in Paths
       PROVE  /\ Posting(sizes, sqn, cl_call', cl_post_turn', cl_cum)
              /\ Given(sqn, cl_call', cl_post_turn', cl_cum, p)
                   = Round(sqn, cl_call, t, cl_cum, p)
  <2>1. CASE cl_call' = [cl_call EXCEPT !.pc = "drain"] /\ cl_post_turn' = t
    BY ONLY <1>4, <1>8, <2>1, p \in Paths DEF PacketGiven
  <2>2. CASE Client!NextPacket
    <3>1. PICK call2, turn2 : call2 = cl_call' /\ turn2 = cl_post_turn'
      OBVIOUS
    <3>2. /\ call2 = [cl_call EXCEPT !.i = cl_call.i + 1,
               !.pc = IF cl_call.i + 1 = cl_call.iter THEN "idle" ELSE "post"]
          /\ turn2 = (t + 1) % NumPath
      BY <1>1, <2>2, <3>1, PostingFacts DEF Client!NextPacket
    <3>3. cl_call.i + 1 \in Nat
      BY ONLY <1>5
    <3>4. /\ call2 \in CallType /\ call2.i = cl_call.i + 1
          /\ call2.iter = cl_call.iter
          /\ call2.pc = (IF cl_call.i + 1 = cl_call.iter THEN "idle" ELSE "post")
      BY ONLY <1>5, <3>2, <3>3 DEF CallType
    <3>5. cl_call.pc # "idle"
      BY <1>3
    <3>6. PostingMoved(sizes, sqn, cl_call, t, cl_cum, call2, turn2, p)
      BY ONLY <1>1, <3>2, <3>4, <3>5, p \in Paths, NextPacketPosting
    <3> QED
      BY ONLY <3>1, <3>6 DEF PostingMoved
  <2> QED
    BY <1>3, <2>1, <2>2
<1>12. SidesInv'
  BY <1>1, <1>2, <1>3, <1>9, <1>11 DEF SidesInv, SameCount
<1>13. ASSUME NEW p \in Paths
       PROVE  ClientGiven(p)' = ClientGiven(p) + (IF p = t THEN 1 ELSE 0)
  <2>1. Round(sqn, cl_call, t, cl_cum, p)
          = Given(sqn, cl_call, t, cl_cum, p) + (IF p = t THEN 1 ELSE 0)
    BY ONLY <1>8, p \in Paths DEF PacketGiven
  <2>2. cl_table' = cl_table /\ cl_cum' = cl_cum
    BY <1>3
  <2> QED
    BY ONLY <1>11, <2>1, <2>2, p \in Paths DEF ClientGiven
<1> QED
  BY <1>3, <1>10, <1>12, <1>13

(* The server gives the packet of the iteration to the path of its turn.     *)
LEMMA ServerGives ==
  ASSUME SidesInv, Server!PostPacket, UNCHANGED <<clVars, sizes>>
  PROVE  LET t == sv_post_turn
             packet == Packet(sv_table.sqn - 1, sv_call.i)
         IN  /\ SidesInv'
             /\ sv_cum' = sv_cum
             /\ t \in Paths
             /\ Fits(sv_cum, t, packet)
             /\ Index(sv_cum, packet) = ServerGiven(t)
             /\ \A p \in Paths : ServerGiven(p)' = ServerGiven(p) + (IF p = t THEN 1 ELSE 0)
<1> USE TransferAssumption
<1> DEFINE sqn == sv_table.sqn
           t == sv_post_turn
           packet == Packet(sqn - 1, sv_call.i)
<1>1. /\ Posting(sizes, sqn, sv_call, t, sv_cum)
      /\ Posting(sizes, cl_table.sqn, cl_call, cl_post_turn, cl_cum)
      /\ sv_active = NumPath /\ cl_active = NumPath
      /\ sv_table \in TableType /\ cl_table \in TableType /\ SameCount
  BY DEF SidesInv
<1>2. /\ cl_active' = cl_active /\ cl_table' = cl_table /\ cl_call' = cl_call
      /\ cl_post_turn' = cl_post_turn /\ cl_cum' = cl_cum /\ sizes' = sizes
  BY DEF clVars
<1>3. /\ sv_call.pc = "post"
      /\ UNCHANGED <<sv_active, sv_table, sv_cum>>
      /\ \/ sv_call' = [sv_call EXCEPT !.pc = "drain"] /\ sv_post_turn' = t
         \/ Server!NextPacket
  BY DEF Server!PostPacket
<1>4. PICK given : given = [sv_call EXCEPT !.pc = "drain"]
  OBVIOUS
<1>5. sv_call \in [pc : {"idle", "post", "drain"}, i : Nat, iter : Nat, active : {NumPath}]
  BY <1>1 DEF Posting, CallType
<1>6. /\ given \in CallType /\ given.pc = "drain" /\ given.i = sv_call.i
      /\ given.iter = sv_call.iter
  BY ONLY <1>4, <1>5 DEF CallType
<1>7. /\ packet \in Packets /\ packet.msg = sqn - 1 /\ packet.i = sv_call.i
  <2>1. sqn \in 1 .. MaxMsgs /\ sv_call.i \in Nat
    <3>1. sv_call.pc # "idle"
      BY <1>3
    <3> QED
      BY ONLY <1>1, <3>1, PostingRound
  <2> QED
    BY <2>1 DEF Packet, Packets
<1>8. ASSUME NEW p \in Paths
      PROVE  PacketGiven(sizes, sqn, sv_call, t, sv_cum, packet, given, p)
  <2>1. PICK x : x = packet
    OBVIOUS
  <2>2. PacketGiven(sizes, sqn, sv_call, t, sv_cum, x, given, p)
    BY ONLY <1>1, <1>3, <1>6, <1>7, <2>1, p \in Paths, GivePacket
  <2> QED
    BY ONLY <2>1, <2>2
<1>9. 0 \in Paths
  BY DEF Paths
<1>10. t \in Paths /\ Fits(sv_cum, t, packet) /\ Index(sv_cum, packet) = ServerGiven(t)
  BY ONLY <1>8, <1>9 DEF PacketGiven, ServerGiven
<1>11. ASSUME NEW p \in Paths
       PROVE  /\ Posting(sizes, sqn, sv_call', sv_post_turn', sv_cum)
              /\ Given(sqn, sv_call', sv_post_turn', sv_cum, p)
                   = Round(sqn, sv_call, t, sv_cum, p)
  <2>1. CASE sv_call' = [sv_call EXCEPT !.pc = "drain"] /\ sv_post_turn' = t
    BY ONLY <1>4, <1>8, <2>1, p \in Paths DEF PacketGiven
  <2>2. CASE Server!NextPacket
    <3>1. PICK call2, turn2 : call2 = sv_call' /\ turn2 = sv_post_turn'
      OBVIOUS
    <3>2. /\ call2 = [sv_call EXCEPT !.i = sv_call.i + 1,
               !.pc = IF sv_call.i + 1 = sv_call.iter THEN "idle" ELSE "post"]
          /\ turn2 = (t + 1) % NumPath
      BY <1>1, <2>2, <3>1, PostingFacts DEF Server!NextPacket
    <3>3. sv_call.i + 1 \in Nat
      BY ONLY <1>5
    <3>4. /\ call2 \in CallType /\ call2.i = sv_call.i + 1
          /\ call2.iter = sv_call.iter
          /\ call2.pc = (IF sv_call.i + 1 = sv_call.iter THEN "idle" ELSE "post")
      BY ONLY <1>5, <3>2, <3>3 DEF CallType
    <3>5. sv_call.pc # "idle"
      BY <1>3
    <3>6. PostingMoved(sizes, sqn, sv_call, t, sv_cum, call2, turn2, p)
      BY ONLY <1>1, <3>2, <3>4, <3>5, p \in Paths, NextPacketPosting
    <3> QED
      BY ONLY <3>1, <3>6 DEF PostingMoved
  <2> QED
    BY <1>3, <2>1, <2>2
<1>12. SidesInv'
  BY <1>1, <1>2, <1>3, <1>9, <1>11 DEF SidesInv, SameCount
<1>13. ASSUME NEW p \in Paths
       PROVE  ServerGiven(p)' = ServerGiven(p) + (IF p = t THEN 1 ELSE 0)
  <2>1. Round(sqn, sv_call, t, sv_cum, p)
          = Given(sqn, sv_call, t, sv_cum, p) + (IF p = t THEN 1 ELSE 0)
    BY ONLY <1>8, p \in Paths DEF PacketGiven
  <2>2. sv_table' = sv_table /\ sv_cum' = sv_cum
    BY <1>3
  <2> QED
    BY ONLY <1>11, <2>1, <2>2, p \in Paths DEF ServerGiven
<1> QED
  BY <1>3, <1>10, <1>12, <1>13

-----------------------------------------------------------------------------
(***************************************************************************)
(* The steps of a transfer.                                                *)
(***************************************************************************)

LEMMA GivenNat ==
  ASSUME SidesInv, NEW p \in Paths
  PROVE  ClientGiven(p) \in Nat /\ ServerGiven(p) \in Nat
<1>1. ASSUME NEW sz, NEW sqn, NEW call, NEW turn, NEW cum,
             Posting(sz, sqn, call, turn, cum)
      PROVE  Given(sqn, call, turn, cum, p) \in Nat
  <2>1. CASE call.pc = "idle"
    <3>1. sqn + 1 \in 1 .. sqn + 1
      BY <1>1 DEF Posting
    <3>2. cum[sqn + 1] \in Nat
      BY ONLY <1>1, <3>1, PostingFacts
    <3> QED
      BY <2>1, <3>2 DEF Given
  <2>2. CASE call.pc # "idle"
    <3>1. cum[sqn] \in Nat /\ call.i \div NumPath \in Nat
      BY ONLY <1>1, <2>2, PostingRound
    <3> QED
      BY <2>2, <3>1 DEF Given
  <2> QED
    BY <2>1, <2>2
<1> QED
  BY <1>1 DEF SidesInv, ClientGiven, ServerGiven

(* What is due moves with the position, and a loss only makes it less.      *)
LEMMA DueFacts ==
  ASSUME NEW k \in Int, NEW n \in Int, Due(k, n)
  PROVE  /\ \A d \in Int : Due(k + d, n + d)
         /\ MayOverrun => Due(k, n - 1)
  BY DEF Due

(* The parts of the invariant of a path, one by one.                        *)
LEMMA PathFacts ==
  ASSUME IndInv, NEW p \in Paths
  PROVE  /\ sq[p] \in Seq(Packets) /\ wire[p] \in Seq(Packets) /\ rq[p] \in Seq(Packets)
         /\ landed[p] \in Seq([packet : Packets, meant : Packets])
         /\ Len(sq[p]) \in Nat /\ Len(wire[p]) \in Nat /\ Len(rq[p]) \in Nat
         /\ Len(landed[p]) \in Nat
         /\ ClientGiven(p) \in Nat /\ ServerGiven(p) \in Nat
         /\ Due(ClientGiven(p), Len(landed[p]) + Len(wire[p]) + Len(sq[p]))
         /\ ServerGiven(p) = Len(landed[p]) + Len(rq[p])
         /\ InOrder(sq[p], cl_cum, p, ClientGiven(p) - Len(sq[p]))
         /\ Arriving(wire[p], cl_cum, p, Len(landed[p]))
         /\ InOrder(rq[p], sv_cum, p, Len(landed[p]))
         /\ \A k \in 1 .. Len(landed[p]) : Met(landed[p][k], p, k - 1)
<1>1. SidesInv /\ QueueTypes /\ PathInv(p)
  BY DEF IndInv
<1>2. /\ sq[p] \in Seq(Packets) /\ wire[p] \in Seq(Packets) /\ rq[p] \in Seq(Packets)
      /\ landed[p] \in Seq([packet : Packets, meant : Packets])
  BY <1>1 DEF QueueTypes
<1>3. ClientGiven(p) \in Nat /\ ServerGiven(p) \in Nat
  BY <1>1, GivenNat
<1>4. /\ Len(sq[p]) \in Nat /\ Len(wire[p]) \in Nat /\ Len(rq[p]) \in Nat
      /\ Len(landed[p]) \in Nat
  BY ONLY <1>2
<1>5. /\ Due(ClientGiven(p), Len(landed[p]) + Len(wire[p]) + Len(sq[p]))
      /\ ServerGiven(p) = Len(landed[p]) + Len(rq[p])
      /\ InOrder(sq[p], cl_cum, p, ClientGiven(p) - Len(sq[p]))
      /\ Arriving(wire[p], cl_cum, p, Len(landed[p]))
      /\ InOrder(rq[p], sv_cum, p, Len(landed[p]))
      /\ \A k \in 1 .. Len(landed[p]) : Met(landed[p][k], p, k - 1)
  BY ONLY <1>1 DEF PathInv
<1> QED
  BY ONLY <1>2, <1>3, <1>4, <1>5

(* The numbers of a path.                                                   *)
LEMMA PathNumbers ==
  ASSUME IndInv, NEW p \in Paths
  PROVE  /\ Len(sq[p]) \in Nat /\ Len(wire[p]) \in Nat /\ Len(rq[p]) \in Nat
         /\ Len(landed[p]) \in Nat
         /\ ClientGiven(p) \in Nat /\ ServerGiven(p) \in Nat
         /\ ServerGiven(p) = Len(landed[p]) + Len(rq[p])
  BY PathFacts

(* A path on which nothing happens.                                         *)
LEMMA PathUnchanged ==
  ASSUME NEW q, PathInv(q),
         sq'[q] = sq[q], wire'[q] = wire[q], rq'[q] = rq[q], landed'[q] = landed[q],
         cl_cum' = cl_cum, sv_cum' = sv_cum,
         ClientGiven(q)' = ClientGiven(q), ServerGiven(q)' = ServerGiven(q)
  PROVE  PathInv(q)'
  BY DEF PathInv, Met

(* The sides when neither posts anything.                                   *)
LEMMA SidesUnchanged ==
  ASSUME SidesInv, UNCHANGED <<cl_active, cl_table, cl_call, cl_post_turn, cl_cum>>,
         UNCHANGED <<sv_active, sv_table, sv_call, sv_post_turn, sv_cum>>,
         UNCHANGED sizes
  PROVE  /\ SidesInv' /\ cl_cum' = cl_cum /\ sv_cum' = sv_cum
         /\ \A p \in Paths : ClientGiven(p)' = ClientGiven(p)
                             /\ ServerGiven(p)' = ServerGiven(p)
<1>1. SidesInv'
  BY DEF SidesInv, SameCount
<1> QED
  BY <1>1 DEF ClientGiven, ServerGiven

(* The sides of a transfer that post and poll, but give out no packet.      *)
LEMMA QuietStep ==
  ASSUME IndInv, SidesInv', Continues(cl_cum', cl_cum), Continues(sv_cum', sv_cum),
         \A p \in Paths : ClientGiven(p)' = ClientGiven(p),
         \A p \in Paths : ServerGiven(p)' = ServerGiven(p),
         UNCHANGED netVars
  PROVE  IndInv'
<1>1. sq' = sq /\ wire' = wire /\ rq' = rq /\ landed' = landed
  BY DEF netVars
<1>2. QueueTypes'
  BY <1>1 DEF IndInv, QueueTypes
<1>3. PICK ccum, scum : ccum = cl_cum' /\ scum = sv_cum'
  OBVIOUS
<1>4. Continues(ccum, cl_cum) /\ Continues(scum, sv_cum)
  BY <1>3
<1>5. ASSUME NEW p \in Paths PROVE PathInv(p)'
  <2>1. /\ Due(ClientGiven(p), Len(landed[p]) + Len(wire[p]) + Len(sq[p]))
        /\ ServerGiven(p) = Len(landed[p]) + Len(rq[p])
        /\ InOrder(sq[p], cl_cum, p, ClientGiven(p) - Len(sq[p]))
        /\ Arriving(wire[p], cl_cum, p, Len(landed[p]))
        /\ InOrder(rq[p], sv_cum, p, Len(landed[p]))
        /\ \A k \in 1 .. Len(landed[p]) : Met(landed[p][k], p, k - 1)
    BY PathFacts
  <2>2. InOrder(sq[p], ccum, p, ClientGiven(p) - Len(sq[p]))
    BY ONLY <1>4, <2>1, StillInOrder
  <2>3. Arriving(wire[p], ccum, p, Len(landed[p]))
    BY ONLY <1>4, <2>1, StillInOrder
  <2>4. InOrder(rq[p], scum, p, Len(landed[p]))
    BY ONLY <1>4, <2>1, StillInOrder
  <2>5. ASSUME NEW k \in 1 .. Len(landed[p]) PROVE Met(landed[p][k], p, k - 1)'
    <3>1. PICK l : l = landed[p][k]
      OBVIOUS
    <3>2. /\ l \in [packet : Packets, meant : Packets]
          /\ Fits(cl_cum, p, l.packet) /\ Due(Index(cl_cum, l.packet), k - 1)
          /\ Fits(sv_cum, p, l.meant) /\ Index(sv_cum, l.meant) = k - 1
      BY <2>1, <3>1 DEF Met
    <3>3. Fits(ccum, p, l.packet) /\ Index(ccum, l.packet) = Index(cl_cum, l.packet)
      BY ONLY <1>4, <3>2, StillFits
    <3>4. Fits(scum, p, l.meant) /\ Index(scum, l.meant) = Index(sv_cum, l.meant)
      BY ONLY <1>4, <3>2, StillFits
    <3> QED
      BY <1>1, <1>3, <3>1, <3>2, <3>3, <3>4 DEF Met
  <2>6. Len(landed'[p]) = Len(landed[p])
    BY <1>1
  <2> QED
    BY <1>1, <1>3, <2>1, <2>2, <2>3, <2>4, <2>5, <2>6 DEF PathInv
<1> QED
  BY <1>2, <1>5 DEF IndInv

(* The client gives a packet to a send queue.                               *)
LEMMA ClientPacketStep ==
  ASSUME IndInv, ClientPacket, UNCHANGED <<svVars, sizes>>
  PROVE  IndInv'
<1> DEFINE t == cl_post_turn
           packet == Packet(cl_table.sqn - 1, cl_call.i)
<1>1. /\ Client!PostPacket /\ UNCHANGED <<wire, rq, landed>>
      /\ sq' = [sq EXCEPT ![t] = Append(sq[t], packet)]
  BY DEF ClientPacket
<1>2. SidesInv /\ QueueTypes
  BY DEF IndInv
<1>3. /\ SidesInv' /\ cl_cum' = cl_cum /\ t \in Paths
      /\ Fits(cl_cum, t, packet) /\ Index(cl_cum, packet) = ClientGiven(t)
      /\ \A p \in Paths : ClientGiven(p)' = ClientGiven(p) + (IF p = t THEN 1 ELSE 0)
  BY <1>1, <1>2, ClientGives
<1>4. /\ sv_cum' = sv_cum /\ \A p \in Paths : ServerGiven(p)' = ServerGiven(p)
  BY DEF svVars, ServerGiven
<1>5. /\ Append(sq[t], packet) \in Seq(Packets)
      /\ Len(Append(sq[t], packet)) = Len(sq[t]) + 1
      /\ InOrder(Append(sq[t], packet), cl_cum, t, ClientGiven(t) - Len(sq[t]))
  <2>1. PICK b \in Int : b = ClientGiven(t) - Len(sq[t]) /\ ClientGiven(t) = b + Len(sq[t])
    <3>1. Len(sq[t]) \in Nat /\ ClientGiven(t) \in Nat
      BY <1>3, PathNumbers
    <3> QED
      BY ONLY <3>1
  <2>2. InOrder(sq[t], cl_cum, t, b) /\ sq[t] \in Seq(Packets)
    BY <1>3, <2>1, PathFacts
  <2>3. PICK x : x = packet
    OBVIOUS
  <2>4. Fits(cl_cum, t, x) /\ Index(cl_cum, x) = b + Len(sq[t])
    BY <1>3, <2>1, <2>3
  <2>5. /\ Append(sq[t], x) \in Seq(Packets) /\ Len(Append(sq[t], x)) = Len(sq[t]) + 1
        /\ InOrder(Append(sq[t], x), cl_cum, t, b)
    BY ONLY <2>2, <2>4, b \in Int, InOrderAppend
  <2> QED
    BY <2>1, <2>3, <2>5
<1>6. QueueTypes'
  BY <1>1, <1>2, <1>5 DEF QueueTypes
<1>7. ASSUME NEW p \in Paths PROVE PathInv(p)'
  <2>1. CASE p = t
    <3>1. /\ sq'[p] = Append(sq[t], packet) /\ wire'[p] = wire[p]
          /\ rq'[p] = rq[p] /\ landed'[p] = landed[p]
      BY <1>1, <1>2, <2>1 DEF QueueTypes
    <3>2. ClientGiven(p)' = ClientGiven(p) + 1 /\ Len(sq'[p]) = Len(sq[p]) + 1
      BY <1>3, <1>5, <2>1, <3>1
    <3>3. ClientGiven(p)' - Len(sq'[p]) = ClientGiven(p) - Len(sq[p])
      <4>1. Len(sq[p]) \in Nat /\ ClientGiven(p) \in Nat
        BY PathNumbers
      <4> QED
        BY ONLY <3>2, <4>1
    <3>4. InOrder(sq'[p], cl_cum, p, ClientGiven(p)' - Len(sq'[p]))
      BY <1>5, <2>1, <3>1, <3>3
    <3>5. Due(ClientGiven(p)', Len(landed[p]) + Len(wire[p]) + Len(sq'[p]))
      <4>1. PICK g \in Int, n \in Int :
              /\ g = ClientGiven(p)
              /\ n = Len(landed[p]) + Len(wire[p]) + Len(sq[p])
              /\ Len(landed[p]) + Len(wire[p]) + Len(sq'[p]) = n + 1
        <5>1. PICK a \in Nat, b \in Nat, c \in Nat, g \in Nat :
                a = Len(landed[p]) /\ b = Len(wire[p]) /\ c = Len(sq[p])
                /\ g = ClientGiven(p)
          BY PathNumbers, Zenon
        <5>2. g \in Int /\ a + b + c \in Int /\ a + b + (c + 1) = (a + b + c) + 1
          OBVIOUS
        <5>3. Len(sq'[p]) = c + 1
          BY ONLY <3>2, <5>1, Zenon
        <5> QED
          BY ONLY <5>1, <5>2, <5>3, Zenon
      <4>2. Due(g, n)
        BY <4>1, PathFacts
      <4>3. Due(g + 1, n + 1)
        BY <4>2 DEF Due
      <4> QED
        BY <3>2, <4>1, <4>3
    <3> QED
      BY <1>3, <1>4, <3>1, <3>4, <3>5, PathFacts DEF PathInv, Met
  <2>2. CASE p # t
    <3>1. /\ sq'[p] = sq[p] /\ wire'[p] = wire[p]
          /\ rq'[p] = rq[p] /\ landed'[p] = landed[p]
      BY <1>1, <1>2, <2>2 DEF QueueTypes
    <3>2. ClientGiven(p)' = ClientGiven(p)
      <4>1. ClientGiven(p)' = ClientGiven(p) + 0 /\ ClientGiven(p) \in Nat
        BY <1>3, <2>2, PathFacts
      <4> QED
        BY <4>1
    <3> QED
      BY <1>3, <1>4, <3>1, <3>2, PathUnchanged DEF IndInv
  <2> QED
    BY <2>1, <2>2
<1> QED
  BY <1>3, <1>6, <1>7 DEF IndInv

(* The server posts a receive for a packet.                                 *)
LEMMA ServerPacketStep ==
  ASSUME IndInv, ServerPacket, UNCHANGED <<clVars, sizes>>
  PROVE  IndInv'
<1> DEFINE t == sv_post_turn
           packet == Packet(sv_table.sqn - 1, sv_call.i)
<1>1. /\ Server!PostPacket /\ UNCHANGED <<sq, wire, landed>>
      /\ rq' = [rq EXCEPT ![t] = Append(rq[t], packet)]
  BY DEF ServerPacket
<1>2. SidesInv /\ QueueTypes
  BY DEF IndInv
<1>3. /\ SidesInv' /\ sv_cum' = sv_cum /\ t \in Paths
      /\ Fits(sv_cum, t, packet) /\ Index(sv_cum, packet) = ServerGiven(t)
      /\ \A p \in Paths : ServerGiven(p)' = ServerGiven(p) + (IF p = t THEN 1 ELSE 0)
  BY <1>1, <1>2, ServerGives
<1>4. /\ cl_cum' = cl_cum /\ \A p \in Paths : ClientGiven(p)' = ClientGiven(p)
  BY DEF clVars, ClientGiven
<1>5. /\ Append(rq[t], packet) \in Seq(Packets)
      /\ Len(Append(rq[t], packet)) = Len(rq[t]) + 1
      /\ InOrder(Append(rq[t], packet), sv_cum, t, Len(landed[t]))
  <2>1. PICK b \in Int : b = Len(landed[t]) /\ ServerGiven(t) = b + Len(rq[t])
    <3>1. Len(landed[t]) \in Nat /\ ServerGiven(t) = Len(landed[t]) + Len(rq[t])
      BY <1>3, PathNumbers
    <3>2. Len(landed[t]) \in Int
      BY ONLY <3>1
    <3> QED
      BY ONLY <3>1, <3>2, Zenon
  <2>2. InOrder(rq[t], sv_cum, t, b) /\ rq[t] \in Seq(Packets)
    BY <1>3, <2>1, PathFacts
  <2>3. PICK x : x = packet
    OBVIOUS
  <2>4. Fits(sv_cum, t, x) /\ Index(sv_cum, x) = b + Len(rq[t])
    BY <1>3, <2>1, <2>3
  <2>5. /\ Append(rq[t], x) \in Seq(Packets) /\ Len(Append(rq[t], x)) = Len(rq[t]) + 1
        /\ InOrder(Append(rq[t], x), sv_cum, t, b)
    BY ONLY <2>2, <2>4, b \in Int, InOrderAppend
  <2> QED
    BY <2>1, <2>3, <2>5
<1>6. QueueTypes'
  BY <1>1, <1>2, <1>5 DEF QueueTypes
<1>7. ASSUME NEW p \in Paths PROVE PathInv(p)'
  <2>1. CASE p = t
    <3>1. /\ rq'[p] = Append(rq[t], packet) /\ wire'[p] = wire[p]
          /\ sq'[p] = sq[p] /\ landed'[p] = landed[p]
      BY <1>1, <1>2, <2>1 DEF QueueTypes
    <3>2. ServerGiven(p)' = Len(landed[p]) + Len(rq'[p])
      <4>1. ServerGiven(p)' = ServerGiven(p) + 1 /\ Len(rq'[p]) = Len(rq[p]) + 1
        BY <1>3, <1>5, <2>1, <3>1
      <4>2. PICK a \in Nat, b \in Nat : a = Len(landed[p]) /\ b = Len(rq[p])
        BY PathNumbers, Zenon
      <4>3. ServerGiven(p) = a + b
        BY <4>2, PathNumbers, Zenon
      <4>4. ServerGiven(p)' = (a + b) + 1 /\ Len(rq'[p]) = b + 1
        BY ONLY <4>1, <4>2, <4>3, Zenon
      <4>5. (a + b) + 1 = a + (b + 1)
        OBVIOUS
      <4> QED
        BY ONLY <4>2, <4>4, <4>5, Zenon
    <3>3. InOrder(rq'[p], sv_cum, p, Len(landed[p]))
      BY <1>5, <2>1, <3>1
    <3> QED
      BY <1>3, <1>4, <3>1, <3>2, <3>3, PathFacts DEF PathInv, Met
  <2>2. CASE p # t
    <3>1. /\ sq'[p] = sq[p] /\ wire'[p] = wire[p]
          /\ rq'[p] = rq[p] /\ landed'[p] = landed[p]
      BY <1>1, <1>2, <2>2 DEF QueueTypes
    <3>2. ServerGiven(p)' = ServerGiven(p)
      <4>1. ServerGiven(p)' = ServerGiven(p) + 0 /\ ServerGiven(p) \in Nat
        BY <1>3, <2>2, PathFacts
      <4> QED
        BY <4>1
    <3> QED
      BY <1>3, <1>4, <3>1, <3>2, PathUnchanged DEF IndInv
  <2> QED
    BY <2>1, <2>2
<1> QED
  BY <1>3, <1>6, <1>7 DEF IndInv

(* The position of a client's packet is a number.                           *)
LEMMA IndexNat ==
  ASSUME SidesInv, NEW p, NEW packet, Fits(cl_cum, p, packet)
  PROVE  Index(cl_cum, packet) \in Int
<1>1. cl_cum \in Seq(Nat) /\ packet.msg \in 0 .. MaxMsgs - 1 /\ packet.i \in Nat
      /\ packet.msg + 2 <= Len(cl_cum)
  BY DEF SidesInv, Posting, Fits, Packets
<1>2. packet.msg + 1 \in 1 .. Len(cl_cum)
  BY <1>1, TransferAssumption
<1>3. cl_cum[packet.msg + 1] \in Nat
  BY <1>1, <1>2
<1>4. packet.i \div NumPath \in Int
  BY <1>1, TransferAssumption
<1> QED
  BY <1>3, <1>4 DEF Index

(* A packet leaves the card: it was the next of its send queue, and what is *)
(* in flight before it are the packets before it.                           *)
LEMMA LeaveStep ==
  ASSUME IndInv, NEW p \in Paths, Leave(p)
  PROVE  IndInv'
<1> DEFINE head == Head(sq[p])
<1>1. /\ sq[p] # <<>> /\ Client!NicComplete(p)
      /\ wire' = [wire EXCEPT ![p] = Append(wire[p], head)]
      /\ sq' = [sq EXCEPT ![p] = Tail(sq[p])]
      /\ UNCHANGED <<svVars, sizes, rq, landed>>
  BY DEF Leave
<1>2. SidesInv /\ QueueTypes
  BY DEF IndInv
<1>3. /\ SidesInv' /\ cl_cum' = cl_cum /\ sv_cum' = sv_cum
      /\ \A q \in Paths : ClientGiven(q)' = ClientGiven(q)
                          /\ ServerGiven(q)' = ServerGiven(q)
  <2>1. UNCHANGED <<cl_active, cl_table, cl_call, cl_post_turn, cl_cum>>
    BY <1>1 DEF Client!NicComplete
  <2>2. UNCHANGED <<sv_active, sv_table, sv_call, sv_post_turn, sv_cum>>
    BY <1>1 DEF svVars
  <2> QED
    BY <1>1, <1>2, <2>1, <2>2, SidesUnchanged
<1>4. PICK a \in Nat, b \in Nat, c \in Nat, g \in Nat :
        a = Len(landed[p]) /\ b = Len(wire[p]) /\ c = Len(sq[p]) /\ g = ClientGiven(p)
  BY PathNumbers, Zenon
<1>5. /\ sq[p] \in Seq(Packets) /\ wire[p] \in Seq(Packets)
      /\ Due(g, a + b + c)
      /\ InOrder(sq[p], cl_cum, p, g - c)
      /\ Arriving(wire[p], cl_cum, p, a)
  BY <1>4, PathFacts, Zenon
<1>6. g - c \in Int /\ a \in Int /\ a + b + c \in Int /\ 0 - c \in Int
  OBVIOUS
<1>7. /\ head \in Packets /\ Tail(sq[p]) \in Seq(Packets)
      /\ Len(Tail(sq[p])) = c - 1
      /\ Fits(cl_cum, p, head) /\ Index(cl_cum, head) = g - c
      /\ InOrder(Tail(sq[p]), cl_cum, p, (g - c) + 1)
  BY ONLY <1>1, <1>4, <1>5, <1>6, InOrderTail
<1>8. Due(g - c, a + b)
  <2>1. PICK m \in Int, e \in Int : m = a + b + c /\ e = 0 - c
    BY <1>6
  <2>2. Due(g, m)
    BY <1>5, <2>1, Zenon
  <2>3. Due(g + e, m + e)
    BY <2>2 DEF Due
  <2>4. g + e = g - c /\ m + e = a + b
    BY <2>1
  <2> QED
    BY <2>3, <2>4, Zenon
<1>9. /\ Append(wire[p], head) \in Seq(Packets) /\ Len(Append(wire[p], head)) = b + 1
      /\ Arriving(Append(wire[p], head), cl_cum, p, a)
  <2>1. PICK x : x = head
    OBVIOUS
  <2>2. Fits(cl_cum, p, x) /\ Due(Index(cl_cum, x), a + Len(wire[p]))
    BY <1>4, <1>7, <1>8, <2>1, Zenon
  <2>3. /\ Append(wire[p], x) \in Seq(Packets)
        /\ Len(Append(wire[p], x)) = Len(wire[p]) + 1
        /\ Arriving(Append(wire[p], x), cl_cum, p, a)
    BY ONLY <1>5, <1>6, <2>2, ArrivingAppend
  <2> QED
    BY <1>4, <2>1, <2>3, Zenon
<1>10. QueueTypes'
  BY <1>1, <1>2, <1>7, <1>9 DEF QueueTypes
<1>11. PathInv(p)'
  <2>1. /\ sq'[p] = Tail(sq[p]) /\ wire'[p] = Append(wire[p], head)
        /\ rq'[p] = rq[p] /\ landed'[p] = landed[p]
    BY <1>1, <1>2 DEF QueueTypes
  <2>2. Len(sq'[p]) = c - 1 /\ Len(wire'[p]) = b + 1 /\ Len(landed'[p]) = a
        /\ ClientGiven(p)' = g
    BY <1>3, <1>4, <1>7, <1>9, <2>1, Zenon
  <2>3. /\ a + (b + 1) + (c - 1) = a + b + c
        /\ g - (c - 1) = (g - c) + 1
    OBVIOUS
  <2>4. Due(ClientGiven(p)', Len(landed'[p]) + Len(wire'[p]) + Len(sq'[p]))
    BY ONLY <1>5, <2>2, <2>3, Zenon
  <2>5. InOrder(sq'[p], cl_cum, p, ClientGiven(p)' - Len(sq'[p]))
    BY ONLY <1>7, <2>1, <2>2, <2>3, Zenon
  <2>6. Arriving(wire'[p], cl_cum, p, Len(landed'[p]))
    BY ONLY <1>9, <2>1, <2>2, Zenon
  <2> QED
    BY <1>3, <2>1, <2>4, <2>5, <2>6, PathFacts DEF PathInv, Met
<1>12. ASSUME NEW q \in Paths, q # p PROVE PathInv(q)'
  <2>1. /\ sq'[q] = sq[q] /\ wire'[q] = wire[q]
        /\ rq'[q] = rq[q] /\ landed'[q] = landed[q]
    BY <1>1, <1>2, <1>12 DEF QueueTypes
  <2> QED
    BY <1>3, <2>1, PathUnchanged DEF IndInv
<1> QED
  BY <1>3, <1>10, <1>11, <1>12 DEF IndInv

(* A packet arrives: the receive it fills is the next of its path, and the  *)
(* packet the next, or a later one when some were lost.                     *)
LEMMA ArriveStep ==
  ASSUME IndInv, NEW p \in Paths, Arrive(p)
  PROVE  IndInv'
<1> DEFINE packet == Head(wire[p])
           meant == Head(rq[p])
           l == [packet |-> packet, meant |-> meant]
<1>1. /\ wire[p] # <<>> /\ rq[p] # <<>> /\ Server!NicComplete(p)
      /\ landed' = [landed EXCEPT ![p] = Append(landed[p], l)]
      /\ rq' = [rq EXCEPT ![p] = Tail(rq[p])]
      /\ wire' = [wire EXCEPT ![p] = Tail(wire[p])]
      /\ UNCHANGED <<clVars, sizes, sq>>
  BY DEF Arrive, Fill
<1>2. SidesInv /\ QueueTypes
  BY DEF IndInv
<1>3. /\ SidesInv' /\ cl_cum' = cl_cum /\ sv_cum' = sv_cum
      /\ \A q \in Paths : ClientGiven(q)' = ClientGiven(q)
                          /\ ServerGiven(q)' = ServerGiven(q)
  <2>1. UNCHANGED <<sv_active, sv_table, sv_call, sv_post_turn, sv_cum>>
    BY <1>1 DEF Server!NicComplete
  <2>2. UNCHANGED <<cl_active, cl_table, cl_call, cl_post_turn, cl_cum>>
    BY <1>1 DEF clVars
  <2> QED
    BY <1>1, <1>2, <2>1, <2>2, SidesUnchanged
<1>4. PICK a \in Nat, b \in Nat, c \in Nat, d \in Nat, g \in Nat :
        a = Len(landed[p]) /\ b = Len(wire[p]) /\ c = Len(sq[p])
        /\ d = Len(rq[p]) /\ g = ClientGiven(p)
  BY PathNumbers, Zenon
<1>5. /\ wire[p] \in Seq(Packets) /\ rq[p] \in Seq(Packets)
      /\ landed[p] \in Seq([packet : Packets, meant : Packets])
      /\ Due(g, a + b + c) /\ ServerGiven(p) = a + d
      /\ InOrder(sq[p], cl_cum, p, g - c)
      /\ Arriving(wire[p], cl_cum, p, a)
      /\ InOrder(rq[p], sv_cum, p, a)
      /\ \A k \in 1 .. a : Met(landed[p][k], p, k - 1)
  BY <1>4, PathFacts, Zenon
<1>6. a \in Int
  OBVIOUS
<1>7. /\ packet \in Packets /\ Tail(wire[p]) \in Seq(Packets)
      /\ Len(Tail(wire[p])) = b - 1
      /\ Fits(cl_cum, p, packet) /\ Due(Index(cl_cum, packet), a)
      /\ Arriving(Tail(wire[p]), cl_cum, p, a + 1)
  BY ONLY <1>1, <1>4, <1>5, <1>6, ArrivingTail
<1>8. /\ meant \in Packets /\ Tail(rq[p]) \in Seq(Packets)
      /\ Len(Tail(rq[p])) = d - 1
      /\ Fits(sv_cum, p, meant) /\ Index(sv_cum, meant) = a
      /\ InOrder(Tail(rq[p]), sv_cum, p, a + 1)
  <2>1. rq[p] \in Seq(Packets) /\ InOrder(rq[p], sv_cum, p, a) /\ rq[p] # <<>>
    BY <1>1, <1>5
  <2>2. /\ Head(rq[p]) \in Packets /\ Tail(rq[p]) \in Seq(Packets)
        /\ Len(Tail(rq[p])) = Len(rq[p]) - 1
        /\ Fits(sv_cum, p, Head(rq[p])) /\ Index(sv_cum, Head(rq[p])) = a
        /\ InOrder(Tail(rq[p]), sv_cum, p, a + 1)
    BY ONLY <1>6, <2>1, InOrderTail
  <2> QED
    BY ONLY <1>4, <2>2
<1>9. l \in [packet : Packets, meant : Packets] /\ Met(l, p, a)
  BY <1>7, <1>8 DEF Met
<1>10. /\ Append(landed[p], l) \in Seq([packet : Packets, meant : Packets])
       /\ Len(Append(landed[p], l)) = a + 1
       /\ \A k \in 1 .. a + 1 : Met(Append(landed[p], l)[k], p, k - 1)
  <2>1. PICK x \in [packet : Packets, meant : Packets] : x = l
    BY <1>9
  <2>2. /\ Append(landed[p], x) \in Seq([packet : Packets, meant : Packets])
        /\ Len(Append(landed[p], x)) = a + 1 /\ Append(landed[p], x)[a + 1] = x
        /\ \A k \in 1 .. a : Append(landed[p], x)[k] = landed[p][k]
    BY ONLY <1>4, <1>5, x \in [packet : Packets, meant : Packets]
  <2>3. ASSUME NEW k \in 1 .. a + 1 PROVE Met(Append(landed[p], x)[k], p, k - 1)
    <3>1. CASE k = a + 1
      <4>1. k - 1 = a
        BY <3>1
      <4> QED
        BY <1>9, <2>1, <2>2, <3>1, <4>1, Zenon
    <3>2. CASE k # a + 1
      <4>1. k \in 1 .. a
        BY <3>2
      <4> QED
        BY <1>5, <2>2, <4>1, Zenon
    <3> QED
      BY <3>1, <3>2
  <2> QED
    BY <2>1, <2>2, <2>3, Zenon
<1>11. QueueTypes'
  BY <1>1, <1>2, <1>7, <1>8, <1>10 DEF QueueTypes
<1>12. PathInv(p)'
  <2>1. /\ sq'[p] = sq[p] /\ wire'[p] = Tail(wire[p])
        /\ rq'[p] = Tail(rq[p]) /\ landed'[p] = Append(landed[p], l)
    BY <1>1, <1>2 DEF QueueTypes
  <2>2. /\ Len(sq'[p]) = c /\ Len(wire'[p]) = b - 1 /\ Len(landed'[p]) = a + 1
        /\ Len(rq'[p]) = d - 1 /\ ClientGiven(p)' = g /\ ServerGiven(p)' = a + d
    BY <1>3, <1>4, <1>5, <1>7, <1>8, <1>10, <2>1, Zenon
  <2>3. /\ (a + 1) + (b - 1) + c = a + b + c
        /\ (a + 1) + (d - 1) = a + d
    OBVIOUS
  <2>4. /\ Due(ClientGiven(p)', Len(landed'[p]) + Len(wire'[p]) + Len(sq'[p]))
        /\ ServerGiven(p)' = Len(landed'[p]) + Len(rq'[p])
    BY ONLY <1>5, <2>2, <2>3, Zenon
  <2>5. /\ InOrder(sq'[p], cl_cum, p, ClientGiven(p)' - Len(sq'[p]))
        /\ Arriving(wire'[p], cl_cum, p, Len(landed'[p]))
        /\ InOrder(rq'[p], sv_cum, p, Len(landed'[p]))
    BY ONLY <1>5, <1>7, <1>8, <2>1, <2>2, Zenon
  <2>6. \A k \in 1 .. Len(landed'[p]) : Met(landed'[p][k], p, k - 1)
    BY ONLY <1>10, <2>1, <2>2, Zenon
  <2> QED
    BY <1>3, <2>4, <2>5, <2>6 DEF PathInv, Met
<1>13. ASSUME NEW q \in Paths, q # p PROVE PathInv(q)'
  <2>1. /\ sq'[q] = sq[q] /\ wire'[q] = wire[q]
        /\ rq'[q] = rq[q] /\ landed'[q] = landed[q]
    BY <1>1, <1>2, <1>13 DEF QueueTypes
  <2> QED
    BY <1>3, <2>1, PathUnchanged DEF IndInv
<1> QED
  BY <1>3, <1>11, <1>12, <1>13 DEF IndInv

(* A packet is lost: those behind it are further on than they are due.      *)
LEMMA OverrunStep ==
  ASSUME IndInv, NEW p \in Paths, Overrun(p)
  PROVE  IndInv'
<1>1. /\ MayOverrun /\ wire[p] # <<>>
      /\ wire' = [wire EXCEPT ![p] = Tail(wire[p])]
      /\ UNCHANGED <<clVars, svVars, sizes, sq, rq, landed>>
  BY DEF Overrun
<1>2. SidesInv /\ QueueTypes
  BY DEF IndInv
<1>3. /\ SidesInv' /\ cl_cum' = cl_cum /\ sv_cum' = sv_cum
      /\ \A q \in Paths : ClientGiven(q)' = ClientGiven(q)
                          /\ ServerGiven(q)' = ServerGiven(q)
  <2>1. /\ UNCHANGED <<cl_active, cl_table, cl_call, cl_post_turn, cl_cum>>
        /\ UNCHANGED <<sv_active, sv_table, sv_call, sv_post_turn, sv_cum>>
    BY <1>1 DEF clVars, svVars
  <2> QED
    BY <1>1, <1>2, <2>1, SidesUnchanged
<1>4. PICK a \in Nat, b \in Nat, c \in Nat, g \in Nat :
        a = Len(landed[p]) /\ b = Len(wire[p]) /\ c = Len(sq[p]) /\ g = ClientGiven(p)
  BY PathNumbers, Zenon
<1>5. /\ wire[p] \in Seq(Packets)
      /\ Due(g, a + b + c)
      /\ Arriving(wire[p], cl_cum, p, a)
  BY <1>4, PathFacts, Zenon
<1>6. a \in Int /\ g \in Int /\ a + b + c \in Int
  OBVIOUS
<1>7. /\ Tail(wire[p]) \in Seq(Packets) /\ Len(Tail(wire[p])) = b - 1
      /\ Arriving(Tail(wire[p]), cl_cum, p, a + 1)
  BY ONLY <1>1, <1>4, <1>5, <1>6, ArrivingTail
<1>8. Arriving(Tail(wire[p]), cl_cum, p, a)
  <2> SUFFICES ASSUME NEW j \in 1 .. Len(Tail(wire[p]))
               PROVE  Due(Index(cl_cum, Tail(wire[p])[j]), a + j - 1)
    BY <1>7 DEF Arriving
  <2>1. Due(Index(cl_cum, Tail(wire[p])[j]), (a + 1) + j - 1) /\ j \in Nat
    BY <1>7 DEF Arriving
  <2>2. Index(cl_cum, Tail(wire[p])[j]) >= (a + 1) + j - 1
    BY ONLY <1>1, <2>1 DEF Due
  <2>3. PICK x : x = Index(cl_cum, Tail(wire[p])[j])
    OBVIOUS
  <2>4. Fits(cl_cum, p, Tail(wire[p])[j])
    BY <1>7 DEF Arriving
  <2>5. x \in Int
    <3>1. PICK y : y = Tail(wire[p])[j]
      OBVIOUS
    <3>2. Fits(cl_cum, p, y)
      BY <2>4, <3>1
    <3> QED
      BY <1>2, <2>3, <3>1, <3>2, IndexNat
  <2>6. x >= a + j - 1
    BY ONLY <2>1, <2>2, <2>3, <2>5, a \in Nat
  <2> QED
    BY <1>1, <2>3, <2>6 DEF Due
<1>9. Due(g, a + (b - 1) + c)
  <2>1. Due(g, (a + b + c) - 1)
    BY <1>1, <1>5, <1>6, DueFacts
  <2>2. (a + b + c) - 1 = a + (b - 1) + c
    OBVIOUS
  <2> QED
    BY <2>1, <2>2
<1>10. QueueTypes'
  BY <1>1, <1>2, <1>7 DEF QueueTypes
<1>11. PathInv(p)'
  <2>1. /\ sq'[p] = sq[p] /\ wire'[p] = Tail(wire[p])
        /\ rq'[p] = rq[p] /\ landed'[p] = landed[p]
    BY <1>1, <1>2 DEF QueueTypes
  <2>2. Due(ClientGiven(p)', Len(landed'[p]) + Len(wire'[p]) + Len(sq'[p]))
    BY <1>3, <1>4, <1>7, <1>9, <2>1, Zenon
  <2>3. Arriving(wire'[p], cl_cum, p, Len(landed'[p]))
    BY <1>4, <1>8, <2>1, Zenon
  <2> QED
    BY <1>3, <2>1, <2>2, <2>3, PathFacts DEF PathInv, Met
<1>12. ASSUME NEW q \in Paths, q # p PROVE PathInv(q)'
  <2>1. /\ sq'[q] = sq[q] /\ wire'[q] = wire[q]
        /\ rq'[q] = rq[q] /\ landed'[q] = landed[q]
    BY <1>1, <1>2, <1>12 DEF QueueTypes
  <2> QED
    BY <1>3, <2>1, PathUnchanged DEF IndInv
<1> QED
  BY <1>3, <1>10, <1>11, <1>12 DEF IndInv

(* In the first state nothing is posted.                                    *)
LEMMA InitInv == Init => IndInv
<1> SUFFICES ASSUME Init PROVE IndInv
  OBVIOUS
<1> USE TransferAssumption
<1>1. 0 \in Paths /\ 0 \in Nat /\ 0 \in 0 .. MaxMsgs
  BY DEF Paths
<1>2. /\ cl_active = NumPath /\ cl_post_turn = 0 /\ cl_cum = <<0>>
      /\ cl_call = [pc |-> "idle", i |-> 0, iter |-> 0, active |-> NumPath]
      /\ cl_table = [head |-> 0, next |-> 0, sqn |-> 0,
                     wqe |-> [k \in 0 .. TableLen - 1 |->
                               [valid |-> 0, iter_each |-> [p \in Paths |-> 0]]]]
  BY DEF Init, Client!Init, Client!UnusedWqe, Client!Slots, Client!Paths, Paths
<1>3. /\ sv_active = NumPath /\ sv_post_turn = 0 /\ sv_cum = <<0>>
      /\ sv_call = [pc |-> "idle", i |-> 0, iter |-> 0, active |-> NumPath]
      /\ sv_table = [head |-> 0, next |-> 0, sqn |-> 0,
                     wqe |-> [k \in 0 .. TableLen - 1 |->
                               [valid |-> 0, iter_each |-> [p \in Paths |-> 0]]]]
  BY DEF Init, Server!Init, Server!UnusedWqe, Server!Slots, Server!Paths, Paths
<1>4. /\ sizes \in [1 .. MaxMsgs -> Sizes]
      /\ \A p \in Paths : sq[p] = <<>> /\ wire[p] = <<>> /\ rq[p] = <<>> /\ landed[p] = <<>>
      /\ QueueTypes
  BY DEF Init, QueueTypes
<1>5. ASSUME NEW call, NEW cum,
             call = [pc |-> "idle", i |-> 0, iter |-> 0, active |-> NumPath],
             cum \in Seq(Nat), Len(cum) = 1, cum[1] = 0
      PROVE  /\ Posting(sizes, 0, call, 0, cum)
             /\ \A p \in Paths : Given(0, call, 0, cum, p) = 0
  <2>1. call \in CallType /\ call.pc = "idle"
    BY <1>5 DEF CallType
  <2>2. cum \in Seq(Nat) /\ Len(cum) = 1 /\ cum[1] = 0
    BY <1>5
  <2>3. \A j, k \in 1 .. 0 + 1 : ~(j < k)
    OBVIOUS
  <2>4. Posting(sizes, 0, call, 0, cum)
    BY <1>1, <1>4, <2>1, <2>2, <2>3 DEF Posting
  <2> QED
    BY <2>1, <2>2, <2>4 DEF Given
<1>6. cl_table \in TableType /\ cl_table.sqn = 0 /\ sv_table \in TableType /\ sv_table.sqn = 0
  BY <1>2, <1>3 DEF TableType
<1>7. SidesInv
  <2>1. /\ cl_cum \in Seq(Nat) /\ Len(cl_cum) = 1 /\ cl_cum[1] = 0
        /\ sv_cum \in Seq(Nat) /\ Len(sv_cum) = 1 /\ sv_cum[1] = 0
    BY <1>2, <1>3
  <2> QED
    BY <1>2, <1>3, <1>5, <1>6, <2>1 DEF SidesInv, SameCount
<1>8. \A p \in Paths : ClientGiven(p) = 0 /\ ServerGiven(p) = 0
  <2>1. /\ cl_cum \in Seq(Nat) /\ Len(cl_cum) = 1 /\ cl_cum[1] = 0
        /\ sv_cum \in Seq(Nat) /\ Len(sv_cum) = 1 /\ sv_cum[1] = 0
    BY <1>2, <1>3
  <2> QED
    BY <1>2, <1>3, <1>5, <1>6, <2>1 DEF ClientGiven, ServerGiven
<1>9. ASSUME NEW p \in Paths PROVE PathInv(p)
  <2>1. /\ Len(sq[p]) = 0 /\ Len(wire[p]) = 0 /\ Len(rq[p]) = 0 /\ Len(landed[p]) = 0
    BY <1>4
  <2>2. Due(0, 0 + 0 + 0)
    BY DEF Due
  <2> QED
    BY <1>8, <2>1, <2>2 DEF PathInv, InOrder, Arriving
<1> QED
  BY <1>4, <1>7, <1>9 DEF IndInv

(* Every step keeps every queue in order.                                   *)
LEMMA StepInv == IndInv /\ [Next]_vars => IndInv'
<1> SUFFICES ASSUME IndInv, [Next]_vars PROVE IndInv'
  OBVIOUS
<1>1. SidesInv
  BY DEF IndInv
<1>2. Continues(cl_cum, cl_cum) /\ Continues(sv_cum, sv_cum)
  BY <1>1 DEF SidesInv, Posting, Continues
<1>3. CASE ClientStep
  <2>1. CASE ClientPacket /\ UNCHANGED <<svVars, sizes>>
    BY <2>1, ClientPacketStep
  <2>2. CASE /\ \/ ClientPosts
                \/ Client!DrainPoll
                \/ Client!PollComplete
                \/ Client!PollProgress
             /\ UNCHANGED netVars /\ UNCHANGED <<svVars, sizes>>
    <3>1. /\ SidesInv' /\ Continues(cl_cum', cl_cum)
          /\ \A p \in Paths : ClientGiven(p)' = ClientGiven(p)
      BY <1>1, <2>2, ClientMoves
    <3>2. sv_cum' = sv_cum /\ \A p \in Paths : ServerGiven(p)' = ServerGiven(p)
      BY <2>2 DEF svVars, ServerGiven
    <3>3. Continues(sv_cum', sv_cum)
      BY <1>2, <3>2
    <3> QED
      BY <2>2, <3>1, <3>2, <3>3, QuietStep
  <2> QED
    BY <1>3, <2>1, <2>2 DEF ClientStep
<1>4. CASE ServerStep
  <2>1. CASE ServerPacket /\ UNCHANGED <<clVars, sizes>>
    BY <2>1, ServerPacketStep
  <2>2. CASE /\ \/ ServerPosts
                \/ Server!DrainPoll
                \/ Server!PollComplete
                \/ Server!PollProgress
             /\ UNCHANGED netVars /\ UNCHANGED <<clVars, sizes>>
    <3>1. /\ SidesInv' /\ Continues(sv_cum', sv_cum)
          /\ \A p \in Paths : ServerGiven(p)' = ServerGiven(p)
      BY <1>1, <2>2, ServerMoves
    <3>2. cl_cum' = cl_cum /\ \A p \in Paths : ClientGiven(p)' = ClientGiven(p)
      BY <2>2 DEF clVars, ClientGiven
    <3>3. Continues(cl_cum', cl_cum)
      BY <1>2, <3>2
    <3> QED
      BY <2>2, <3>1, <3>2, <3>3, QuietStep
  <2> QED
    BY <1>4, <2>1, <2>2 DEF ServerStep
<1>5. CASE Network
  <2>1. PICK p \in Paths : Leave(p) \/ Arrive(p) \/ Overrun(p)
    BY <1>5 DEF Network
  <2> QED
    BY <2>1, LeaveStep, ArriveStep, OverrunStep
<1>6. CASE UNCHANGED vars
  <2>1. /\ UNCHANGED <<cl_active, cl_table, cl_call, cl_post_turn, cl_cum>>
        /\ UNCHANGED <<sv_active, sv_table, sv_call, sv_post_turn, sv_cum>>
        /\ UNCHANGED sizes /\ UNCHANGED netVars
    BY <1>6 DEF vars, clVars, svVars
  <2>2. /\ SidesInv' /\ cl_cum' = cl_cum /\ sv_cum' = sv_cum
        /\ \A p \in Paths : ClientGiven(p)' = ClientGiven(p)
        /\ \A p \in Paths : ServerGiven(p)' = ServerGiven(p)
    BY <1>1, <2>1, SidesUnchanged
  <2>3. Continues(cl_cum', cl_cum) /\ Continues(sv_cum', sv_cum)
    BY <1>2, <2>2
  <2> QED
    BY <2>1, <2>2, <2>3, QuietStep
<1> QED
  BY <1>3, <1>4, <1>5, <1>6 DEF Next

(* In every state of a transfer, with or without losses, the queues of a    *)
(* path hold the packets of their positions.                                *)
THEOREM PacketsKeepTheirPlace == Spec => []IndInv
<1>1. Init => IndInv
  BY InitInv
<1>2. IndInv /\ [Next]_vars => IndInv'
  BY StepInv
<1> QED
  BY <1>1, <1>2, PTL DEF Spec

-----------------------------------------------------------------------------
(***************************************************************************)
(* From positions to packets.                                              *)
(***************************************************************************)

(* Packet a is packet b or comes after it, in its message or in a later one.*)
NotBefore(a, b) == a.msg > b.msg \/ (a.msg = b.msg /\ a.i >= b.i)

(* A history of packet counts: every message has packets.                  *)
Counts(cum) == /\ cum \in Seq(Nat)
               /\ \A j, k \in 1 .. Len(cum) : j < k => cum[j] < cum[k]

(* The message of a packet that fits is in the history.                     *)
LEMMA FitsFacts ==
  ASSUME NEW c, NEW p, NEW a, Counts(c), Fits(c, p, a)
  PROVE  /\ a.msg \in Nat /\ a.i \in Nat /\ Len(c) \in Nat
         /\ a.msg + 1 \in 1 .. Len(c) /\ a.msg + 2 \in 1 .. Len(c)
         /\ a.msg + 1 \in 1 .. MaxMsgs + 1 /\ a.msg + 2 \in 1 .. MaxMsgs + 1
         /\ a.i % NumPath = p
         /\ c[a.msg + 1] \in Nat /\ c[a.msg + 2] \in Nat
<1>1. PICK m \in 0 .. MaxMsgs - 1, i \in Nat, n \in Nat :
        m = a.msg /\ i = a.i /\ n = Len(c)
  BY DEF Fits, Packets, Counts
<1>2. m + 2 <= n /\ a.i % NumPath = p
  BY <1>1 DEF Fits
<1>3. /\ m \in Nat /\ m + 1 \in 1 .. n /\ m + 2 \in 1 .. n
      /\ m + 1 \in 1 .. MaxMsgs + 1 /\ m + 2 \in 1 .. MaxMsgs + 1
  BY ONLY <1>2, m \in 0 .. MaxMsgs - 1, n \in Nat, TransferAssumption
<1>4. c[m + 1] \in Nat /\ c[m + 2] \in Nat
  BY ONLY <1>1, <1>3, Counts(c), SMTT(30) DEF Counts
<1> QED
  BY <1>1, <1>2, <1>3, <1>4, Zenon

(* Two packets of a path are in the order of their positions, whichever     *)
(* side counted either.                                                     *)
LEMMA PositionOrder ==
  ASSUME NEW c1, NEW c2, NEW p \in Paths, NEW a, NEW b,
         Counts(c1), Counts(c2),
         \A m \in 1 .. MaxMsgs + 1 : m <= Len(c1) /\ m <= Len(c2) => c1[m] = c2[m],
         Fits(c1, p, a), Fits(c2, p, b), Index(c1, a) >= Index(c2, b)
  PROVE  NotBefore(a, b)
<1> USE TransferAssumption
<1>1. /\ a.msg \in Nat /\ a.msg + 2 \in 1 .. Len(c1) /\ a.msg + 1 \in 1 .. Len(c1)
      /\ a.msg + 2 \in 1 .. MaxMsgs + 1 /\ a.msg + 1 \in 1 .. MaxMsgs + 1
      /\ a.i \in Nat /\ Len(c1) \in Nat /\ a.i % NumPath = p
      /\ c1[a.msg + 1] \in Nat /\ c1[a.msg + 2] \in Nat
  BY FitsFacts
<1>2. /\ b.msg \in Nat /\ b.msg + 2 \in 1 .. Len(c2) /\ b.msg + 1 \in 1 .. Len(c2)
      /\ b.i \in Nat /\ Len(c2) \in Nat /\ b.i % NumPath = p
      /\ c2[b.msg + 1] \in Nat
  BY FitsFacts
<1>3. PICK x1 \in Nat, y1 \in Nat, x2 \in Nat :
        x1 = c1[a.msg + 1] /\ y1 = c1[a.msg + 2] /\ x2 = c2[b.msg + 1]
  BY <1>1, <1>2, Zenon
<1>4. PICK i \in Nat, d \in Nat : i = a.i /\ d = i \div NumPath /\ i = NumPath * d + p
  <2>1. a.i \in Nat /\ NumPath \in Nat \ {0} /\ a.i % NumPath = p
    BY <1>1
  <2> QED
    BY ONLY <2>1, DivMod, ZenonT(30)
<1>5. PICK j \in Nat, e \in Nat : j = b.i /\ e = j \div NumPath /\ j = NumPath * e + p
  <2>1. b.i \in Nat /\ NumPath \in Nat \ {0} /\ b.i % NumPath = p
    BY <1>2
  <2> QED
    BY ONLY <2>1, DivMod, ZenonT(30)
<1>6. x1 + d < y1 /\ x1 + d >= x2 + e
  BY <1>3, <1>4, <1>5 DEF Fits, Index
<1>7. CASE a.msg < b.msg
  <2>1. PICK m \in Nat, r \in Nat, n \in Nat, o \in Nat :
          m = a.msg /\ r = b.msg /\ n = Len(c1) /\ o = Len(c2)
    BY <1>1, <1>2, Zenon
  <2>2. m + 2 \in 1 .. n /\ m + 2 \in 1 .. MaxMsgs + 1 /\ r + 1 \in 1 .. o /\ m < r
    BY <1>1, <1>2, <1>7, <2>1, Zenon
  <2>3. m + 2 <= r + 1 /\ m + 2 \in 1 .. o /\ m + 2 <= n /\ m + 2 <= o
    BY ONLY <2>2, m \in Nat, r \in Nat, n \in Nat, o \in Nat
  <2>4. c1[m + 2] = c2[m + 2]
    BY <2>1, <2>2, <2>3, Zenon
  <2>5. c2[m + 2] = y1 /\ c2[r + 1] = x2
    BY <1>3, <2>1, <2>4, Zenon
  <2>6. y1 <= x2
    <3>1. CASE m + 2 = r + 1
      BY ONLY <2>5, <3>1, x2 \in Nat
    <3>2. CASE m + 2 # r + 1
      <4>1. m + 2 < r + 1
        BY ONLY <2>3, <3>2, m \in Nat, r \in Nat
      <4>2. c2[m + 2] < c2[r + 1]
        BY <2>1, <2>2, <2>3, <4>1, Zenon DEF Counts
      <4> QED
        BY ONLY <2>5, <4>2, x2 \in Nat, y1 \in Nat
    <3> QED
      BY <3>1, <3>2
  <2> QED
    BY <1>6, <2>6
<1>8. CASE a.msg = b.msg
  <2>1. x1 = x2
    <3>1. a.msg + 1 <= Len(c1) /\ a.msg + 1 <= Len(c2)
      BY ONLY <1>1, <1>2, <1>8
    <3>2. c1[a.msg + 1] = c2[a.msg + 1]
      BY <1>1, <3>1
    <3> QED
      BY <1>3, <1>8, <3>2, Zenon
  <2>2. d >= e
    BY <1>6, <2>1
  <2>3. NumPath * d >= NumPath * e
    <3>1. PICK f \in Nat : d = e + f
      BY <2>2
    <3>2. NumPath * d = NumPath * e + NumPath * f /\ NumPath * f \in Nat
      BY <3>1
    <3> QED
      BY <3>2
  <2>4. i >= j
    BY <1>4, <1>5, <2>3, SMTT(30) DEF Paths
  <2> QED
    BY <1>4, <1>5, <1>8, <2>4 DEF NotBefore
<1>9. CASE a.msg > b.msg
  BY <1>9 DEF NotBefore
<1> QED
  BY <1>1, <1>2, <1>7, <1>8, <1>9

(* What has landed, by path and position.                                   *)
LEMMA LandedMet ==
  ASSUME IndInv, NEW l \in Landed
  PROVE  \E p \in Paths, k \in Nat : Met(l, p, k)
<1>1. PICK p \in Paths : l \in ToSet(landed[p])
  BY DEF Landed
<1>2. PICK k \in DOMAIN landed[p] : l = landed[p][k]
  BY <1>1 DEF ToSet
<1>3. landed[p] \in Seq([packet : Packets, meant : Packets])
  BY PathFacts
<1>4. k \in 1 .. Len(landed[p]) /\ k - 1 \in Nat
  BY <1>3
<1>5. Met(landed[p][k], p, k - 1)
  BY <1>4, PathFacts
<1> QED
  BY <1>2, <1>4, <1>5

(* The histories of the two sides are such counts.                          *)
LEMMA CountsAgree ==
  ASSUME SidesInv
  PROVE  /\ Counts(cl_cum) /\ Counts(sv_cum)
         /\ \A m \in 1 .. MaxMsgs + 1 :
              m <= Len(cl_cum) /\ m <= Len(sv_cum) => cl_cum[m] = sv_cum[m]
         /\ \A m \in 1 .. MaxMsgs + 1 :
              m <= Len(sv_cum) /\ m <= Len(cl_cum) => sv_cum[m] = cl_cum[m]
  BY DEF SidesInv, Posting, Counts, SameCount

(* Whatever is lost, no receive is filled by a packet before the one it was *)
(* posted for: packets only move up, on every path and for every limit.     *)
THEOREM LossOnlyMovesUp == Spec => []NeverStale
<1>1. IndInv => NeverStale
  <2> SUFFICES ASSUME IndInv, NEW l \in Landed PROVE NotBefore(l.packet, l.meant)
    BY DEF NeverStale, NotBefore
  <2>1. PICK p \in Paths, k \in Nat : Met(l, p, k)
    BY LandedMet
  <2>2. SidesInv
    BY DEF IndInv
  <2>3. PICK a, b : a = l.packet /\ b = l.meant
    OBVIOUS
  <2>4. /\ Fits(cl_cum, p, a) /\ Due(Index(cl_cum, a), k)
        /\ Fits(sv_cum, p, b) /\ Index(sv_cum, b) = k
    BY <2>1, <2>3 DEF Met
  <2>5. Index(cl_cum, a) \in Int
    BY <2>2, <2>4, IndexNat
  <2>6. Index(cl_cum, a) >= Index(sv_cum, b)
    BY <2>4, <2>5 DEF Due
  <2>7. NotBefore(a, b)
    BY <2>2, <2>4, <2>6, CountsAgree, PositionOrder
  <2> QED
    BY <2>3, <2>7
<1> QED
  BY <1>1, PacketsKeepTheirPlace, PTL

(* Without losses every packet fills the receive that was posted for it,    *)
(* although the sides wait for room at different packets and a packet does  *)
(* not say which one it is.                                                 *)
THEOREM PacketsMeetTheirReceives ==
  ASSUME MayOverrun = FALSE
  PROVE  Spec => []SamePacket
<1>1. IndInv => SamePacket
  <2> SUFFICES ASSUME IndInv, NEW l \in Landed PROVE l.packet = l.meant
    BY DEF SamePacket
  <2>1. PICK p \in Paths, k \in Nat : Met(l, p, k)
    BY LandedMet
  <2>2. SidesInv
    BY DEF IndInv
  <2>3. PICK a \in Packets, b \in Packets : a = l.packet /\ b = l.meant
    BY <2>1 DEF Met
  <2>4. /\ Fits(cl_cum, p, a) /\ Due(Index(cl_cum, a), k)
        /\ Fits(sv_cum, p, b) /\ Index(sv_cum, b) = k
    BY <2>1, <2>3 DEF Met
  <2>5. Index(cl_cum, a) = k
    BY <2>4 DEF Due
  <2>6. Index(cl_cum, a) >= Index(sv_cum, b) /\ Index(sv_cum, b) >= Index(cl_cum, a)
    BY <2>4, <2>5
  <2>7. NotBefore(a, b)
    BY <2>2, <2>4, <2>6, CountsAgree, PositionOrder
  <2>8. NotBefore(b, a)
    BY <2>2, <2>4, <2>6, CountsAgree, PositionOrder
  <2>9. a.msg = b.msg /\ a.i = b.i
    BY <2>7, <2>8, TransferAssumption DEF NotBefore, Packets
  <2>10. a = b
    BY <2>9 DEF Packets
  <2> QED
    BY <2>3, <2>10
<1> QED
  BY <1>1, PacketsKeepTheirPlace, PTL

-----------------------------------------------------------------------------
(***************************************************************************)
(* What the two applications of a transfer see, for every depth the table  *)
(* has slots for: the memory they are given back is left alone, a message  *)
(* reported to the receiver is there in full, and the transfer is a        *)
(* MessageStream.                                                          *)
(*                                                                         *)
(* So far the proofs say where the packets are.  Here the counters the     *)
(* polls keep on either side are tied to that: what a path has completed,  *)
(* polled or not, is what the network has taken from its send queue, or    *)
(* put into its receives, and the carried-over counter the outer poll      *)
(* compares is what is left of it after the messages reported.             *)
(***************************************************************************)

(* The application never has more messages outstanding than the table has   *)
(* slots: tx_depth and rx_depth are at most MPRUD_TABLE_LEN.                *)
DepthsFit == TxDepth <= TableLen /\ RxDepth <= TableLen

WqeType == [valid : {0, 1}, iter_each : [Paths -> Nat]]

Status == [posted : Nat, polled : Nat, tot_pkt : Nat, comp_temp : Nat,
           wqe_idx : 0 .. TableLen - 1, qlen : Nat]

(* The table of one side holds the packet counts of the messages posted and *)
(* not reported, at the slots of their sequence numbers.                    *)
Window(table, done, cum, depth) ==
  /\ done \in Nat /\ done <= table.sqn /\ table.sqn - done <= depth
  /\ table.head = done % TableLen
  /\ table.next = table.sqn % TableLen
  /\ \A m \in done .. table.sqn - 1, p \in Paths :
       table.wqe[m % TableLen].iter_each[p] = cum[m + 2] - cum[m + 1]

(* The counters of one path of a side that has reported messages of base    *)
(* packets on it: polled is what is left of tot_pkt.                        *)
Counted(s, c, base) ==
  /\ s \in Status /\ c \in Nat
  /\ c <= s.qlen
  /\ s.polled = s.tot_pkt - base

Counters(stat, cq, base) ==
  /\ stat \in [Paths -> Status] /\ cq \in [Paths -> Nat]
  /\ \A p \in Paths : Counted(stat[p], cq[p], base)

(* The packets of path p a side's card has completed, polled or not.        *)
Completed(stat, cq, p) == stat[p].tot_pkt + cq[p]

ClientBooks ==
  /\ Window(cl_table, cl_done, cl_cum, TxDepth)
  /\ Counters(cl_stat, cl_cq, cl_cum[cl_done + 1])
  /\ cl_tot \in [posted : Nat, polled : Nat] /\ cl_poll_turn \in Paths

ServerBooks ==
  /\ Window(sv_table, sv_done, sv_cum, RxDepth)
  /\ Counters(sv_stat, sv_cq, sv_cum[sv_done + 1])
  /\ sv_tot \in [posted : Nat, polled : Nat] /\ sv_poll_turn \in Paths

(* A completion of the client is a packet that has left its send queue, one *)
(* of the server a receive that was filled.                                 *)
PathBooks(p) ==
  /\ Completed(cl_stat, cl_cq, p) + Len(sq[p]) = ClientGiven(p)
  /\ Completed(sv_stat, sv_cq, p) = Len(landed[p])

BooksInv ==
  /\ ClientBooks
  /\ ServerBooks
  /\ \A p \in Paths : PathBooks(p)

-----------------------------------------------------------------------------
(***************************************************************************)
(* The table of one side.                                                  *)
(***************************************************************************)

(* mprud_store_wr has put a message of n packets per path in slot next.     *)
Stored(table, table2, n) ==
  /\ table2.sqn = table.sqn + 1
  /\ table2.head = table.head
  /\ table2.next = (IF table.next + 1 = TableLen THEN 0 ELSE table.next + 1)
  /\ \A p \in Paths : table2.wqe[table.next].iter_each[p] = n
  /\ \A k \in 0 .. TableLen - 1, p \in Paths :
       k # table.next => table2.wqe[k].iter_each[p] = table.wqe[k].iter_each[p]

(* mprud_outer_poll has released slot head.                                 *)
Freed(table, table2) ==
  /\ table2.sqn = table.sqn
  /\ table2.next = table.next
  /\ table2.head = (IF table.head + 1 = TableLen THEN 0 ELSE table.head + 1)
  /\ \A k \in 0 .. TableLen - 1, p \in Paths :
       table2.wqe[k].iter_each[p] = table.wqe[k].iter_each[p]

(* A new message takes a slot no message of the window has.                 *)
LEMMA WindowStored ==
  ASSUME NEW table, NEW table2, NEW done, NEW cum, NEW cum2, NEW depth \in Nat,
         NEW n \in Nat,
         Window(table, done, cum, depth), Stored(table, table2, n),
         depth <= TableLen, table.sqn \in Nat, table.sqn - done < depth,
         Continues(cum2, cum), Len(cum) = table.sqn + 1,
         cum[table.sqn + 1] \in Nat,
         cum2[table.sqn + 2] = cum[table.sqn + 1] + n
  PROVE  Window(table2, done, cum2, depth)
<1> USE TransferAssumption
<1> DEFINE s == table.sqn
<1>1. s \in Nat /\ done \in Nat /\ done <= s /\ s - done < depth
  BY DEF Window
<1>2. table.next = s % TableLen /\ table.head = done % TableLen
  BY DEF Window
<1>3. /\ (s + 1) % TableLen = (IF (s % TableLen) + 1 = TableLen THEN 0 ELSE (s % TableLen) + 1)
      /\ s % TableLen \in 0 .. TableLen - 1
  BY ONLY <1>1, ModSucc, DivMod, TransferAssumption
<1>4. /\ table2.sqn = s + 1 /\ table2.head = done % TableLen
      /\ table2.next = (s + 1) % TableLen
  BY <1>2, <1>3 DEF Stored
<1>5. s + 1 - done <= depth /\ done <= s + 1
  BY ONLY <1>1, depth \in Nat
<1>6. ASSUME NEW m \in done .. s + 1 - 1, NEW p \in Paths
      PROVE  table2.wqe[m % TableLen].iter_each[p] = cum2[m + 2] - cum2[m + 1]
  <2>1. m \in Nat /\ m <= s /\ done <= m
    BY ONLY <1>1, m \in done .. s + 1 - 1
  <2>2. m % TableLen \in 0 .. TableLen - 1
    BY ONLY <2>1, DivMod, TransferAssumption
  <2>3. CASE m = s
    <3>1. table2.wqe[m % TableLen].iter_each[p] = n
      BY <1>2, <2>3 DEF Stored
    <3>2. cum2[s + 1] = cum[s + 1]
      <4>1. s + 1 \in 1 .. Len(cum)
        BY <1>1
      <4> QED
        BY <4>1 DEF Continues
    <3> QED
      BY <2>3, <3>1, <3>2
  <2>4. CASE m # s
    <3>1. m \in done .. s - 1 /\ m < s
      BY ONLY <1>1, <2>1, <2>4
    <3>2. m % TableLen # s % TableLen
      <4> SUFFICES ASSUME s % TableLen = m % TableLen PROVE FALSE
        OBVIOUS
      <4>1. s - m < TableLen /\ m <= s
        BY ONLY <1>1, <2>1, depth \in Nat, depth <= TableLen, TransferAssumption
      <4> QED
        BY ONLY <1>1, <2>1, <2>4, <4>1, s % TableLen = m % TableLen, ModDistinct,
                TransferAssumption
    <3>3. table2.wqe[m % TableLen].iter_each[p] = table.wqe[m % TableLen].iter_each[p]
      BY <1>2, <2>2, <3>2 DEF Stored
    <3>4. table.wqe[m % TableLen].iter_each[p] = cum[m + 2] - cum[m + 1]
      BY <3>1 DEF Window
    <3>5. m + 1 \in 1 .. s + 1 /\ m + 2 \in 1 .. s + 1
      BY ONLY <1>1, <2>1, <3>1
    <3>6. cum2[m + 1] = cum[m + 1] /\ cum2[m + 2] = cum[m + 2]
      BY <3>5 DEF Continues
    <3> QED
      BY <3>3, <3>4, <3>6
  <2> QED
    BY <2>3, <2>4
<1>7. table2.sqn - done <= depth /\ done <= table2.sqn
  BY ONLY <1>1, <1>4, <1>5, depth \in Nat
<1>8. \A m \in done .. table2.sqn - 1, p \in Paths :
        table2.wqe[m % TableLen].iter_each[p] = cum2[m + 2] - cum2[m + 1]
  <2>1. table2.sqn - 1 = s + 1 - 1
    BY ONLY <1>1, <1>4
  <2> QED
    BY ONLY <1>6, <2>1
<1>9. table2.next = table2.sqn % TableLen
  BY ONLY <1>4, Zenon
<1> QED
  BY ONLY <1>1, <1>4, <1>7, <1>8, <1>9 DEF Window

(* The oldest message leaves the window.                                    *)
LEMMA WindowFreed ==
  ASSUME NEW table, NEW table2, NEW done, NEW done2, NEW cum, NEW depth \in Nat,
         Window(table, done, cum, depth), Freed(table, table2),
         table.sqn \in Nat, done < table.sqn, done2 = done + 1
  PROVE  Window(table2, done2, cum, depth)
<1> USE TransferAssumption
<1> DEFINE s == table.sqn
<1>1. s \in Nat /\ done \in Nat /\ done < s /\ s - done <= depth
  BY DEF Window
<1>2. table.next = s % TableLen /\ table.head = done % TableLen
  BY DEF Window
<1>3. (done + 1) % TableLen
        = (IF (done % TableLen) + 1 = TableLen THEN 0 ELSE (done % TableLen) + 1)
  BY ONLY <1>1, ModSucc, TransferAssumption
<1>4. /\ table2.sqn = s /\ table2.next = s % TableLen
      /\ table2.head = done2 % TableLen
  BY <1>2, <1>3 DEF Freed
<1>5. done2 \in Nat /\ done2 <= s /\ s - done2 <= depth
  BY ONLY <1>1, depth \in Nat, done2 = done + 1
<1>6. ASSUME NEW m \in done2 .. s - 1, NEW p \in Paths
      PROVE  table2.wqe[m % TableLen].iter_each[p] = cum[m + 2] - cum[m + 1]
  <2>1. m \in Nat /\ m \in done .. s - 1
    BY ONLY <1>1, <1>5, m \in done2 .. s - 1, done2 = done + 1
  <2>2. m % TableLen \in 0 .. TableLen - 1
    BY ONLY <2>1, DivMod, TransferAssumption
  <2> QED
    BY <2>1, <2>2 DEF Freed, Window
<1> QED
  BY <1>4, <1>5, <1>6 DEF Window

-----------------------------------------------------------------------------
(***************************************************************************)
(* The steps of the client.                                                *)
(***************************************************************************)

(* The inner poll takes a completion of the path of the turn, if there is   *)
(* one: the path has completed as many packets as before, one more of them  *)
(* polled.                                                                  *)
LEMMA ClientInnerPoll ==
  ASSUME SidesInv, ClientBooks, Client!InnerPoll, NEW base \in Nat,
         base = cl_cum[cl_done + 1]
  PROVE  /\ Counters(cl_stat', cl_cq', base)
         /\ cl_tot' \in [posted : Nat, polled : Nat] /\ cl_poll_turn' \in Paths
         /\ \A p \in Paths : Completed(cl_stat', cl_cq', p) = Completed(cl_stat, cl_cq, p)
<1> USE TransferAssumption
<1>1. /\ cl_active = NumPath /\ cl_table \in TableType
      /\ Counters(cl_stat, cl_cq, base)
      /\ cl_tot \in [posted : Nat, polled : Nat] /\ cl_poll_turn \in Paths
  BY DEF SidesInv, ClientBooks
<1>2. PICK t : t = cl_poll_turn % NumPath
  OBVIOUS
<1>3. t \in Paths /\ (cl_poll_turn + 1) % NumPath \in Paths
  <2>1. cl_poll_turn \in Nat /\ cl_poll_turn + 1 \in Nat
    BY <1>1 DEF Paths
  <2>2. \A k \in Nat : k % NumPath \in 0 .. NumPath - 1
    BY ONLY DivMod, TransferAssumption
  <2> QED
    BY <1>2, <2>1, <2>2 DEF Paths
<1>4. cl_poll_turn' \in Paths
  BY <1>1, <1>3 DEF Client!InnerPoll
<1>5. CASE UNCHANGED <<cl_stat, cl_tot, cl_cq>>
  BY <1>1, <1>4, <1>5 DEF Counters, Completed
<1>6. CASE /\ cl_cq[t] > 0
           /\ cl_stat' = [cl_stat EXCEPT ![t] = Client!Polled(cl_stat[t], t)]
           /\ cl_tot' = [cl_tot EXCEPT !.polled = cl_tot.polled + 1]
           /\ cl_cq' = [cl_cq EXCEPT ![t] = cl_cq[t] - 1]
  <2>1. /\ cl_stat \in [Paths -> Status] /\ cl_cq \in [Paths -> Nat]
        /\ \A p \in Paths : Counted(cl_stat[p], cl_cq[p], base)
    BY <1>1 DEF Counters
  <2>2. PICK s, c : s = cl_stat[t] /\ c = cl_cq[t]
    OBVIOUS
  <2>3. s \in Status /\ c \in Nat /\ c > 0 /\ c <= s.qlen /\ s.polled = s.tot_pkt - base
    BY <1>3, <1>6, <2>1, <2>2 DEF Counted
  <2>4. PICK temp \in Nat, idx \in 0 .. TableLen - 1 :
          Client!Polled(s, t) = [s EXCEPT !.polled = s.polled + 1,
                                          !.tot_pkt = s.tot_pkt + 1,
                                          !.qlen = s.qlen - 1,
                                          !.comp_temp = temp, !.wqe_idx = idx]
    <3>1. /\ s.comp_temp + 1 \in Nat
          /\ s.wqe_idx \in 0 .. TableLen - 1
      BY <2>3 DEF Status
    <3>2. Client!Wrap(s.wqe_idx + 1) \in 0 .. TableLen - 1
      BY <3>1 DEF Client!Wrap
    <3> QED
      BY <3>1, <3>2 DEF Client!Polled
  <2>5. PICK s2 : s2 = Client!Polled(s, t)
    OBVIOUS
  <2>6. /\ s2 \in Status /\ c - 1 \in Nat /\ c - 1 <= s2.qlen
        /\ s2.polled = s2.tot_pkt - base /\ s2.tot_pkt = s.tot_pkt + 1
    <3>1. /\ s.posted \in Nat /\ s.polled + 1 \in Nat /\ s.tot_pkt + 1 \in Nat
          /\ s.tot_pkt \in Nat /\ s.qlen - 1 \in Nat /\ c - 1 <= s.qlen - 1
          /\ s.polled + 1 = (s.tot_pkt + 1) - base /\ c - 1 \in Nat
      BY ONLY <2>3, base \in Nat DEF Status
    <3>2. /\ s2.polled = s.polled + 1 /\ s2.tot_pkt = s.tot_pkt + 1
          /\ s2.qlen = s.qlen - 1
      BY ONLY <2>3, <2>4, <2>5 DEF Status
    <3>3. s2 \in Status
      BY ONLY <2>3, <2>4, <2>5, <3>1, temp \in Nat, idx \in 0 .. TableLen - 1 DEF Status
    <3> QED
      BY ONLY <3>1, <3>2, <3>3, Zenon
  <2>7. Counted(s2, c - 1, base) /\ s2.tot_pkt + (c - 1) = s.tot_pkt + c
    <3>1. s.tot_pkt \in Nat
      BY <2>3 DEF Status
    <3> QED
      BY <2>3, <2>6, <3>1 DEF Counted
  <2>8. ASSUME NEW p \in Paths
        PROVE  /\ cl_stat'[p] = IF p = t THEN s2 ELSE cl_stat[p]
               /\ cl_cq'[p] = IF p = t THEN c - 1 ELSE cl_cq[p]
    BY <1>6, <2>1, <2>2, <2>5
  <2>9. cl_stat' \in [Paths -> Status] /\ cl_cq' \in [Paths -> Nat]
    BY ONLY <1>3, <1>6, <2>1, <2>2, <2>5, <2>6
  <2>10. ASSUME NEW p \in Paths
         PROVE  /\ Counted(cl_stat'[p], cl_cq'[p], base)
                /\ Completed(cl_stat', cl_cq', p) = Completed(cl_stat, cl_cq, p)
    <3>1. CASE p = t
      BY <2>2, <2>7, <2>8, <3>1 DEF Completed
    <3>2. CASE p # t
      BY <2>1, <2>8, <3>2 DEF Completed
    <3> QED
      BY <3>1, <3>2
  <2>11. cl_tot' \in [posted : Nat, polled : Nat]
    BY <1>1, <1>6
  <2> QED
    BY <1>4, <2>9, <2>10, <2>11 DEF Counters
<1> QED
  BY <1>1, <1>2, <1>5, <1>6 DEF Client!InnerPoll

(* A message is posted: it joins the window, and no counter moves.          *)
LEMMA ClientPostBooks ==
  ASSUME SidesInv, ClientBooks, ClientPosts, UNCHANGED <<svVars, sizes>>,
         TxDepth <= TableLen
  PROVE  /\ ClientBooks'
         /\ \A p \in Paths : Completed(cl_stat', cl_cq', p) = Completed(cl_stat, cl_cq, p)
<1> USE TransferAssumption
<1> DEFINE sqn == cl_table.sqn
           n == IterEach(sizes[sqn + 1], NumPath)
<1>1. /\ Posting(sizes, sqn, cl_call, cl_post_turn, cl_cum)
      /\ cl_active = NumPath /\ cl_table \in TableType
  BY DEF SidesInv
<1>2. /\ Window(cl_table, cl_done, cl_cum, TxDepth)
      /\ Counters(cl_stat, cl_cq, cl_cum[cl_done + 1])
      /\ cl_tot \in [posted : Nat, polled : Nat] /\ cl_poll_turn \in Paths
  BY DEF ClientBooks
<1>3. /\ UNCHANGED <<cl_stat, cl_cq, cl_tot, cl_poll_turn, cl_done>>
      /\ sqn < MaxMsgs /\ sqn - cl_done < TxDepth
      /\ cl_cum' = Append(cl_cum, cl_cum[Len(cl_cum)] + n)
  BY <1>1, SameCut DEF ClientPosts, Client!Post
<1>4. Continues(cl_cum', cl_cum)
  BY ClientMoves
<1>5. /\ sqn \in Nat /\ sqn + 1 \in 1 .. MaxMsgs
      /\ Len(cl_cum) = sqn + 1 /\ cl_cum \in Seq(Nat)
  <2>1. sqn \in Nat
    BY ONLY <1>1, PostingFacts
  <2> QED
    BY <1>1, <1>3, <2>1 DEF Posting
<1>6. n \in Nat
  BY ONLY <1>1, <1>5, PostingFacts
<1>7. cl_cum[sqn + 1] \in Nat /\ cl_cum'[sqn + 2] = cl_cum[sqn + 1] + n
  <2>1. cl_cum[sqn + 1] \in Nat
    BY ONLY <1>5
  <2>2. PICK x \in Nat : x = cl_cum[sqn + 1] + n
    BY ONLY <1>6, <2>1
  <2>3. cl_cum' = Append(cl_cum, x)
    BY <1>3, <1>5, <2>2, Zenon
  <2>4. cl_cum'[sqn + 2] = x
    BY ONLY <1>5, <2>3, x \in Nat
  <2> QED
    BY ONLY <2>1, <2>2, <2>4, Zenon
<1>8. PICK table2, cum2 : table2 = cl_table' /\ cum2 = cl_cum'
  OBVIOUS
<1>9. cl_table.next \in 0 .. TableLen - 1
  <2>1. cl_table.next = sqn % TableLen
    BY ONLY <1>2 DEF Window
  <2>2. sqn % TableLen \in 0 .. TableLen - 1
    BY ONLY <1>5, DivMod, TransferAssumption
  <2> QED
    BY ONLY <2>1, <2>2
<1>10. Stored(cl_table, table2, n)
  <2> DEFINE each == [p \in Paths |-> IF p < NumPath THEN n ELSE 0]
  <2>1. table2 = [cl_table EXCEPT !.next = Client!Wrap(cl_table.next + 1),
                     !.sqn = sqn + 1,
                     !.wqe[cl_table.next] = [valid |-> 1, iter_each |-> each]]
    BY <1>1, <1>8, SameCut
       DEF ClientPosts, Client!Post, Client!StoreWr, Client!Paths, Paths
  <2>2. \A p \in Paths : each[p] = n
    BY DEF Paths
  <2>3. cl_table.wqe \in [0 .. TableLen - 1 -> WqeType]
    BY <1>1 DEF TableType, WqeType
  <2>4. cl_table \in TableType
    BY <1>1
  <2>5. /\ table2.sqn = sqn + 1 /\ table2.head = cl_table.head
        /\ table2.next = Client!Wrap(cl_table.next + 1)
        /\ table2.wqe = [cl_table.wqe EXCEPT ![cl_table.next]
                            = [valid |-> 1, iter_each |-> each]]
    BY ONLY <2>1, <2>4 DEF TableType
  <2>6. /\ table2.wqe[cl_table.next].iter_each = each
        /\ \A k \in 0 .. TableLen - 1 :
             k # cl_table.next => table2.wqe[k] = cl_table.wqe[k]
    <3>1. PICK w : w = [valid |-> 1, iter_each |-> each]
      OBVIOUS
    <3>2. /\ table2.wqe[cl_table.next] = w
          /\ \A k \in 0 .. TableLen - 1 :
               k # cl_table.next => table2.wqe[k] = cl_table.wqe[k]
      BY ONLY <1>9, <2>3, <2>5, <3>1
    <3>3. w.iter_each = each
      BY ONLY <3>1
    <3> QED
      BY ONLY <3>2, <3>3
  <2> QED
    BY ONLY <2>2, <2>5, <2>6 DEF Stored, Client!Wrap
<1>11. Window(table2, cl_done, cum2, TxDepth)
  <2>1. TxDepth \in Nat
    OBVIOUS
  <2>2. Continues(cum2, cl_cum) /\ cum2[sqn + 2] = cl_cum[sqn + 1] + n
    BY <1>4, <1>7, <1>8, Zenon
  <2> QED
    BY ONLY <1>2, <1>3, <1>5, <1>6, <1>7, <1>10, <2>1, <2>2, TxDepth <= TableLen,
            WindowStored
<1>12. cl_cum'[cl_done' + 1] = cl_cum[cl_done + 1]
  <2>1. cl_done + 1 \in 1 .. Len(cl_cum)
    BY ONLY <1>2, <1>5 DEF Window
  <2> QED
    BY ONLY <1>3, <1>4, <2>1 DEF Continues
<1>13. ClientBooks'
  BY <1>2, <1>3, <1>8, <1>11, <1>12, Zenon DEF ClientBooks
<1> QED
  BY <1>3, <1>13 DEF Completed

(* A packet is posted: its path has one more to complete.                   *)
LEMMA ClientPacketBooks ==
  ASSUME SidesInv, ClientBooks, Client!PostPacket
  PROVE  /\ ClientBooks'
         /\ \A p \in Paths : Completed(cl_stat', cl_cq', p) = Completed(cl_stat, cl_cq, p)
<1> USE TransferAssumption
<1>1. /\ Window(cl_table, cl_done, cl_cum, TxDepth)
      /\ Counters(cl_stat, cl_cq, cl_cum[cl_done + 1])
      /\ cl_tot \in [posted : Nat, polled : Nat] /\ cl_poll_turn \in Paths
  BY DEF ClientBooks
<1>2. PICK t, base : t = cl_post_turn /\ base = cl_cum[cl_done + 1]
  OBVIOUS
<1>3. t \in Paths
  BY <1>2 DEF SidesInv, Posting
<1>4. /\ UNCHANGED <<cl_table, cl_cum, cl_poll_turn, cl_cq, cl_done>>
      /\ cl_tot' = [cl_tot EXCEPT !.posted = cl_tot.posted + 1]
      /\ cl_stat' = [cl_stat EXCEPT ![t].posted = cl_stat[t].posted + 1,
                                    ![t].qlen = cl_stat[t].qlen + 1]
  BY <1>2 DEF Client!PostPacket
<1>5. /\ cl_stat \in [Paths -> Status] /\ cl_cq \in [Paths -> Nat]
      /\ \A p \in Paths : Counted(cl_stat[p], cl_cq[p], base)
  BY <1>1, <1>2 DEF Counters
<1>6. PICK s, s2 : /\ s = cl_stat[t]
                   /\ s2 = [s EXCEPT !.posted = s.posted + 1, !.qlen = s.qlen + 1]
  OBVIOUS
<1>7. cl_stat' = [cl_stat EXCEPT ![t] = s2]
  BY ONLY <1>3, <1>4, <1>5, <1>6
<1>8. /\ s2 \in Status /\ s2.polled = s.polled /\ s2.tot_pkt = s.tot_pkt
      /\ s2.qlen = s.qlen + 1
  <2>1. s \in Status
    BY ONLY <1>3, <1>5, <1>6
  <2>2. s.posted + 1 \in Nat /\ s.qlen + 1 \in Nat
    BY ONLY <2>1 DEF Status
  <2>3. s2.polled = s.polled /\ s2.tot_pkt = s.tot_pkt /\ s2.qlen = s.qlen + 1
    BY ONLY <1>6, <2>1 DEF Status
  <2>4. s2 \in Status
    BY ONLY <1>6, <2>1, <2>2 DEF Status
  <2> QED
    BY ONLY <2>3, <2>4
<1>9. cl_stat' \in [Paths -> Status]
  BY ONLY <1>5, <1>7, <1>8
<1>10. ASSUME NEW p \in Paths
       PROVE  /\ Counted(cl_stat'[p], cl_cq'[p], base)
              /\ cl_stat'[p].tot_pkt = cl_stat[p].tot_pkt
  <2>1. cl_stat'[p] = IF p = t THEN s2 ELSE cl_stat[p]
    BY ONLY <1>5, <1>7, p \in Paths
  <2>2. Counted(cl_stat[p], cl_cq[p], base) /\ cl_cq'[p] = cl_cq[p]
    BY <1>4, <1>5
  <2>3. CASE p = t
    <3>1. cl_cq[p] \in Nat /\ cl_cq[p] <= s.qlen /\ s.qlen \in Nat
          /\ s.polled = s.tot_pkt - base
      BY ONLY <1>6, <2>2, <2>3 DEF Counted, Status
    <3>2. cl_cq[p] <= s2.qlen
      BY ONLY <1>8, <3>1
    <3> QED
      BY ONLY <1>6, <1>8, <2>1, <2>2, <2>3, <3>1, <3>2 DEF Counted
  <2>4. CASE p # t
    BY ONLY <2>1, <2>2, <2>4
  <2> QED
    BY <2>3, <2>4
<1>11. cl_tot' \in [posted : Nat, polled : Nat]
  BY <1>1, <1>4
<1>12. Counters(cl_stat', cl_cq', base)
  BY ONLY <1>4, <1>5, <1>9, <1>10 DEF Counters
<1>13. ClientBooks'
  BY <1>1, <1>2, <1>4, <1>11, <1>12, Zenon DEF ClientBooks
<1> QED
  BY <1>4, <1>10, <1>13 DEF Completed

(* A poll that reports no message.                                          *)
LEMMA ClientPollBooks ==
  ASSUME SidesInv, ClientBooks, Client!DrainPoll \/ Client!PollProgress
  PROVE  /\ ClientBooks'
         /\ \A p \in Paths : Completed(cl_stat', cl_cq', p) = Completed(cl_stat, cl_cq, p)
<1>1. Client!InnerPoll /\ UNCHANGED <<cl_table, cl_cum, cl_done>>
  BY DEF Client!DrainPoll, Client!PollProgress
<1>2. PICK base : base = cl_cum[cl_done + 1]
  OBVIOUS
<1>3. base \in Nat
  <2>1. /\ Posting(sizes, cl_table.sqn, cl_call, cl_post_turn, cl_cum)
        /\ Window(cl_table, cl_done, cl_cum, TxDepth)
    BY DEF SidesInv, ClientBooks
  <2>2. cl_table.sqn \in Nat /\ \A m \in 1 .. cl_table.sqn + 1 : cl_cum[m] \in Nat
    BY ONLY <2>1, PostingFacts
  <2>3. cl_done + 1 \in 1 .. cl_table.sqn + 1
    BY ONLY <2>1, <2>2 DEF Window
  <2> QED
    BY ONLY <1>2, <2>2, <2>3
<1>4. /\ Counters(cl_stat', cl_cq', base)
      /\ cl_tot' \in [posted : Nat, polled : Nat] /\ cl_poll_turn' \in Paths
      /\ \A p \in Paths : Completed(cl_stat', cl_cq', p) = Completed(cl_stat, cl_cq, p)
  BY <1>1, <1>2, <1>3, ClientInnerPoll
<1>5. Window(cl_table, cl_done, cl_cum, TxDepth)
  BY DEF ClientBooks
<1> QED
  BY <1>1, <1>2, <1>4, <1>5, Zenon DEF ClientBooks

(* The outer poll reports a message: it leaves the window, and what its     *)
(* packets were on a path is subtracted from polled as it is added to the   *)
(* packets of the messages reported.                                        *)
LEMMA ClientReportBooks ==
  ASSUME SidesInv, ClientBooks, Client!PollComplete
  PROVE  /\ ClientBooks'
         /\ \A p \in Paths : Completed(cl_stat', cl_cq', p) = Completed(cl_stat, cl_cq, p)
<1> USE TransferAssumption
<1> DEFINE sqn == cl_table.sqn
<1>1. /\ Posting(sizes, sqn, cl_call, cl_post_turn, cl_cum)
      /\ cl_active = NumPath /\ cl_table \in TableType
  BY DEF SidesInv
<1>2. /\ Window(cl_table, cl_done, cl_cum, TxDepth)
      /\ Counters(cl_stat, cl_cq, cl_cum[cl_done + 1])
      /\ cl_tot \in [posted : Nat, polled : Nat] /\ cl_poll_turn \in Paths
  BY DEF ClientBooks
<1>3. PICK head, each : head = cl_table.head /\ each = cl_table.wqe[head].iter_each
  OBVIOUS
<1>4. /\ UNCHANGED <<cl_cq, cl_tot, cl_poll_turn, cl_cum>>
      /\ cl_done < sqn /\ cl_done' = cl_done + 1
      /\ cl_table' = [cl_table EXCEPT !.wqe[head].valid = 0,
                                      !.head = Client!Wrap(head + 1)]
      /\ \A p \in Paths : cl_stat[p].polled >= each[p]
      /\ cl_stat' = [p \in Paths |->
                       IF p < NumPath
                         THEN [cl_stat[p] EXCEPT !.polled = cl_stat[p].polled - each[p]]
                         ELSE cl_stat[p]]
  BY <1>1, <1>3
     DEF Client!PollComplete, Client!AppPolls, Client!HeadComplete, Client!Paths, Paths
<1>5. /\ sqn \in Nat /\ cl_done \in Nat /\ \A m \in 1 .. sqn + 1 : cl_cum[m] \in Nat
      /\ cl_done + 1 \in 1 .. sqn + 1 /\ cl_done + 2 \in 1 .. sqn + 1
      /\ cl_done \in cl_done .. sqn - 1
  <2>1. sqn \in Nat /\ \A m \in 1 .. sqn + 1 : cl_cum[m] \in Nat
    BY ONLY <1>1, PostingFacts
  <2>2. cl_done \in Nat
    BY ONLY <1>2 DEF Window
  <2> QED
    BY ONLY <1>4, <2>1, <2>2
<1>6. PICK base \in Nat, base2 \in Nat :
        base = cl_cum[cl_done + 1] /\ base2 = cl_cum[cl_done + 2]
  BY ONLY <1>5
<1>7. head \in 0 .. TableLen - 1
  <2>1. head = cl_done % TableLen
    BY ONLY <1>2, <1>3 DEF Window
  <2>2. cl_done % TableLen \in 0 .. TableLen - 1
    BY ONLY <1>5, DivMod, TransferAssumption
  <2> QED
    BY ONLY <2>1, <2>2
<1>8. \A p \in Paths : each[p] = base2 - base
  BY ONLY <1>2, <1>3, <1>5, <1>6 DEF Window
<1>9. PICK table2 : table2 = cl_table'
  OBVIOUS
<1>10. Freed(cl_table, table2)
  <2>1. cl_table.wqe \in [0 .. TableLen - 1 -> WqeType] /\ cl_table \in TableType
    BY <1>1 DEF TableType, WqeType
  <2>2. /\ table2.sqn = sqn /\ table2.next = cl_table.next
        /\ table2.head = Client!Wrap(head + 1)
        /\ table2.wqe = [cl_table.wqe EXCEPT ![head].valid = 0]
    BY ONLY <1>4, <1>9, <2>1 DEF TableType
  <2>3. ASSUME NEW k \in 0 .. TableLen - 1, NEW p \in Paths
        PROVE  table2.wqe[k].iter_each[p] = cl_table.wqe[k].iter_each[p]
    <3>1. PICK w : w = cl_table.wqe[k]
      OBVIOUS
    <3>2. w \in WqeType
      BY ONLY <2>1, <3>1, k \in 0 .. TableLen - 1
    <3>3. table2.wqe[k] = IF k = head THEN [w EXCEPT !.valid = 0] ELSE w
      BY ONLY <1>7, <2>1, <2>2, <3>1, k \in 0 .. TableLen - 1
    <3>4. table2.wqe[k].iter_each = w.iter_each
      BY ONLY <3>2, <3>3 DEF WqeType
    <3> QED
      BY ONLY <3>1, <3>4, Zenon
  <2> QED
    BY ONLY <1>3, <2>2, <2>3 DEF Freed, Client!Wrap
<1>11. Window(table2, cl_done', cl_cum, TxDepth)
  <2>1. TxDepth \in Nat
    OBVIOUS
  <2>2. PICK done2 : done2 = cl_done'
    OBVIOUS
  <2>3. done2 = cl_done + 1
    BY <1>4, <2>2
  <2>4. Window(table2, done2, cl_cum, TxDepth)
    BY ONLY <1>2, <1>4, <1>5, <1>10, <2>1, <2>3, WindowFreed
  <2> QED
    BY <2>2, <2>4
<1>12. /\ cl_stat \in [Paths -> Status] /\ cl_cq \in [Paths -> Nat]
       /\ \A p \in Paths : Counted(cl_stat[p], cl_cq[p], base)
  BY ONLY <1>2, <1>6 DEF Counters
<1>13. ASSUME NEW p \in Paths
       PROVE  /\ cl_stat'[p] \in Status
              /\ Counted(cl_stat'[p], cl_cq[p], base2)
              /\ cl_stat'[p].tot_pkt = cl_stat[p].tot_pkt
  <2>1. PICK s, n, s2 : s = cl_stat[p] /\ n = each[p] /\ s2 = cl_stat'[p]
    OBVIOUS
  <2>2. s2 = [s EXCEPT !.polled = s.polled - n]
    BY <1>4, <2>1 DEF Paths
  <2>3. /\ s \in Status /\ cl_cq[p] \in Nat /\ cl_cq[p] <= s.qlen
        /\ s.polled = s.tot_pkt - base /\ n = base2 - base /\ s.polled >= n
    BY <1>4, <1>8, <1>12, <2>1 DEF Counted
  <2>4. s.polled - n \in Nat /\ s.polled - n = s.tot_pkt - base2
    <3>1. s.polled \in Nat /\ s.tot_pkt \in Nat
      BY ONLY <2>3 DEF Status
    <3> QED
      BY ONLY <2>3, <3>1, base \in Nat, base2 \in Nat
  <2>5. s2 \in Status
    BY ONLY <2>2, <2>3, <2>4 DEF Status
  <2>6. /\ s2.polled = s.polled - n /\ s2.tot_pkt = s.tot_pkt /\ s2.qlen = s.qlen
    BY ONLY <2>2, <2>3 DEF Status
  <2>7. Counted(s2, cl_cq[p], base2)
    BY ONLY <2>3, <2>4, <2>5, <2>6 DEF Counted
  <2> QED
    BY ONLY <2>1, <2>5, <2>6, <2>7, Zenon
<1>14. cl_stat' \in [Paths -> Status]
  BY ONLY <1>4, <1>13
<1>15. Counters(cl_stat', cl_cq', base2)
  BY ONLY <1>4, <1>12, <1>13, <1>14 DEF Counters
<1>16. cl_cum'[cl_done' + 1] = base2
  <2>1. cl_done' + 1 = cl_done + 2
    BY <1>4, <1>5
  <2> QED
    BY ONLY <1>4, <1>6, <2>1
<1>17. ClientBooks'
  BY <1>2, <1>4, <1>9, <1>11, <1>15, <1>16, Zenon DEF ClientBooks
<1> QED
  BY <1>4, <1>13, <1>17 DEF Completed

(* The card completes a packet of path p.                                   *)
LEMMA ClientNicBooks ==
  ASSUME ClientBooks, NEW p \in Paths, Client!NicComplete(p)
  PROVE  /\ ClientBooks'
         /\ \A q \in Paths :
              Completed(cl_stat', cl_cq', q)
                = Completed(cl_stat, cl_cq, q) + (IF q = p THEN 1 ELSE 0)
<1>1. PICK base : base = cl_cum[cl_done + 1]
  OBVIOUS
<1>2. /\ Window(cl_table, cl_done, cl_cum, TxDepth)
      /\ Counters(cl_stat, cl_cq, base)
      /\ cl_tot \in [posted : Nat, polled : Nat] /\ cl_poll_turn \in Paths
  BY <1>1 DEF ClientBooks
<1>3. /\ UNCHANGED <<cl_table, cl_stat, cl_tot, cl_poll_turn, cl_cum, cl_done>>
      /\ cl_cq[p] < cl_stat[p].qlen
      /\ cl_cq' = [cl_cq EXCEPT ![p] = cl_cq[p] + 1]
  BY DEF Client!NicComplete
<1>4. /\ cl_stat \in [Paths -> Status] /\ cl_cq \in [Paths -> Nat]
      /\ \A q \in Paths : Counted(cl_stat[q], cl_cq[q], base)
  BY <1>2 DEF Counters
<1>5. ASSUME NEW q \in Paths
      PROVE  /\ Counted(cl_stat'[q], cl_cq'[q], base)
             /\ Completed(cl_stat', cl_cq', q)
                  = Completed(cl_stat, cl_cq, q) + (IF q = p THEN 1 ELSE 0)
  <2>1. PICK s, c, c2 : s = cl_stat[q] /\ c = cl_cq[q] /\ c2 = cl_cq'[q]
    OBVIOUS
  <2>2. c2 = (IF q = p THEN c + 1 ELSE c) /\ cl_stat'[q] = s
    BY <1>3, <1>4, <2>1
  <2>3. /\ s \in Status /\ c \in Nat /\ c <= s.qlen /\ s.polled = s.tot_pkt - base
        /\ q = p => c < s.qlen
    BY <1>3, <1>4, <2>1 DEF Counted
  <2>4. s.qlen \in Nat /\ s.tot_pkt \in Nat
    BY ONLY <2>3 DEF Status
  <2>5. /\ c2 \in Nat /\ c2 <= s.qlen
        /\ s.tot_pkt + c2 = (s.tot_pkt + c) + (IF q = p THEN 1 ELSE 0)
    BY ONLY <2>2, <2>3, <2>4
  <2> QED
    BY <2>1, <2>2, <2>3, <2>5 DEF Counted, Completed
<1>6. cl_cq' \in [Paths -> Nat]
  <2>1. cl_cq[p] + 1 \in Nat
    BY <1>4
  <2> QED
    BY ONLY <1>3, <1>4, <2>1
<1>7. Counters(cl_stat', cl_cq', base)
  BY <1>3, <1>4, <1>5, <1>6 DEF Counters
<1>8. ClientBooks'
  BY <1>1, <1>2, <1>3, <1>7, Zenon DEF ClientBooks
<1> QED
  BY <1>5, <1>8

-----------------------------------------------------------------------------
(***************************************************************************)
(* The steps of the server.                                                *)
(***************************************************************************)

(* The inner poll takes a completion of the path of the turn, if there is   *)
(* one: the path has completed as many packets as before, one more of them  *)
(* polled.                                                                  *)
LEMMA ServerInnerPoll ==
  ASSUME SidesInv, ServerBooks, Server!InnerPoll, NEW base \in Nat,
         base = sv_cum[sv_done + 1]
  PROVE  /\ Counters(sv_stat', sv_cq', base)
         /\ sv_tot' \in [posted : Nat, polled : Nat] /\ sv_poll_turn' \in Paths
         /\ \A p \in Paths : Completed(sv_stat', sv_cq', p) = Completed(sv_stat, sv_cq, p)
<1> USE TransferAssumption
<1>1. /\ sv_active = NumPath /\ sv_table \in TableType
      /\ Counters(sv_stat, sv_cq, base)
      /\ sv_tot \in [posted : Nat, polled : Nat] /\ sv_poll_turn \in Paths
  BY DEF SidesInv, ServerBooks
<1>2. PICK t : t = sv_poll_turn % NumPath
  OBVIOUS
<1>3. t \in Paths /\ (sv_poll_turn + 1) % NumPath \in Paths
  <2>1. sv_poll_turn \in Nat /\ sv_poll_turn + 1 \in Nat
    BY <1>1 DEF Paths
  <2>2. \A k \in Nat : k % NumPath \in 0 .. NumPath - 1
    BY ONLY DivMod, TransferAssumption
  <2> QED
    BY <1>2, <2>1, <2>2 DEF Paths
<1>4. sv_poll_turn' \in Paths
  BY <1>1, <1>3 DEF Server!InnerPoll
<1>5. CASE UNCHANGED <<sv_stat, sv_tot, sv_cq>>
  BY <1>1, <1>4, <1>5 DEF Counters, Completed
<1>6. CASE /\ sv_cq[t] > 0
           /\ sv_stat' = [sv_stat EXCEPT ![t] = Server!Polled(sv_stat[t], t)]
           /\ sv_tot' = [sv_tot EXCEPT !.polled = sv_tot.polled + 1]
           /\ sv_cq' = [sv_cq EXCEPT ![t] = sv_cq[t] - 1]
  <2>1. /\ sv_stat \in [Paths -> Status] /\ sv_cq \in [Paths -> Nat]
        /\ \A p \in Paths : Counted(sv_stat[p], sv_cq[p], base)
    BY <1>1 DEF Counters
  <2>2. PICK s, c : s = sv_stat[t] /\ c = sv_cq[t]
    OBVIOUS
  <2>3. s \in Status /\ c \in Nat /\ c > 0 /\ c <= s.qlen /\ s.polled = s.tot_pkt - base
    BY <1>3, <1>6, <2>1, <2>2 DEF Counted
  <2>4. PICK temp \in Nat, idx \in 0 .. TableLen - 1 :
          Server!Polled(s, t) = [s EXCEPT !.polled = s.polled + 1,
                                          !.tot_pkt = s.tot_pkt + 1,
                                          !.qlen = s.qlen - 1,
                                          !.comp_temp = temp, !.wqe_idx = idx]
    <3>1. /\ s.comp_temp + 1 \in Nat
          /\ s.wqe_idx \in 0 .. TableLen - 1
      BY <2>3 DEF Status
    <3>2. Server!Wrap(s.wqe_idx + 1) \in 0 .. TableLen - 1
      BY <3>1 DEF Server!Wrap
    <3> QED
      BY <3>1, <3>2 DEF Server!Polled
  <2>5. PICK s2 : s2 = Server!Polled(s, t)
    OBVIOUS
  <2>6. /\ s2 \in Status /\ c - 1 \in Nat /\ c - 1 <= s2.qlen
        /\ s2.polled = s2.tot_pkt - base /\ s2.tot_pkt = s.tot_pkt + 1
    <3>1. /\ s.posted \in Nat /\ s.polled + 1 \in Nat /\ s.tot_pkt + 1 \in Nat
          /\ s.tot_pkt \in Nat /\ s.qlen - 1 \in Nat /\ c - 1 <= s.qlen - 1
          /\ s.polled + 1 = (s.tot_pkt + 1) - base /\ c - 1 \in Nat
      BY ONLY <2>3, base \in Nat DEF Status
    <3>2. /\ s2.polled = s.polled + 1 /\ s2.tot_pkt = s.tot_pkt + 1
          /\ s2.qlen = s.qlen - 1
      BY ONLY <2>3, <2>4, <2>5 DEF Status
    <3>3. s2 \in Status
      BY ONLY <2>3, <2>4, <2>5, <3>1, temp \in Nat, idx \in 0 .. TableLen - 1 DEF Status
    <3> QED
      BY ONLY <3>1, <3>2, <3>3, Zenon
  <2>7. Counted(s2, c - 1, base) /\ s2.tot_pkt + (c - 1) = s.tot_pkt + c
    <3>1. s.tot_pkt \in Nat
      BY <2>3 DEF Status
    <3> QED
      BY <2>3, <2>6, <3>1 DEF Counted
  <2>8. ASSUME NEW p \in Paths
        PROVE  /\ sv_stat'[p] = IF p = t THEN s2 ELSE sv_stat[p]
               /\ sv_cq'[p] = IF p = t THEN c - 1 ELSE sv_cq[p]
    BY <1>6, <2>1, <2>2, <2>5
  <2>9. sv_stat' \in [Paths -> Status] /\ sv_cq' \in [Paths -> Nat]
    BY ONLY <1>3, <1>6, <2>1, <2>2, <2>5, <2>6
  <2>10. ASSUME NEW p \in Paths
         PROVE  /\ Counted(sv_stat'[p], sv_cq'[p], base)
                /\ Completed(sv_stat', sv_cq', p) = Completed(sv_stat, sv_cq, p)
    <3>1. CASE p = t
      BY <2>2, <2>7, <2>8, <3>1 DEF Completed
    <3>2. CASE p # t
      BY <2>1, <2>8, <3>2 DEF Completed
    <3> QED
      BY <3>1, <3>2
  <2>11. sv_tot' \in [posted : Nat, polled : Nat]
    BY <1>1, <1>6
  <2> QED
    BY <1>4, <2>9, <2>10, <2>11 DEF Counters
<1> QED
  BY <1>1, <1>2, <1>5, <1>6 DEF Server!InnerPoll

(* A message is posted: it joins the window, and no counter moves.          *)
LEMMA ServerPostBooks ==
  ASSUME SidesInv, ServerBooks, ServerPosts, UNCHANGED <<clVars, sizes>>,
         RxDepth <= TableLen
  PROVE  /\ ServerBooks'
         /\ \A p \in Paths : Completed(sv_stat', sv_cq', p) = Completed(sv_stat, sv_cq, p)
<1> USE TransferAssumption
<1> DEFINE sqn == sv_table.sqn
           n == IterEach(sizes[sqn + 1], NumPath)
<1>1. /\ Posting(sizes, sqn, sv_call, sv_post_turn, sv_cum)
      /\ sv_active = NumPath /\ sv_table \in TableType
  BY DEF SidesInv
<1>2. /\ Window(sv_table, sv_done, sv_cum, RxDepth)
      /\ Counters(sv_stat, sv_cq, sv_cum[sv_done + 1])
      /\ sv_tot \in [posted : Nat, polled : Nat] /\ sv_poll_turn \in Paths
  BY DEF ServerBooks
<1>3. /\ UNCHANGED <<sv_stat, sv_cq, sv_tot, sv_poll_turn, sv_done>>
      /\ sqn < MaxMsgs /\ sqn - sv_done < RxDepth
      /\ sv_cum' = Append(sv_cum, sv_cum[Len(sv_cum)] + n)
  BY <1>1, SameCut DEF ServerPosts, Server!Post
<1>4. Continues(sv_cum', sv_cum)
  BY ServerMoves
<1>5. /\ sqn \in Nat /\ sqn + 1 \in 1 .. MaxMsgs
      /\ Len(sv_cum) = sqn + 1 /\ sv_cum \in Seq(Nat)
  <2>1. sqn \in Nat
    BY ONLY <1>1, PostingFacts
  <2> QED
    BY <1>1, <1>3, <2>1 DEF Posting
<1>6. n \in Nat
  BY ONLY <1>1, <1>5, PostingFacts
<1>7. sv_cum[sqn + 1] \in Nat /\ sv_cum'[sqn + 2] = sv_cum[sqn + 1] + n
  <2>1. sv_cum[sqn + 1] \in Nat
    BY ONLY <1>5
  <2>2. PICK x \in Nat : x = sv_cum[sqn + 1] + n
    BY ONLY <1>6, <2>1
  <2>3. sv_cum' = Append(sv_cum, x)
    BY <1>3, <1>5, <2>2, Zenon
  <2>4. sv_cum'[sqn + 2] = x
    BY ONLY <1>5, <2>3, x \in Nat
  <2> QED
    BY ONLY <2>1, <2>2, <2>4, Zenon
<1>8. PICK table2, cum2 : table2 = sv_table' /\ cum2 = sv_cum'
  OBVIOUS
<1>9. sv_table.next \in 0 .. TableLen - 1
  <2>1. sv_table.next = sqn % TableLen
    BY ONLY <1>2 DEF Window
  <2>2. sqn % TableLen \in 0 .. TableLen - 1
    BY ONLY <1>5, DivMod, TransferAssumption
  <2> QED
    BY ONLY <2>1, <2>2
<1>10. Stored(sv_table, table2, n)
  <2> DEFINE each == [p \in Paths |-> IF p < NumPath THEN n ELSE 0]
  <2>1. table2 = [sv_table EXCEPT !.next = Server!Wrap(sv_table.next + 1),
                     !.sqn = sqn + 1,
                     !.wqe[sv_table.next] = [valid |-> 1, iter_each |-> each]]
    BY <1>1, <1>8, SameCut
       DEF ServerPosts, Server!Post, Server!StoreWr, Server!Paths, Paths
  <2>2. \A p \in Paths : each[p] = n
    BY DEF Paths
  <2>3. sv_table.wqe \in [0 .. TableLen - 1 -> WqeType]
    BY <1>1 DEF TableType, WqeType
  <2>4. sv_table \in TableType
    BY <1>1
  <2>5. /\ table2.sqn = sqn + 1 /\ table2.head = sv_table.head
        /\ table2.next = Server!Wrap(sv_table.next + 1)
        /\ table2.wqe = [sv_table.wqe EXCEPT ![sv_table.next]
                            = [valid |-> 1, iter_each |-> each]]
    BY ONLY <2>1, <2>4 DEF TableType
  <2>6. /\ table2.wqe[sv_table.next].iter_each = each
        /\ \A k \in 0 .. TableLen - 1 :
             k # sv_table.next => table2.wqe[k] = sv_table.wqe[k]
    <3>1. PICK w : w = [valid |-> 1, iter_each |-> each]
      OBVIOUS
    <3>2. /\ table2.wqe[sv_table.next] = w
          /\ \A k \in 0 .. TableLen - 1 :
               k # sv_table.next => table2.wqe[k] = sv_table.wqe[k]
      BY ONLY <1>9, <2>3, <2>5, <3>1
    <3>3. w.iter_each = each
      BY ONLY <3>1
    <3> QED
      BY ONLY <3>2, <3>3
  <2> QED
    BY ONLY <2>2, <2>5, <2>6 DEF Stored, Server!Wrap
<1>11. Window(table2, sv_done, cum2, RxDepth)
  <2>1. RxDepth \in Nat
    OBVIOUS
  <2>2. Continues(cum2, sv_cum) /\ cum2[sqn + 2] = sv_cum[sqn + 1] + n
    BY <1>4, <1>7, <1>8, Zenon
  <2> QED
    BY ONLY <1>2, <1>3, <1>5, <1>6, <1>7, <1>10, <2>1, <2>2, RxDepth <= TableLen,
            WindowStored
<1>12. sv_cum'[sv_done' + 1] = sv_cum[sv_done + 1]
  <2>1. sv_done + 1 \in 1 .. Len(sv_cum)
    BY ONLY <1>2, <1>5 DEF Window
  <2> QED
    BY ONLY <1>3, <1>4, <2>1 DEF Continues
<1>13. ServerBooks'
  BY <1>2, <1>3, <1>8, <1>11, <1>12, Zenon DEF ServerBooks
<1> QED
  BY <1>3, <1>13 DEF Completed

(* A packet is posted: its path has one more to complete.                   *)
LEMMA ServerPacketBooks ==
  ASSUME SidesInv, ServerBooks, Server!PostPacket
  PROVE  /\ ServerBooks'
         /\ \A p \in Paths : Completed(sv_stat', sv_cq', p) = Completed(sv_stat, sv_cq, p)
<1> USE TransferAssumption
<1>1. /\ Window(sv_table, sv_done, sv_cum, RxDepth)
      /\ Counters(sv_stat, sv_cq, sv_cum[sv_done + 1])
      /\ sv_tot \in [posted : Nat, polled : Nat] /\ sv_poll_turn \in Paths
  BY DEF ServerBooks
<1>2. PICK t, base : t = sv_post_turn /\ base = sv_cum[sv_done + 1]
  OBVIOUS
<1>3. t \in Paths
  BY <1>2 DEF SidesInv, Posting
<1>4. /\ UNCHANGED <<sv_table, sv_cum, sv_poll_turn, sv_cq, sv_done>>
      /\ sv_tot' = [sv_tot EXCEPT !.posted = sv_tot.posted + 1]
      /\ sv_stat' = [sv_stat EXCEPT ![t].posted = sv_stat[t].posted + 1,
                                    ![t].qlen = sv_stat[t].qlen + 1]
  BY <1>2 DEF Server!PostPacket
<1>5. /\ sv_stat \in [Paths -> Status] /\ sv_cq \in [Paths -> Nat]
      /\ \A p \in Paths : Counted(sv_stat[p], sv_cq[p], base)
  BY <1>1, <1>2 DEF Counters
<1>6. PICK s, s2 : /\ s = sv_stat[t]
                   /\ s2 = [s EXCEPT !.posted = s.posted + 1, !.qlen = s.qlen + 1]
  OBVIOUS
<1>7. sv_stat' = [sv_stat EXCEPT ![t] = s2]
  BY ONLY <1>3, <1>4, <1>5, <1>6
<1>8. /\ s2 \in Status /\ s2.polled = s.polled /\ s2.tot_pkt = s.tot_pkt
      /\ s2.qlen = s.qlen + 1
  <2>1. s \in Status
    BY ONLY <1>3, <1>5, <1>6
  <2>2. s.posted + 1 \in Nat /\ s.qlen + 1 \in Nat
    BY ONLY <2>1 DEF Status
  <2>3. s2.polled = s.polled /\ s2.tot_pkt = s.tot_pkt /\ s2.qlen = s.qlen + 1
    BY ONLY <1>6, <2>1 DEF Status
  <2>4. s2 \in Status
    BY ONLY <1>6, <2>1, <2>2 DEF Status
  <2> QED
    BY ONLY <2>3, <2>4
<1>9. sv_stat' \in [Paths -> Status]
  BY ONLY <1>5, <1>7, <1>8
<1>10. ASSUME NEW p \in Paths
       PROVE  /\ Counted(sv_stat'[p], sv_cq'[p], base)
              /\ sv_stat'[p].tot_pkt = sv_stat[p].tot_pkt
  <2>1. sv_stat'[p] = IF p = t THEN s2 ELSE sv_stat[p]
    BY ONLY <1>5, <1>7, p \in Paths
  <2>2. Counted(sv_stat[p], sv_cq[p], base) /\ sv_cq'[p] = sv_cq[p]
    BY <1>4, <1>5
  <2>3. CASE p = t
    <3>1. sv_cq[p] \in Nat /\ sv_cq[p] <= s.qlen /\ s.qlen \in Nat
          /\ s.polled = s.tot_pkt - base
      BY ONLY <1>6, <2>2, <2>3 DEF Counted, Status
    <3>2. sv_cq[p] <= s2.qlen
      BY ONLY <1>8, <3>1
    <3> QED
      BY ONLY <1>6, <1>8, <2>1, <2>2, <2>3, <3>1, <3>2 DEF Counted
  <2>4. CASE p # t
    BY ONLY <2>1, <2>2, <2>4
  <2> QED
    BY <2>3, <2>4
<1>11. sv_tot' \in [posted : Nat, polled : Nat]
  BY <1>1, <1>4
<1>12. Counters(sv_stat', sv_cq', base)
  BY ONLY <1>4, <1>5, <1>9, <1>10 DEF Counters
<1>13. ServerBooks'
  BY <1>1, <1>2, <1>4, <1>11, <1>12, Zenon DEF ServerBooks
<1> QED
  BY <1>4, <1>10, <1>13 DEF Completed

(* A poll that reports no message.                                          *)
LEMMA ServerPollBooks ==
  ASSUME SidesInv, ServerBooks, Server!DrainPoll \/ Server!PollProgress
  PROVE  /\ ServerBooks'
         /\ \A p \in Paths : Completed(sv_stat', sv_cq', p) = Completed(sv_stat, sv_cq, p)
<1>1. Server!InnerPoll /\ UNCHANGED <<sv_table, sv_cum, sv_done>>
  BY DEF Server!DrainPoll, Server!PollProgress
<1>2. PICK base : base = sv_cum[sv_done + 1]
  OBVIOUS
<1>3. base \in Nat
  <2>1. /\ Posting(sizes, sv_table.sqn, sv_call, sv_post_turn, sv_cum)
        /\ Window(sv_table, sv_done, sv_cum, RxDepth)
    BY DEF SidesInv, ServerBooks
  <2>2. sv_table.sqn \in Nat /\ \A m \in 1 .. sv_table.sqn + 1 : sv_cum[m] \in Nat
    BY ONLY <2>1, PostingFacts
  <2>3. sv_done + 1 \in 1 .. sv_table.sqn + 1
    BY ONLY <2>1, <2>2 DEF Window
  <2> QED
    BY ONLY <1>2, <2>2, <2>3
<1>4. /\ Counters(sv_stat', sv_cq', base)
      /\ sv_tot' \in [posted : Nat, polled : Nat] /\ sv_poll_turn' \in Paths
      /\ \A p \in Paths : Completed(sv_stat', sv_cq', p) = Completed(sv_stat, sv_cq, p)
  BY <1>1, <1>2, <1>3, ServerInnerPoll
<1>5. Window(sv_table, sv_done, sv_cum, RxDepth)
  BY DEF ServerBooks
<1> QED
  BY <1>1, <1>2, <1>4, <1>5, Zenon DEF ServerBooks

(* The outer poll reports a message: it leaves the window, and what its     *)
(* packets were on a path is subtracted from polled as it is added to the   *)
(* packets of the messages reported.                                        *)
LEMMA ServerReportBooks ==
  ASSUME SidesInv, ServerBooks, Server!PollComplete
  PROVE  /\ ServerBooks'
         /\ \A p \in Paths : Completed(sv_stat', sv_cq', p) = Completed(sv_stat, sv_cq, p)
<1> USE TransferAssumption
<1> DEFINE sqn == sv_table.sqn
<1>1. /\ Posting(sizes, sqn, sv_call, sv_post_turn, sv_cum)
      /\ sv_active = NumPath /\ sv_table \in TableType
  BY DEF SidesInv
<1>2. /\ Window(sv_table, sv_done, sv_cum, RxDepth)
      /\ Counters(sv_stat, sv_cq, sv_cum[sv_done + 1])
      /\ sv_tot \in [posted : Nat, polled : Nat] /\ sv_poll_turn \in Paths
  BY DEF ServerBooks
<1>3. PICK head, each : head = sv_table.head /\ each = sv_table.wqe[head].iter_each
  OBVIOUS
<1>4. /\ UNCHANGED <<sv_cq, sv_tot, sv_poll_turn, sv_cum>>
      /\ sv_done < sqn /\ sv_done' = sv_done + 1
      /\ sv_table' = [sv_table EXCEPT !.wqe[head].valid = 0,
                                      !.head = Server!Wrap(head + 1)]
      /\ \A p \in Paths : sv_stat[p].polled >= each[p]
      /\ sv_stat' = [p \in Paths |->
                       IF p < NumPath
                         THEN [sv_stat[p] EXCEPT !.polled = sv_stat[p].polled - each[p]]
                         ELSE sv_stat[p]]
  BY <1>1, <1>3
     DEF Server!PollComplete, Server!AppPolls, Server!HeadComplete, Server!Paths, Paths
<1>5. /\ sqn \in Nat /\ sv_done \in Nat /\ \A m \in 1 .. sqn + 1 : sv_cum[m] \in Nat
      /\ sv_done + 1 \in 1 .. sqn + 1 /\ sv_done + 2 \in 1 .. sqn + 1
      /\ sv_done \in sv_done .. sqn - 1
  <2>1. sqn \in Nat /\ \A m \in 1 .. sqn + 1 : sv_cum[m] \in Nat
    BY ONLY <1>1, PostingFacts
  <2>2. sv_done \in Nat
    BY ONLY <1>2 DEF Window
  <2> QED
    BY ONLY <1>4, <2>1, <2>2
<1>6. PICK base \in Nat, base2 \in Nat :
        base = sv_cum[sv_done + 1] /\ base2 = sv_cum[sv_done + 2]
  BY ONLY <1>5
<1>7. head \in 0 .. TableLen - 1
  <2>1. head = sv_done % TableLen
    BY ONLY <1>2, <1>3 DEF Window
  <2>2. sv_done % TableLen \in 0 .. TableLen - 1
    BY ONLY <1>5, DivMod, TransferAssumption
  <2> QED
    BY ONLY <2>1, <2>2
<1>8. \A p \in Paths : each[p] = base2 - base
  BY ONLY <1>2, <1>3, <1>5, <1>6 DEF Window
<1>9. PICK table2 : table2 = sv_table'
  OBVIOUS
<1>10. Freed(sv_table, table2)
  <2>1. sv_table.wqe \in [0 .. TableLen - 1 -> WqeType] /\ sv_table \in TableType
    BY <1>1 DEF TableType, WqeType
  <2>2. /\ table2.sqn = sqn /\ table2.next = sv_table.next
        /\ table2.head = Server!Wrap(head + 1)
        /\ table2.wqe = [sv_table.wqe EXCEPT ![head].valid = 0]
    BY ONLY <1>4, <1>9, <2>1 DEF TableType
  <2>3. ASSUME NEW k \in 0 .. TableLen - 1, NEW p \in Paths
        PROVE  table2.wqe[k].iter_each[p] = sv_table.wqe[k].iter_each[p]
    <3>1. PICK w : w = sv_table.wqe[k]
      OBVIOUS
    <3>2. w \in WqeType
      BY ONLY <2>1, <3>1, k \in 0 .. TableLen - 1
    <3>3. table2.wqe[k] = IF k = head THEN [w EXCEPT !.valid = 0] ELSE w
      BY ONLY <1>7, <2>1, <2>2, <3>1, k \in 0 .. TableLen - 1
    <3>4. table2.wqe[k].iter_each = w.iter_each
      BY ONLY <3>2, <3>3 DEF WqeType
    <3> QED
      BY ONLY <3>1, <3>4, Zenon
  <2> QED
    BY ONLY <1>3, <2>2, <2>3 DEF Freed, Server!Wrap
<1>11. Window(table2, sv_done', sv_cum, RxDepth)
  <2>1. RxDepth \in Nat
    OBVIOUS
  <2>2. PICK done2 : done2 = sv_done'
    OBVIOUS
  <2>3. done2 = sv_done + 1
    BY <1>4, <2>2
  <2>4. Window(table2, done2, sv_cum, RxDepth)
    BY ONLY <1>2, <1>4, <1>5, <1>10, <2>1, <2>3, WindowFreed
  <2> QED
    BY <2>2, <2>4
<1>12. /\ sv_stat \in [Paths -> Status] /\ sv_cq \in [Paths -> Nat]
       /\ \A p \in Paths : Counted(sv_stat[p], sv_cq[p], base)
  BY ONLY <1>2, <1>6 DEF Counters
<1>13. ASSUME NEW p \in Paths
       PROVE  /\ sv_stat'[p] \in Status
              /\ Counted(sv_stat'[p], sv_cq[p], base2)
              /\ sv_stat'[p].tot_pkt = sv_stat[p].tot_pkt
  <2>1. PICK s, n, s2 : s = sv_stat[p] /\ n = each[p] /\ s2 = sv_stat'[p]
    OBVIOUS
  <2>2. s2 = [s EXCEPT !.polled = s.polled - n]
    BY <1>4, <2>1 DEF Paths
  <2>3. /\ s \in Status /\ sv_cq[p] \in Nat /\ sv_cq[p] <= s.qlen
        /\ s.polled = s.tot_pkt - base /\ n = base2 - base /\ s.polled >= n
    BY <1>4, <1>8, <1>12, <2>1 DEF Counted
  <2>4. s.polled - n \in Nat /\ s.polled - n = s.tot_pkt - base2
    <3>1. s.polled \in Nat /\ s.tot_pkt \in Nat
      BY ONLY <2>3 DEF Status
    <3> QED
      BY ONLY <2>3, <3>1, base \in Nat, base2 \in Nat
  <2>5. s2 \in Status
    BY ONLY <2>2, <2>3, <2>4 DEF Status
  <2>6. /\ s2.polled = s.polled - n /\ s2.tot_pkt = s.tot_pkt /\ s2.qlen = s.qlen
    BY ONLY <2>2, <2>3 DEF Status
  <2>7. Counted(s2, sv_cq[p], base2)
    BY ONLY <2>3, <2>4, <2>5, <2>6 DEF Counted
  <2> QED
    BY ONLY <2>1, <2>5, <2>6, <2>7, Zenon
<1>14. sv_stat' \in [Paths -> Status]
  BY ONLY <1>4, <1>13
<1>15. Counters(sv_stat', sv_cq', base2)
  BY ONLY <1>4, <1>12, <1>13, <1>14 DEF Counters
<1>16. sv_cum'[sv_done' + 1] = base2
  <2>1. sv_done' + 1 = sv_done + 2
    BY <1>4, <1>5
  <2> QED
    BY ONLY <1>4, <1>6, <2>1
<1>17. ServerBooks'
  BY <1>2, <1>4, <1>9, <1>11, <1>15, <1>16, Zenon DEF ServerBooks
<1> QED
  BY <1>4, <1>13, <1>17 DEF Completed

(* The card completes a packet of path p.                                   *)
LEMMA ServerNicBooks ==
  ASSUME ServerBooks, NEW p \in Paths, Server!NicComplete(p)
  PROVE  /\ ServerBooks'
         /\ \A q \in Paths :
              Completed(sv_stat', sv_cq', q)
                = Completed(sv_stat, sv_cq, q) + (IF q = p THEN 1 ELSE 0)
<1>1. PICK base : base = sv_cum[sv_done + 1]
  OBVIOUS
<1>2. /\ Window(sv_table, sv_done, sv_cum, RxDepth)
      /\ Counters(sv_stat, sv_cq, base)
      /\ sv_tot \in [posted : Nat, polled : Nat] /\ sv_poll_turn \in Paths
  BY <1>1 DEF ServerBooks
<1>3. /\ UNCHANGED <<sv_table, sv_stat, sv_tot, sv_poll_turn, sv_cum, sv_done>>
      /\ sv_cq[p] < sv_stat[p].qlen
      /\ sv_cq' = [sv_cq EXCEPT ![p] = sv_cq[p] + 1]
  BY DEF Server!NicComplete
<1>4. /\ sv_stat \in [Paths -> Status] /\ sv_cq \in [Paths -> Nat]
      /\ \A q \in Paths : Counted(sv_stat[q], sv_cq[q], base)
  BY <1>2 DEF Counters
<1>5. ASSUME NEW q \in Paths
      PROVE  /\ Counted(sv_stat'[q], sv_cq'[q], base)
             /\ Completed(sv_stat', sv_cq', q)
                  = Completed(sv_stat, sv_cq, q) + (IF q = p THEN 1 ELSE 0)
  <2>1. PICK s, c, c2 : s = sv_stat[q] /\ c = sv_cq[q] /\ c2 = sv_cq'[q]
    OBVIOUS
  <2>2. c2 = (IF q = p THEN c + 1 ELSE c) /\ sv_stat'[q] = s
    BY <1>3, <1>4, <2>1
  <2>3. /\ s \in Status /\ c \in Nat /\ c <= s.qlen /\ s.polled = s.tot_pkt - base
        /\ q = p => c < s.qlen
    BY <1>3, <1>4, <2>1 DEF Counted
  <2>4. s.qlen \in Nat /\ s.tot_pkt \in Nat
    BY ONLY <2>3 DEF Status
  <2>5. /\ c2 \in Nat /\ c2 <= s.qlen
        /\ s.tot_pkt + c2 = (s.tot_pkt + c) + (IF q = p THEN 1 ELSE 0)
    BY ONLY <2>2, <2>3, <2>4
  <2> QED
    BY <2>1, <2>2, <2>3, <2>5 DEF Counted, Completed
<1>6. sv_cq' \in [Paths -> Nat]
  <2>1. sv_cq[p] + 1 \in Nat
    BY <1>4
  <2> QED
    BY ONLY <1>3, <1>4, <2>1
<1>7. Counters(sv_stat', sv_cq', base)
  BY <1>3, <1>4, <1>5, <1>6 DEF Counters
<1>8. ServerBooks'
  BY <1>1, <1>2, <1>3, <1>7, Zenon DEF ServerBooks
<1> QED
  BY <1>5, <1>8

-----------------------------------------------------------------------------
(***************************************************************************)
(* The books of a transfer.                                                *)
(***************************************************************************)

(* The numbers the books are about.                                         *)
LEMMA BookNumbers ==
  ASSUME IndInv, BooksInv, NEW p \in Paths
  PROVE  /\ Completed(cl_stat, cl_cq, p) \in Nat
         /\ Completed(sv_stat, sv_cq, p) \in Nat
         /\ Len(sq[p]) \in Nat /\ Len(landed[p]) \in Nat /\ ClientGiven(p) \in Nat
         /\ Completed(cl_stat, cl_cq, p) + Len(sq[p]) = ClientGiven(p)
         /\ Completed(sv_stat, sv_cq, p) = Len(landed[p])
<1>1. /\ \A q \in Paths : cl_stat[q] \in Status /\ cl_cq[q] \in Nat
      /\ \A q \in Paths : sv_stat[q] \in Status /\ sv_cq[q] \in Nat
  BY DEF BooksInv, ClientBooks, ServerBooks, Counters
<1>2. /\ Completed(cl_stat, cl_cq, p) \in Nat
      /\ Completed(sv_stat, sv_cq, p) \in Nat
  BY ONLY <1>1, p \in Paths DEF Completed, Status
<1> QED
  BY <1>2, PathNumbers DEF BooksInv, PathBooks

(* Nothing is posted, completed or reported at first.                       *)
LEMMA InitBooks == Init => BooksInv
<1> SUFFICES ASSUME Init PROVE BooksInv
  OBVIOUS
<1> USE TransferAssumption
<1>1. 0 % TableLen = 0 /\ 0 \in 0 .. TableLen - 1 /\ 0 \in Paths
  <2>1. 0 = TableLen * 0 + 0 /\ 0 \in 0 .. TableLen - 1
    OBVIOUS
  <2> QED
    BY <2>1, DivModUnique DEF Paths
<1>2. ASSUME NEW table, NEW cum, NEW depth \in Nat,
             table.sqn = 0, table.head = 0, table.next = 0
      PROVE  Window(table, 0, cum, depth)
  BY <1>1, <1>2 DEF Window
<1>3. ASSUME NEW stat, NEW c,
             stat = [p \in Paths |-> [posted |-> 0, polled |-> 0, tot_pkt |-> 0,
                                      comp_temp |-> 0, wqe_idx |-> 0, qlen |-> 0]],
             c = [p \in Paths |-> 0]
      PROVE  Counters(stat, c, 0) /\ \A p \in Paths : Completed(stat, c, p) = 0
  <2>1. PICK s : s = [posted |-> 0, polled |-> 0, tot_pkt |-> 0,
                      comp_temp |-> 0, wqe_idx |-> 0, qlen |-> 0]
    OBVIOUS
  <2>2. s \in Status /\ s.tot_pkt = 0 /\ s.polled = 0 /\ s.qlen = 0
    BY ONLY <1>1, <2>1 DEF Status
  <2>3. \A p \in Paths : stat[p] = s /\ c[p] = 0
    BY <1>3, <2>1
  <2>4. stat \in [Paths -> Status] /\ c \in [Paths -> Nat]
    BY <1>3, <2>1, <2>2
  <2>5. Counted(s, 0, 0)
    BY ONLY <2>2 DEF Counted
  <2> QED
    BY ONLY <2>2, <2>3, <2>4, <2>5 DEF Counters, Completed
<1>4. /\ cl_table.sqn = 0 /\ cl_table.head = 0 /\ cl_table.next = 0
      /\ cl_stat = [p \in Paths |-> [posted |-> 0, polled |-> 0, tot_pkt |-> 0,
                                     comp_temp |-> 0, wqe_idx |-> 0, qlen |-> 0]]
      /\ cl_cq = [p \in Paths |-> 0] /\ cl_done = 0 /\ cl_cum[0 + 1] = 0
      /\ cl_tot = [posted |-> 0, polled |-> 0] /\ cl_poll_turn = 0
      /\ cl_call.pc = "idle" /\ cl_cum[cl_table.sqn + 1] = 0
  BY DEF Init, Client!Init, Client!Paths, Paths
<1>5. /\ sv_table.sqn = 0 /\ sv_table.head = 0 /\ sv_table.next = 0
      /\ sv_stat = [p \in Paths |-> [posted |-> 0, polled |-> 0, tot_pkt |-> 0,
                                     comp_temp |-> 0, wqe_idx |-> 0, qlen |-> 0]]
      /\ sv_cq = [p \in Paths |-> 0] /\ sv_done = 0 /\ sv_cum[0 + 1] = 0
      /\ sv_tot = [posted |-> 0, polled |-> 0] /\ sv_poll_turn = 0
  BY DEF Init, Server!Init, Server!Paths, Paths
<1>6. ClientBooks
  <2>1. Window(cl_table, 0, cl_cum, TxDepth)
    BY <1>2, <1>4
  <2>2. Counters(cl_stat, cl_cq, 0)
    BY <1>3, <1>4
  <2>3. cl_tot \in [posted : Nat, polled : Nat] /\ cl_poll_turn \in Paths
    BY <1>1, <1>4
  <2> QED
    BY <1>4, <2>1, <2>2, <2>3, Zenon DEF ClientBooks
<1>7. ServerBooks
  <2>1. Window(sv_table, 0, sv_cum, RxDepth)
    BY <1>2, <1>5
  <2>2. Counters(sv_stat, sv_cq, 0)
    BY <1>3, <1>5
  <2>3. sv_tot \in [posted : Nat, polled : Nat] /\ sv_poll_turn \in Paths
    BY <1>1, <1>5
  <2> QED
    BY <1>5, <2>1, <2>2, <2>3, Zenon DEF ServerBooks
<1>8. ASSUME NEW p \in Paths PROVE PathBooks(p)
  <2>1. Len(sq[p]) = 0 /\ Len(landed[p]) = 0
    BY DEF Init
  <2>2. Completed(cl_stat, cl_cq, p) = 0 /\ Completed(sv_stat, sv_cq, p) = 0
    BY <1>3, <1>4, <1>5
  <2>3. ClientGiven(p) = 0
    BY <1>4 DEF ClientGiven, Given
  <2> QED
    BY <2>1, <2>2, <2>3 DEF PathBooks
<1> QED
  BY <1>6, <1>7, <1>8 DEF BooksInv

(* The client posts, polls or reports.                                      *)
LEMMA ClientStepBooks ==
  ASSUME IndInv, BooksInv, ClientStep, DepthsFit
  PROVE  BooksInv'
<1>1. SidesInv /\ QueueTypes /\ ClientBooks /\ ServerBooks /\ TxDepth <= TableLen
  BY DEF IndInv, BooksInv, DepthsFit
<1>2. UNCHANGED <<svVars, sizes>> /\ landed' = landed
  BY DEF ClientStep, ClientPacket, netVars
<1>3. /\ ClientBooks'
      /\ \A p \in Paths : Completed(cl_stat', cl_cq', p) = Completed(cl_stat, cl_cq, p)
  BY <1>1, <1>2, ClientPostBooks, ClientPacketBooks, ClientPollBooks, ClientReportBooks
     DEF ClientStep, ClientPacket
<1>4. /\ ServerBooks'
      /\ \A p \in Paths : Completed(sv_stat', sv_cq', p) = Completed(sv_stat, sv_cq, p)
  BY <1>1, <1>2 DEF ServerBooks, Window, Counters, Counted, Completed, svVars
<1>5. ASSUME NEW p \in Paths
      PROVE  Completed(cl_stat, cl_cq, p) + Len(sq'[p]) = ClientGiven(p)'
  <2>1. PICK a \in Nat, b \in Nat, g \in Nat :
          a = Completed(cl_stat, cl_cq, p) /\ b = Len(sq[p]) /\ g = ClientGiven(p)
          /\ a + b = g
    BY BookNumbers, Zenon
  <2>2. CASE UNCHANGED netVars /\ (ClientPosts \/ Client!DrainPoll
                                   \/ Client!PollComplete \/ Client!PollProgress)
    <3>1. ClientGiven(p)' = ClientGiven(p)
      BY <1>1, <1>2, <2>2, ClientMoves
    <3>2. Len(sq'[p]) = Len(sq[p])
      BY <2>2 DEF netVars
    <3> QED
      BY <2>1, <3>1, <3>2, Zenon
  <2>3. CASE ClientPacket
    <3> DEFINE t == cl_post_turn
               packet == Packet(cl_table.sqn - 1, cl_call.i)
    <3>1. /\ t \in Paths /\ Fits(cl_cum, t, packet)
          /\ ClientGiven(p)' = ClientGiven(p) + (IF p = t THEN 1 ELSE 0)
      BY <1>1, <1>2, <2>3, ClientGives DEF ClientPacket
    <3>2. sq' = [sq EXCEPT ![t] = Append(sq[t], packet)]
      BY <2>3 DEF ClientPacket
    <3>3. PICK x \in Packets : x = packet
      BY <3>1 DEF Fits
    <3>4. sq \in [Paths -> Seq(Packets)]
      BY <1>1 DEF QueueTypes
    <3>5. CASE p = t
      <4>1. Len(sq'[p]) = Len(sq[p]) + 1
        <5>1. sq'[p] = Append(sq[p], x)
          BY ONLY <3>1, <3>2, <3>3, <3>4, <3>5
        <5> QED
          BY ONLY <3>4, <5>1, p \in Paths, x \in Packets
      <4>2. Len(sq'[p]) = b + 1 /\ ClientGiven(p)' = g + 1
        BY <2>1, <3>1, <3>5, <4>1
      <4>3. a + (b + 1) = g + 1
        BY ONLY <2>1, a \in Nat, b \in Nat, g \in Nat
      <4> QED
        BY ONLY <2>1, <4>2, <4>3, Zenon
    <3>6. CASE p # t
      <4>1. Len(sq'[p]) = Len(sq[p])
        BY ONLY <3>1, <3>2, <3>4, <3>6, p \in Paths
      <4>2. ClientGiven(p)' = g + 0 /\ g + 0 = g
        BY <2>1, <3>1, <3>6
      <4> QED
        BY ONLY <2>1, <4>1, <4>2, Zenon
    <3> QED
      BY <3>5, <3>6
  <2> QED
    BY <2>2, <2>3 DEF ClientStep
<1>6. ASSUME NEW p \in Paths PROVE PathBooks(p)'
  <2>1. Completed(sv_stat, sv_cq, p) = Len(landed'[p])
    BY <1>2 DEF BooksInv, PathBooks
  <2>2. /\ Completed(cl_stat', cl_cq', p) + Len(sq'[p]) = ClientGiven(p)'
        /\ Completed(sv_stat', sv_cq', p) = Len(landed'[p])
    BY <1>3, <1>4, <1>5, <2>1, Zenon
  <2> QED
    BY <2>2, Zenon DEF PathBooks
<1> QED
  BY <1>3, <1>4, <1>6 DEF BooksInv

(* The server posts, polls or reports.                                      *)
LEMMA ServerStepBooks ==
  ASSUME IndInv, BooksInv, ServerStep, DepthsFit
  PROVE  BooksInv'
<1>1. SidesInv /\ ClientBooks /\ ServerBooks /\ RxDepth <= TableLen
  BY DEF IndInv, BooksInv, DepthsFit
<1>2. UNCHANGED <<clVars, sizes>> /\ sq' = sq /\ landed' = landed
  BY DEF ServerStep, ServerPacket, netVars
<1>3. /\ ServerBooks'
      /\ \A p \in Paths : Completed(sv_stat', sv_cq', p) = Completed(sv_stat, sv_cq, p)
  BY <1>1, <1>2, ServerPostBooks, ServerPacketBooks, ServerPollBooks, ServerReportBooks
     DEF ServerStep, ServerPacket
<1>4. /\ ClientBooks'
      /\ \A p \in Paths : Completed(cl_stat', cl_cq', p) = Completed(cl_stat, cl_cq, p)
  BY <1>1, <1>2 DEF ClientBooks, Window, Counters, Counted, Completed, clVars
<1>5. \A p \in Paths : ClientGiven(p)' = ClientGiven(p)
  BY <1>2 DEF clVars, ClientGiven
<1>6. ASSUME NEW p \in Paths PROVE PathBooks(p)'
  <2>1. /\ Completed(cl_stat, cl_cq, p) + Len(sq[p]) = ClientGiven(p)
        /\ Completed(sv_stat, sv_cq, p) = Len(landed[p])
    BY DEF BooksInv, PathBooks
  <2>2. /\ Completed(cl_stat', cl_cq', p) + Len(sq'[p]) = ClientGiven(p)'
        /\ Completed(sv_stat', sv_cq', p) = Len(landed'[p])
    BY <1>2, <1>3, <1>4, <1>5, <2>1, Zenon
  <2> QED
    BY <2>2, Zenon DEF PathBooks
<1> QED
  BY <1>3, <1>4, <1>6 DEF BooksInv

(* The network takes left packets from the send queue of path p and puts    *)
(* came packets into its receives, with as many completions.                *)
Moved(p, left, came) ==
  \A q \in Paths :
    /\ Completed(cl_stat', cl_cq', q)
         = Completed(cl_stat, cl_cq, q) + (IF q = p THEN left ELSE 0)
    /\ Len(sq[q]) = Len(sq'[q]) + (IF q = p THEN left ELSE 0)
    /\ Len(sq'[q]) \in Nat
    /\ Completed(sv_stat', sv_cq', q)
         = Completed(sv_stat, sv_cq, q) + (IF q = p THEN came ELSE 0)
    /\ Len(landed'[q]) = Len(landed[q]) + (IF q = p THEN came ELSE 0)

(* That keeps the books of the paths.                                       *)
LEMMA NetworkBooks ==
  ASSUME IndInv, BooksInv, ClientBooks', ServerBooks',
         UNCHANGED <<cl_table, cl_call, cl_post_turn, cl_cum>>,
         NEW p \in Paths, NEW left \in Nat, NEW came \in Nat, Moved(p, left, came)
  PROVE  BooksInv'
<1>1. ASSUME NEW q \in Paths PROVE PathBooks(q)'
  <2>1. PICK a \in Nat, b \in Nat, b2 \in Nat, d \in Nat, e \in Nat, g \in Nat,
             c \in Nat, l \in Nat :
          /\ a = Completed(cl_stat, cl_cq, q) /\ b = Len(sq[q]) /\ b2 = Len(sq'[q])
          /\ c = Completed(sv_stat, sv_cq, q) /\ l = Len(landed[q])
          /\ g = ClientGiven(q) /\ a + b = g /\ c = l
          /\ d = (IF q = p THEN left ELSE 0) /\ e = (IF q = p THEN came ELSE 0)
    <3>1. (IF q = p THEN left ELSE 0) \in Nat /\ (IF q = p THEN came ELSE 0) \in Nat
      OBVIOUS
    <3>2. Len(sq'[q]) \in Nat
      BY DEF Moved
    <3> QED
      BY <3>1, <3>2, BookNumbers, Zenon
  <2>2. /\ Completed(cl_stat', cl_cq', q) = a + d /\ b = b2 + d
        /\ Completed(sv_stat', sv_cq', q) = c + e /\ Len(landed'[q]) = l + e
    BY <2>1, Zenon DEF Moved
  <2>3. (a + d) + b2 = g
    <3>1. a + b = g /\ b = b2 + d
      BY <2>1, <2>2
    <3> QED
      BY ONLY <3>1, a \in Nat, b \in Nat, b2 \in Nat, d \in Nat, g \in Nat
  <2>4. ClientGiven(q)' = g
    BY <2>1 DEF ClientGiven
  <2>5. /\ Completed(cl_stat', cl_cq', q) + Len(sq'[q]) = ClientGiven(q)'
        /\ Completed(sv_stat', sv_cq', q) = Len(landed'[q])
    BY <2>1, <2>2, <2>3, <2>4, Zenon
  <2> QED
    BY <2>5, Zenon DEF PathBooks
<1> QED
  BY <1>1 DEF BooksInv

(* A packet leaves a send queue and is completed.                           *)
LEMMA LeaveBooks ==
  ASSUME IndInv, BooksInv, NEW p \in Paths, Leave(p)
  PROVE  BooksInv'
<1>1. /\ QueueTypes /\ ClientBooks /\ ServerBooks
  BY DEF IndInv, BooksInv
<1>2. /\ UNCHANGED svVars /\ landed' = landed
      /\ sq[p] # <<>> /\ sq' = [sq EXCEPT ![p] = Tail(sq[p])]
      /\ Client!NicComplete(p)
  BY DEF Leave
<1>3. /\ ClientBooks'
      /\ \A q \in Paths : Completed(cl_stat', cl_cq', q)
                            = Completed(cl_stat, cl_cq, q) + (IF q = p THEN 1 ELSE 0)
  BY <1>1, <1>2, ClientNicBooks
<1>4. ServerBooks' /\ sv_stat' = sv_stat /\ sv_cq' = sv_cq
  BY <1>1, <1>2 DEF ServerBooks, Window, Counters, Counted, svVars
<1>5. ASSUME NEW q \in Paths
      PROVE  /\ Len(sq[q]) = Len(sq'[q]) + (IF q = p THEN 1 ELSE 0)
             /\ Len(sq'[q]) \in Nat
  <2>1. sq \in [Paths -> Seq(Packets)]
    BY <1>1 DEF QueueTypes
  <2>2. sq[q] \in Seq(Packets) /\ sq'[q] = (IF q = p THEN Tail(sq[q]) ELSE sq[q])
    BY ONLY <1>2, <2>1, q \in Paths, p \in Paths
  <2>3. CASE q = p
    <3>1. Len(Tail(sq[q])) = Len(sq[q]) - 1 /\ Len(sq[q]) \in Nat \ {0}
      BY ONLY <1>2, <2>2, <2>3
    <3> QED
      BY ONLY <2>2, <2>3, <3>1
  <2>4. CASE q # p
    BY ONLY <2>2, <2>4
  <2> QED
    BY <2>3, <2>4
<1>6. ASSUME NEW q \in Paths
      PROVE  /\ Completed(sv_stat', sv_cq', q)
                  = Completed(sv_stat, sv_cq, q) + (IF q = p THEN 0 ELSE 0)
             /\ Len(landed'[q]) = Len(landed[q]) + (IF q = p THEN 0 ELSE 0)
  BY <1>2, <1>4, BookNumbers
<1>7. UNCHANGED <<cl_table, cl_call, cl_post_turn, cl_cum>>
  BY <1>2 DEF Client!NicComplete
<1>8. Moved(p, 1, 0)
  BY <1>3, <1>5, <1>6, Zenon DEF Moved
<1>9. 0 \in Nat /\ 1 \in Nat
  OBVIOUS
<1> QED
  BY <1>3, <1>4, <1>7, <1>8, <1>9, NetworkBooks

(* A packet fills a receive.                                                *)
LEMMA ArriveBooks ==
  ASSUME IndInv, BooksInv, NEW p \in Paths, Arrive(p)
  PROVE  BooksInv'
<1>1. /\ QueueTypes /\ ClientBooks /\ ServerBooks
  BY DEF IndInv, BooksInv
<1>2. /\ UNCHANGED clVars /\ sq' = sq
      /\ wire[p] # <<>> /\ rq[p] # <<>>
      /\ landed' = [landed EXCEPT ![p] =
                      Append(landed[p], [packet |-> Head(wire[p]), meant |-> Head(rq[p])])]
      /\ Server!NicComplete(p)
  BY DEF Arrive, Fill
<1>3. /\ ServerBooks'
      /\ \A q \in Paths : Completed(sv_stat', sv_cq', q)
                            = Completed(sv_stat, sv_cq, q) + (IF q = p THEN 1 ELSE 0)
  BY <1>1, <1>2, ServerNicBooks
<1>4. ClientBooks' /\ cl_stat' = cl_stat /\ cl_cq' = cl_cq
  BY <1>1, <1>2 DEF ClientBooks, Window, Counters, Counted, clVars
<1>5. ASSUME NEW q \in Paths
      PROVE  Len(landed'[q]) = Len(landed[q]) + (IF q = p THEN 1 ELSE 0)
  <2>1. landed \in [Paths -> Seq([packet : Packets, meant : Packets])]
    BY <1>1 DEF QueueTypes
  <2>2. PICK x : x = [packet |-> Head(wire[p]), meant |-> Head(rq[p])]
    OBVIOUS
  <2>3. x \in [packet : Packets, meant : Packets]
    <3>1. wire[p] \in Seq(Packets) /\ rq[p] \in Seq(Packets)
      BY <1>1 DEF QueueTypes
    <3>2. Head(wire[p]) \in Packets /\ Head(rq[p]) \in Packets
      BY ONLY <1>2, <3>1
    <3> QED
      BY ONLY <2>2, <3>2
  <2>4. /\ landed[q] \in Seq([packet : Packets, meant : Packets])
        /\ landed'[q] = (IF q = p THEN Append(landed[q], x) ELSE landed[q])
    BY ONLY <1>2, <2>1, <2>2, q \in Paths, p \in Paths
  <2>5. Len(landed[q]) \in Nat
    BY ONLY <2>4
  <2>6. CASE q = p
    <3>1. Len(Append(landed[q], x)) = Len(landed[q]) + 1
      BY ONLY <2>3, <2>4
    <3> QED
      BY ONLY <2>4, <2>6, <3>1
  <2>7. CASE q # p
    BY ONLY <2>4, <2>5, <2>7
  <2> QED
    BY <2>6, <2>7
<1>6. ASSUME NEW q \in Paths
      PROVE  /\ Completed(cl_stat', cl_cq', q)
                  = Completed(cl_stat, cl_cq, q) + (IF q = p THEN 0 ELSE 0)
             /\ Len(sq[q]) = Len(sq'[q]) + (IF q = p THEN 0 ELSE 0)
             /\ Len(sq'[q]) \in Nat
  BY <1>2, <1>4, BookNumbers
<1>7. UNCHANGED <<cl_table, cl_call, cl_post_turn, cl_cum>>
  BY <1>2 DEF clVars
<1>8. Moved(p, 0, 1)
  BY <1>3, <1>5, <1>6, Zenon DEF Moved
<1>9. 0 \in Nat /\ 1 \in Nat
  OBVIOUS
<1> QED
  BY <1>3, <1>4, <1>7, <1>8, <1>9, NetworkBooks

(* Every step keeps the books.                                              *)
LEMMA StepBooks == DepthsFit /\ IndInv /\ BooksInv /\ [Next]_vars => BooksInv'
<1> SUFFICES ASSUME DepthsFit, IndInv, BooksInv, [Next]_vars PROVE BooksInv'
  OBVIOUS
<1>1. ASSUME UNCHANGED <<clVars, svVars, sq, landed>> PROVE BooksInv'
  <2>1. BooksInv
    OBVIOUS
  <2>2. /\ UNCHANGED <<cl_table, cl_stat, cl_tot, cl_post_turn, cl_poll_turn, cl_call,
                       cl_cq, cl_done, cl_cum>>
        /\ UNCHANGED <<sv_table, sv_stat, sv_tot, sv_poll_turn, sv_cq, sv_done, sv_cum>>
        /\ sq' = sq /\ landed' = landed
    BY <1>1 DEF clVars, svVars
  <2> QED
    BY ONLY <2>1, <2>2
       DEF BooksInv, ClientBooks, ServerBooks, PathBooks, Window, Counters, Counted,
           Completed, ClientGiven
<1>2. CASE Network
  <2>1. PICK p \in Paths : Leave(p) \/ Arrive(p) \/ Overrun(p)
    BY <1>2 DEF Network
  <2>2. CASE Overrun(p)
    BY <1>1, <2>2 DEF Overrun
  <2> QED
    BY <2>1, <2>2, LeaveBooks, ArriveBooks
<1>3. CASE UNCHANGED vars
  BY <1>1, <1>3 DEF vars, netVars
<1> QED
  BY <1>2, <1>3, ClientStepBooks, ServerStepBooks DEF Next

(* The books of a transfer are right in every state.                        *)
THEOREM BooksAreRight ==
  ASSUME DepthsFit
  PROVE  Spec => [](IndInv /\ BooksInv)
<1>1. Init => IndInv /\ BooksInv
  BY InitInv, InitBooks
<1>2. IndInv /\ BooksInv /\ [Next]_vars => IndInv' /\ BooksInv'
  BY StepInv, StepBooks
<1> QED
  BY <1>1, <1>2, PTL DEF Spec

-----------------------------------------------------------------------------
(***************************************************************************)
(* What the applications see.                                              *)
(***************************************************************************)

(* A history of counts does not decrease.                                   *)
LEMMA CountsGrow ==
  ASSUME NEW c, Counts(c), NEW j \in 1 .. Len(c), NEW k \in 1 .. Len(c), j <= k
  PROVE  c[j] \in Nat /\ c[k] \in Nat /\ c[j] <= c[k]
<1>1. c[j] \in Nat /\ c[k] \in Nat
  BY DEF Counts
<1>2. CASE j = k
  BY <1>1, <1>2
<1>3. CASE j # k
  <2>1. j < k
    <3>1. Len(c) \in Nat
      BY DEF Counts
    <3> QED
      BY ONLY <1>3, <3>1, j \in 1 .. Len(c), k \in 1 .. Len(c), j <= k
  <2>2. c[j] < c[k]
    BY <2>1 DEF Counts
  <2> QED
    BY <1>1, <2>2
<1> QED
  BY <1>2, <1>3

(* A packet belongs to one of the first d messages exactly when its         *)
(* position is among their packets.                                         *)
LEMMA MessageOfPosition ==
  ASSUME NEW c, NEW p, NEW a, NEW d \in Nat,
         Counts(c), Fits(c, p, a), d + 1 \in 1 .. Len(c)
  PROVE  Index(c, a) < c[d + 1] <=> a.msg < d
<1>1. /\ a.msg \in Nat /\ a.i \in Nat /\ Len(c) \in Nat
      /\ a.msg + 1 \in 1 .. Len(c) /\ a.msg + 2 \in 1 .. Len(c)
  BY FitsFacts
<1>2. Index(c, a) < c[a.msg + 2]
  BY DEF Fits
<1>3. Index(c, a) = c[a.msg + 1] + (a.i \div NumPath) /\ a.i \div NumPath \in Nat
  <2>1. a.i \div NumPath \in Nat
    BY <1>1, DivMod, TransferAssumption
  <2> QED
    BY <2>1 DEF Index
<1>4. PICK x, y, z, e, m : /\ x = c[a.msg + 1] /\ y = c[a.msg + 2] /\ z = c[d + 1]
                           /\ e = a.i \div NumPath /\ m = a.msg
  OBVIOUS
<1>5. m \in Nat /\ e \in Nat /\ x + e < y /\ Index(c, a) = x + e
  BY <1>1, <1>2, <1>3, <1>4
<1>6. CASE m < d
  <2>1. m + 2 <= d + 1
    BY <1>5, <1>6
  <2>2. a.msg + 2 <= d + 1
    BY <1>4, <2>1
  <2>3. y \in Nat /\ z \in Nat /\ y <= z
    BY ONLY <1>1, <1>4, <2>2, Counts(c), d + 1 \in 1 .. Len(c), CountsGrow
  <2>4. x \in Nat
    BY <1>4, FitsFacts
  <2>5. x + e < z
    BY ONLY <1>5, <2>3, <2>4
  <2> QED
    BY ONLY <1>4, <1>5, <1>6, <2>5, Zenon
<1>7. CASE ~(m < d)
  <2>1. d + 1 <= m + 1
    BY <1>5, <1>7
  <2>2. d + 1 <= a.msg + 1
    BY <1>4, <2>1
  <2>3. z \in Nat /\ x \in Nat /\ z <= x
    BY ONLY <1>1, <1>4, <2>2, Counts(c), d + 1 \in 1 .. Len(c), CountsGrow
  <2>4. ~(x + e < z)
    BY ONLY <1>5, <2>3
  <2> QED
    BY ONLY <1>4, <1>5, <1>7, <2>4, Zenon
<1> QED
  BY <1>6, <1>7

(* The counters of a side in a state: the packets of the messages reported  *)
(* are completed on every path.                                             *)
LEMMA ReportedIsCompleted ==
  ASSUME IndInv, BooksInv, NEW p \in Paths
  PROVE  /\ cl_done \in Nat /\ cl_done + 1 \in 1 .. Len(cl_cum)
         /\ cl_done <= cl_table.sqn
         /\ cl_cum[cl_done + 1] \in Nat
         /\ cl_cum[cl_done + 1] <= Completed(cl_stat, cl_cq, p)
         /\ sv_done \in Nat /\ sv_done + 1 \in 1 .. Len(sv_cum)
         /\ sv_done <= sv_table.sqn
         /\ sv_cum[sv_done + 1] \in Nat
         /\ sv_cum[sv_done + 1] <= Completed(sv_stat, sv_cq, p)
<1>1. ASSUME NEW s, NEW c, NEW base \in Nat, Counted(s, c, base)
      PROVE  base <= s.tot_pkt + c
  <2>1. /\ s.polled \in Nat /\ s.tot_pkt \in Nat /\ c \in Nat
        /\ s.polled = s.tot_pkt - base
    BY ONLY <1>1 DEF Counted, Status
  <2> QED
    BY ONLY <2>1, base \in Nat
<1>2. ASSUME NEW sqn, NEW call, NEW turn, NEW cum, NEW done, NEW depth, NEW table,
             Posting(sizes, sqn, call, turn, cum), Window(table, done, cum, depth),
             sqn = table.sqn
      PROVE  /\ done \in Nat /\ done + 1 \in 1 .. Len(cum) /\ done <= sqn
             /\ cum[done + 1] \in Nat
  <2>1. /\ sqn \in Nat /\ \A m \in 1 .. sqn + 1 : cum[m] \in Nat
    BY ONLY <1>2, PostingFacts
  <2>2. done \in Nat /\ done <= sqn /\ Len(cum) = sqn + 1
    BY ONLY <1>2 DEF Window, Posting
  <2>3. done + 1 \in 1 .. sqn + 1
    BY ONLY <2>1, <2>2
  <2> QED
    BY ONLY <2>1, <2>2, <2>3
<1>3. /\ Posting(sizes, cl_table.sqn, cl_call, cl_post_turn, cl_cum)
      /\ Window(cl_table, cl_done, cl_cum, TxDepth)
      /\ Posting(sizes, sv_table.sqn, sv_call, sv_post_turn, sv_cum)
      /\ Window(sv_table, sv_done, sv_cum, RxDepth)
      /\ Counted(cl_stat[p], cl_cq[p], cl_cum[cl_done + 1])
      /\ Counted(sv_stat[p], sv_cq[p], sv_cum[sv_done + 1])
  BY DEF IndInv, SidesInv, BooksInv, ClientBooks, ServerBooks, Counters
<1>4. /\ cl_done \in Nat /\ cl_done + 1 \in 1 .. Len(cl_cum)
      /\ cl_done <= cl_table.sqn
      /\ cl_cum[cl_done + 1] \in Nat
  BY ONLY <1>2, <1>3
<1>5. /\ sv_done \in Nat /\ sv_done + 1 \in 1 .. Len(sv_cum)
      /\ sv_done <= sv_table.sqn
      /\ sv_cum[sv_done + 1] \in Nat
  BY ONLY <1>2, <1>3
<1> QED
  BY <1>1, <1>3, <1>4, <1>5 DEF Completed

(* Memory that is the application's again is not read by the client's card, *)
(* nor written by the server's, whatever is lost.                           *)
THEOREM ReturnedMemoryStaysQuiet ==
  ASSUME DepthsFit
  PROVE  Spec => []ReturnedMemoryIsQuiet
<1>1. IndInv /\ BooksInv => ReturnedMemoryIsQuiet
  <2> SUFFICES ASSUME IndInv, BooksInv, NEW p \in Paths
               PROVE  /\ \A packet \in ToSet(sq[p]) : packet.msg >= cl_done
                      /\ \A meant \in ToSet(rq[p]) : meant.msg >= sv_done
    BY DEF ReturnedMemoryIsQuiet
  <2>1. Counts(cl_cum) /\ Counts(sv_cum)
    BY CountsAgree DEF IndInv
  <2>2. ASSUME NEW c, NEW d \in Nat, NEW a, NEW n,
               Counts(c), Fits(c, p, a), d + 1 \in 1 .. Len(c),
               c[d + 1] \in Nat, Index(c, a) = n, n \in Nat, c[d + 1] <= n
        PROVE  a.msg >= d
    <3>1. a.msg \in Nat
      BY ONLY <2>2, FitsFacts
    <3>2. ~(Index(c, a) < c[d + 1])
      BY ONLY <2>2
    <3>3. ~(a.msg < d)
      BY ONLY <2>2, <3>2, MessageOfPosition
    <3> QED
      BY ONLY <3>1, <3>3, d \in Nat
  <2>3. ASSUME NEW packet \in ToSet(sq[p]) PROVE packet.msg >= cl_done
    <3>1. sq[p] \in Seq(Packets) /\ InOrder(sq[p], cl_cum, p, ClientGiven(p) - Len(sq[p]))
      BY PathFacts
    <3>2. PICK j \in 1 .. Len(sq[p]) : packet = sq[p][j]
      BY <3>1 DEF ToSet
    <3>3. /\ Fits(cl_cum, p, packet)
          /\ Index(cl_cum, packet) = (ClientGiven(p) - Len(sq[p])) + j - 1
      BY <3>1, <3>2 DEF InOrder
    <3>4. PICK g \in Nat, b \in Nat, a \in Nat :
            g = ClientGiven(p) /\ b = Len(sq[p]) /\ a = Completed(cl_stat, cl_cq, p)
            /\ a + b = g
      BY BookNumbers, Zenon
    <3>5. PICK n : n = (ClientGiven(p) - Len(sq[p])) + j - 1
      OBVIOUS
    <3>6. n = (g - b) + j - 1 /\ j \in 1 .. b
      BY <3>4, <3>5, Zenon
    <3>7. n \in Nat /\ a <= n
      <4>1. a + b = g /\ n = (g - b) + j - 1 /\ j \in 1 .. b
        BY ONLY <3>4, <3>6, Zenon
      <4> QED
        BY ONLY <4>1, a \in Nat, b \in Nat, g \in Nat
    <3>8. /\ cl_done \in Nat /\ cl_done + 1 \in 1 .. Len(cl_cum)
          /\ cl_cum[cl_done + 1] \in Nat /\ cl_cum[cl_done + 1] <= a
      BY <3>4, ReportedIsCompleted
    <3>9. cl_cum[cl_done + 1] <= n
      BY ONLY <3>7, <3>8, a \in Nat
    <3>10. Index(cl_cum, packet) = n
      BY <3>3, <3>5, Zenon
    <3> QED
      BY ONLY <2>1, <2>2, <3>3, <3>7, <3>8, <3>9, <3>10
  <2>4. ASSUME NEW meant \in ToSet(rq[p]) PROVE meant.msg >= sv_done
    <3>1. rq[p] \in Seq(Packets) /\ InOrder(rq[p], sv_cum, p, Len(landed[p]))
      BY PathFacts
    <3>2. PICK j \in 1 .. Len(rq[p]) : meant = rq[p][j]
      BY <3>1 DEF ToSet
    <3>3. /\ Fits(sv_cum, p, meant)
          /\ Index(sv_cum, meant) = Len(landed[p]) + j - 1
      BY <3>1, <3>2 DEF InOrder
    <3>4. PICK a \in Nat : a = Len(landed[p]) /\ a = Completed(sv_stat, sv_cq, p)
      BY BookNumbers, Zenon
    <3>5. PICK n : n = a + j - 1
      OBVIOUS
    <3>6. n \in Nat /\ a <= n
      <4>1. Len(rq[p]) \in Nat
        BY <3>1
      <4> QED
        BY ONLY <3>5, <4>1, a \in Nat, j \in 1 .. Len(rq[p])
    <3>7. /\ sv_done \in Nat /\ sv_done + 1 \in 1 .. Len(sv_cum)
          /\ sv_cum[sv_done + 1] \in Nat /\ sv_cum[sv_done + 1] <= a
      BY <3>4, ReportedIsCompleted
    <3>8. sv_cum[sv_done + 1] <= n
      BY ONLY <3>6, <3>7, a \in Nat
    <3>9. Index(sv_cum, meant) = n
      BY <3>3, <3>4, <3>5, Zenon
    <3> QED
      BY ONLY <2>1, <2>2, <3>3, <3>6, <3>7, <3>8, <3>9
  <2> QED
    BY <2>3, <2>4
<1> QED
  BY <1>1, BooksAreRight, PTL

(* A packet number is below iter exactly when its piece number is one of    *)
(* the pieces of a chunk.                                                   *)
LEMMA PieceOrPacket ==
  ASSUME NEW i \in Nat, NEW n \in Nat, NEW A \in Nat \ {0}
  PROVE  i \div A < n <=> i < n * A
<1>1. ASSUME i < n * A PROVE i \div A < n
  BY ONLY <1>1, RoundBound, i \in Nat, n \in Nat, A \in Nat \ {0}
<1>2. ASSUME i \div A < n PROVE i < n * A
  <2>1. PICK q \in Nat, r \in 0 .. A - 1 : i = A * q + r /\ q = i \div A
    BY DivMod
  <2>2. PICK k \in Nat : n = q + 1 + k
    <3>1. n - q - 1 \in Nat /\ n = q + 1 + (n - q - 1)
      BY ONLY <1>2, <2>1, n \in Nat, q \in Nat
    <3> QED
      BY ONLY <3>1
  <2>3. n * A = A * q + A + A * k /\ A * k \in Nat
    BY ONLY <2>2, q \in Nat, k \in Nat, A \in Nat \ {0}
  <2> QED
    BY <2>1, <2>3
<1> QED
  BY <1>1, <1>2

(* The receives that were filled for a message reported are those of its    *)
(* packets, all of them.                                                    *)
LEMMA ReportedIsThere ==
  ASSUME IndInv, BooksInv, NEW m \in 0 .. sv_done - 1
  PROVE  {l.meant : l \in {x \in Landed : x.meant.msg = m}} = PacketsOf(m)
<1> USE TransferAssumption
<1>1. Posting(sizes, sv_table.sqn, sv_call, sv_post_turn, sv_cum) /\ Counts(sv_cum)
  BY CountsAgree DEF IndInv, SidesInv
<1>2. 0 \in Paths
  BY DEF Paths
<1>3. PICK d \in Nat, q \in Nat : d = sv_done /\ q = sv_table.sqn /\ d <= q /\ q <= MaxMsgs
                                  /\ d + 1 \in 1 .. Len(sv_cum) /\ Len(sv_cum) = q + 1
  <2>1. sv_table.sqn \in Nat /\ sv_table.sqn <= MaxMsgs
    BY ONLY <1>1, PostingFacts
  <2>2. Len(sv_cum) = sv_table.sqn + 1
    BY ONLY <1>1 DEF Posting
  <2> QED
    BY <1>2, <2>1, <2>2, ReportedIsCompleted
<1>4. /\ m \in Nat /\ m \in 0 .. MaxMsgs - 1 /\ m + 1 \in 1 .. MaxMsgs /\ m + 1 \in 1 .. q
      /\ m + 1 \in 1 .. Len(sv_cum) /\ m + 2 \in 1 .. Len(sv_cum) /\ m + 2 <= d + 1
  BY <1>3
<1>5. PICK n \in Nat : n = IterEach(sizes[m + 1], NumPath)
  BY ONLY <1>1, <1>4, PostingFacts
<1>6. PacketsOf(m) = {Packet(m, i) : i \in 0 .. n * NumPath - 1}
  BY <1>5 DEF PacketsOf, Iter
<1>7. PICK x \in Nat, y \in Nat : x = sv_cum[m + 1] /\ y = sv_cum[m + 2] /\ y = x + n
  <2>1. sv_cum[m + 1] \in Nat /\ sv_cum[m + 2] \in Nat
    BY ONLY <1>1, <1>4 DEF Counts
  <2>2. sv_cum[(m + 1) + 1] = sv_cum[m + 1] + IterEach(sizes[m + 1], NumPath)
    BY <1>1, <1>3, <1>4 DEF Posting
  <2>3. (m + 1) + 1 = m + 2
    BY <1>4
  <2> QED
    BY <1>5, <2>1, <2>2, <2>3
<1>8. ASSUME NEW l \in Landed, l.meant.msg = m PROVE l.meant \in PacketsOf(m)
  <2>1. PICK p \in Paths, k \in Nat : Met(l, p, k)
    BY LandedMet
  <2>2. PICK a : a = l.meant
    OBVIOUS
  <2>3. Fits(sv_cum, p, a) /\ a \in Packets /\ a.msg = m
    BY <1>8, <2>1, <2>2 DEF Met, Fits
  <2>4. PICK i \in Nat : i = a.i /\ a = Packet(m, i)
    BY <2>3 DEF Packets, Packet
  <2>5. Index(sv_cum, a) = x + (i \div NumPath) /\ Index(sv_cum, a) < y
    BY <1>7, <2>3, <2>4 DEF Fits, Index
  <2>6. i \div NumPath < n
    <3>1. i \div NumPath \in Nat
      BY DivMod
    <3> QED
      BY ONLY <1>7, <2>5, <3>1, x \in Nat, y \in Nat, n \in Nat
  <2>7. i < n * NumPath
    BY ONLY <2>6, PieceOrPacket, TransferAssumption, i \in Nat, n \in Nat
  <2>8. i \in 0 .. n * NumPath - 1
    BY <2>7
  <2> QED
    BY <1>6, <2>2, <2>4, <2>8
<1>9. ASSUME NEW i \in 0 .. n * NumPath - 1
      PROVE  \E l \in Landed : l.meant = Packet(m, i)
  <2>1. PICK p : p = i % NumPath
    OBVIOUS
  <2>2. i \in Nat /\ i < n * NumPath
    BY <1>9
  <2>3. p \in Paths
    <3>1. i % NumPath \in 0 .. NumPath - 1
      BY ONLY <2>2, DivMod, TransferAssumption
    <3> QED
      BY <2>1, <3>1 DEF Paths
  <2>4. PICK e \in Nat : e = i \div NumPath /\ e < n
    BY ONLY <2>2, PieceOrPacket, DivMod, TransferAssumption, n \in Nat
  <2>5. PICK b : b = Packet(m, i)
    OBVIOUS
  <2>6. b \in Packets /\ b.msg = m /\ b.i = i
    BY ONLY <1>4, <2>2, <2>5 DEF Packets, Packet
  <2>7. Index(sv_cum, b) = x + e
    BY <1>7, <2>4, <2>6 DEF Index
  <2>8. x + e < y
    BY <1>7, <2>4
  <2>9. Fits(sv_cum, p, b)
    <3>1. m + 2 <= Len(sv_cum)
      BY <1>3, <1>4
    <3> QED
      BY <1>7, <2>1, <2>6, <2>7, <2>8, <3>1 DEF Fits
  <2>10. PICK len \in Nat : len = Len(landed[p]) /\ x + e + 1 \in 1 .. len
    <3>1. y <= sv_cum[d + 1] /\ sv_cum[d + 1] \in Nat
      BY ONLY <1>1, <1>3, <1>4, <1>7, CountsGrow
    <3>2. PICK len \in Nat : len = Len(landed[p]) /\ sv_cum[d + 1] <= len
      BY <1>3, <2>3, BookNumbers, ReportedIsCompleted
    <3>3. PICK z \in Nat : z = sv_cum[d + 1] /\ y <= z /\ z <= len
      BY <3>1, <3>2
    <3>4. x + e + 1 \in 1 .. len
      BY ONLY <2>8, <3>3, x \in Nat, y \in Nat, e \in Nat, len \in Nat
    <3> QED
      BY <3>2, <3>4
  <2>11. PICK l : l = landed[p][x + e + 1]
    OBVIOUS
  <2>12. Met(l, p, x + e)
    <3>1. (x + e + 1) - 1 = x + e
      OBVIOUS
    <3>2. Met(landed[p][x + e + 1], p, (x + e + 1) - 1)
      BY <2>3, <2>10, PathFacts
    <3> QED
      BY <2>11, <3>1, <3>2
  <2>13. l \in Landed
    <3>1. landed[p] \in Seq([packet : Packets, meant : Packets])
      BY <2>3, PathFacts
    <3>2. l \in ToSet(landed[p])
      BY <2>10, <2>11, <3>1 DEF ToSet
    <3> QED
      BY <2>3, <3>2 DEF Landed
  <2>14. PICK a \in Packets : a = l.meant /\ Fits(sv_cum, p, a) /\ Index(sv_cum, a) = x + e
    BY <2>12 DEF Met
  <2>15. Index(sv_cum, a) >= Index(sv_cum, b) /\ Index(sv_cum, b) >= Index(sv_cum, a)
    BY <2>7, <2>14
  <2>16. NotBefore(a, b)
    BY ONLY <1>1, <2>3, <2>9, <2>14, <2>15, PositionOrder
  <2>17. NotBefore(b, a)
    BY ONLY <1>1, <2>3, <2>9, <2>14, <2>15, PositionOrder
  <2>18. a.msg = b.msg /\ a.i = b.i
    BY <2>6, <2>16, <2>17 DEF NotBefore, Packets
  <2>19. a = b
    BY <2>6, <2>18 DEF Packets
  <2> QED
    BY <2>5, <2>13, <2>14, <2>19
<1>10. ASSUME NEW i \in 0 .. n * NumPath - 1
       PROVE  Packet(m, i) \in {l.meant : l \in {z \in Landed : z.meant.msg = m}}
  <2>1. PICK l \in Landed : l.meant = Packet(m, i)
    BY <1>9
  <2>2. l.meant.msg = m
    BY ONLY <2>1 DEF Packet
  <2> QED
    BY ONLY <2>1, <2>2
<1> QED
  BY ONLY <1>6, <1>8, <1>10

(* Without losses a message reported to the server's application is there   *)
(* in full: exactly its packets have filled its receives.                   *)
THEOREM ReportedMessagesAreWhole ==
  ASSUME DepthsFit, MayOverrun = FALSE
  PROVE  Spec => []DeliveredWhole
<1>1. IndInv /\ BooksInv /\ SamePacket => DeliveredWhole
  <2> SUFFICES ASSUME IndInv, BooksInv, SamePacket, NEW m \in 0 .. sv_done - 1
               PROVE  {l.packet : l \in {x \in Landed : x.meant.msg = m}} = PacketsOf(m)
    BY DEF DeliveredWhole
  <2>1. {l.packet : l \in {x \in Landed : x.meant.msg = m}}
          = {l.meant : l \in {x \in Landed : x.meant.msg = m}}
    BY DEF SamePacket
  <2> QED
    BY <2>1, ReportedIsThere
<1> QED
  BY <1>1, BooksAreRight, PacketsMeetTheirReceives, PTL

(* No message is reported on either side before the client has posted it,   *)
(* nor on the server's before the server has.                               *)
NoneEarly == /\ sv_done <= cl_table.sqn
             /\ sv_done <= sv_table.sqn
             /\ cl_done <= cl_table.sqn

(* Even with packets lost, what the server counts has come from the client. *)
LEMMA NothingReportedEarly == IndInv /\ BooksInv => NoneEarly
<1> SUFFICES ASSUME IndInv, BooksInv PROVE NoneEarly
  OBVIOUS
<1> USE TransferAssumption
<1>1. /\ Posting(sizes, cl_table.sqn, cl_call, cl_post_turn, cl_cum) /\ Counts(cl_cum)
      /\ Counts(sv_cum) /\ SameCount
  BY CountsAgree DEF IndInv, SidesInv
<1>2. 0 \in Paths
  BY DEF Paths
<1>3. /\ sv_done \in Nat /\ sv_done <= sv_table.sqn /\ cl_done <= cl_table.sqn
      /\ sv_done + 1 \in 1 .. Len(sv_cum)
  BY <1>2, ReportedIsCompleted
<1>4. PICK q \in Nat : q = cl_table.sqn /\ Len(cl_cum) = q + 1 /\ q <= MaxMsgs
  <2>1. cl_table.sqn \in Nat /\ cl_table.sqn <= MaxMsgs
    BY ONLY <1>1, PostingFacts
  <2> QED
    BY ONLY <1>1, <2>1 DEF Posting
<1>5. ASSUME q < sv_done PROVE FALSE
  <2>1. Len(sv_cum) \in Nat
    BY <1>1 DEF Counts
  <2>2. /\ q + 1 \in 1 .. Len(sv_cum) /\ q + 1 < sv_done + 1 /\ q + 1 <= Len(sv_cum)
        /\ q + 1 <= Len(cl_cum) /\ q + 1 \in 1 .. MaxMsgs + 1 /\ q + 1 \in 1 .. Len(cl_cum)
    BY ONLY <1>3, <1>4, <1>5, <2>1, q \in Nat, TransferAssumption
  <2>3. sv_cum[q + 1] < sv_cum[sv_done + 1] /\ sv_cum[q + 1] \in Nat
    BY ONLY <1>1, <1>3, <2>2 DEF Counts
  <2>4. cl_cum[q + 1] = sv_cum[q + 1]
    BY ONLY <1>1, <2>2 DEF SameCount
  <2>5. PICK x \in Nat, y \in Nat, len \in Nat :
          /\ x = cl_cum[q + 1] /\ y = sv_cum[sv_done + 1] /\ len = Len(landed[0])
          /\ x < y /\ y <= len
    <3>1. /\ sv_cum[sv_done + 1] \in Nat /\ Len(landed[0]) \in Nat
          /\ sv_cum[sv_done + 1] <= Len(landed[0])
      <4>1. sv_cum[sv_done + 1] <= Completed(sv_stat, sv_cq, 0)
            /\ sv_cum[sv_done + 1] \in Nat
        BY <1>2, ReportedIsCompleted
      <4>2. Completed(sv_stat, sv_cq, 0) = Len(landed[0]) /\ Len(landed[0]) \in Nat
        BY <1>2, BookNumbers
      <4> QED
        BY ONLY <4>1, <4>2
    <3> QED
      BY ONLY <2>3, <2>4, <3>1
  <2>6. x + 1 \in 1 .. len /\ (x + 1) - 1 = x
    BY ONLY <2>5, x \in Nat, y \in Nat, len \in Nat
  <2>7. PICK l : l = landed[0][x + 1] /\ Met(l, 0, x)
    <3>1. Met(landed[0][x + 1], 0, (x + 1) - 1)
      BY <1>2, <2>5, <2>6, PathFacts
    <3> QED
      BY <2>6, <3>1
  <2>8. PICK a : Fits(cl_cum, 0, a) /\ Due(Index(cl_cum, a), x)
    BY <2>7 DEF Met
  <2>9. PICK k \in Int : k = Index(cl_cum, a)
    <3>1. SidesInv
      BY DEF IndInv
    <3>2. Index(cl_cum, a) \in Int
      BY ONLY <1>2, <2>8, <3>1, IndexNat
    <3> QED
      BY ONLY <3>2
  <2>10. k >= x
    BY ONLY <2>8, <2>9, x \in Nat, k \in Int DEF Due
  <2>11. a.msg \in Nat /\ a.msg + 2 <= q + 1
    <3>1. a.msg + 2 <= Len(cl_cum)
      BY <2>8 DEF Fits
    <3>2. a.msg \in Nat
      BY ONLY <1>1, <2>8, FitsFacts
    <3> QED
      BY ONLY <1>4, <3>1, <3>2
  <2>12. Index(cl_cum, a) < cl_cum[q + 1]
    <3>1. a.msg < q
      BY ONLY <2>11, q \in Nat
    <3> QED
      BY ONLY <1>1, <2>2, <2>8, <3>1, q \in Nat, MessageOfPosition
  <2> QED
    BY ONLY <2>5, <2>9, <2>10, <2>12, x \in Nat, k \in Int
<1> QED
  BY <1>3, <1>4, <1>5 DEF NoneEarly

(* A transfer is a stream of messages, with or without losses: what either  *)
(* application posts and is told is what a MessageStream does, step by step.*)
THEOREM TransferIsStream ==
  ASSUME DepthsFit
  PROVE  Spec => IsStreamWhileItLasts
<1>1. Init => Stream!Init
  BY DEF Init, Client!Init, Server!Init, Stream!Init
<1>2. IndInv /\ BooksInv /\ NoneEarly' /\ [Next]_vars
        => [Stream!Next]_(Stream!vars)
  <2> SUFFICES ASSUME IndInv, BooksInv, NoneEarly', [Next]_vars
               PROVE  Stream!Next \/ UNCHANGED Stream!vars
    BY DEF Stream!vars
  <2>1. /\ cl_table \in TableType /\ sv_table \in TableType
        /\ cl_done \in Nat /\ sv_done \in Nat
    BY DEF IndInv, SidesInv, BooksInv, ClientBooks, ServerBooks, Window
  <2>2. sv_done' <= cl_table'.sqn /\ sv_done' <= sv_table'.sqn /\ cl_done' <= cl_table'.sqn
    BY DEF NoneEarly
  <2>3. ASSUME UNCHANGED <<sv_table, sv_done, cl_done>>,
               cl_table'.sqn = cl_table.sqn + 1
        PROVE  Stream!Send
    BY <2>3 DEF Stream!Send
  <2>4. ASSUME UNCHANGED <<cl_table, sv_done, cl_done>>,
               sv_table'.sqn = sv_table.sqn + 1
        PROVE  Stream!MakeRoom
    BY <2>4 DEF Stream!MakeRoom
  <2>5. /\ cl_table.sqn \in Nat /\ sv_table.sqn \in Nat
    BY <2>1 DEF TableType
  <2>6. ASSUME cl_table'.sqn = cl_table.sqn, sv_table'.sqn = sv_table.sqn,
               cl_done' = cl_done, sv_done' = sv_done + 1
        PROVE  Stream!Deliver
    <3>1. sv_done < cl_table.sqn /\ sv_done < sv_table.sqn
      BY ONLY <2>1, <2>2, <2>5, <2>6
    <3> QED
      BY <2>6, <3>1 DEF Stream!Deliver
  <2>7. ASSUME cl_table'.sqn = cl_table.sqn, sv_table'.sqn = sv_table.sqn,
               sv_done' = sv_done, cl_done' = cl_done + 1
        PROVE  Stream!Release
    <3>1. cl_done < cl_table.sqn
      BY ONLY <2>1, <2>2, <2>5, <2>7
    <3> QED
      BY <2>7, <3>1 DEF Stream!Release
  <2>8. ASSUME cl_table'.sqn = cl_table.sqn, sv_table'.sqn = sv_table.sqn,
               sv_done' = sv_done, cl_done' = cl_done
        PROVE  UNCHANGED Stream!vars
    BY <2>8 DEF Stream!vars
  <2>9. CASE ClientStep
    <3>1. UNCHANGED <<sv_table, sv_done>>
      BY <2>9 DEF ClientStep, svVars
    <3>2. CASE ClientPosts
      <4>1. cl_table'.sqn = cl_table.sqn + 1 /\ cl_done' = cl_done
        BY <2>1, <3>2 DEF ClientPosts, Client!Post, Client!StoreWr, TableType
      <4> QED
        BY <2>3, <3>1, <4>1 DEF Stream!Next
    <3>3. CASE Client!PollComplete
      <4>1. cl_table'.sqn = cl_table.sqn /\ cl_done' = cl_done + 1
        BY <2>1, <3>3 DEF Client!PollComplete, TableType
      <4> QED
        BY <2>7, <3>1, <4>1 DEF Stream!Next
    <3>4. CASE ClientPacket \/ Client!DrainPoll \/ Client!PollProgress
      <4>1. cl_table' = cl_table /\ cl_done' = cl_done
        BY <3>4 DEF ClientPacket, Client!PostPacket, Client!DrainPoll, Client!PollProgress
      <4> QED
        BY <2>8, <3>1, <4>1
    <3> QED
      BY <2>9, <3>2, <3>3, <3>4 DEF ClientStep
  <2>10. CASE ServerStep
    <3>1. UNCHANGED <<cl_table, cl_done>>
      BY <2>10 DEF ServerStep, clVars
    <3>2. CASE ServerPosts
      <4>1. sv_table'.sqn = sv_table.sqn + 1 /\ sv_done' = sv_done
        BY <2>1, <3>2 DEF ServerPosts, Server!Post, Server!StoreWr, TableType
      <4> QED
        BY <2>4, <3>1, <4>1 DEF Stream!Next
    <3>3. CASE Server!PollComplete
      <4>1. sv_table'.sqn = sv_table.sqn /\ sv_done' = sv_done + 1
        BY <2>1, <3>3 DEF Server!PollComplete, TableType
      <4> QED
        BY <2>6, <3>1, <4>1 DEF Stream!Next
    <3>4. CASE ServerPacket \/ Server!DrainPoll \/ Server!PollProgress
      <4>1. sv_table' = sv_table /\ sv_done' = sv_done
        BY <3>4 DEF ServerPacket, Server!PostPacket, Server!DrainPoll, Server!PollProgress
      <4> QED
        BY <2>8, <3>1, <4>1
    <3> QED
      BY <2>10, <3>2, <3>3, <3>4 DEF ServerStep
  <2>11. CASE Network
    <3>1. UNCHANGED <<cl_table, cl_done, sv_table, sv_done>>
      BY <2>11 DEF Network, Leave, Arrive, Fill, Overrun, Client!NicComplete,
                   Server!NicComplete, clVars, svVars
    <3> QED
      BY <2>8, <3>1
  <2>12. CASE UNCHANGED vars
    BY <2>8, <2>12 DEF vars, clVars, svVars
  <2> QED
    BY <2>9, <2>10, <2>11, <2>12 DEF Next
<1>3. IndInv /\ BooksInv => NoneEarly
  BY NothingReportedEarly
<1> QED
  BY <1>1, <1>2, <1>3, BooksAreRight, PTL DEF Spec, IsStreamWhileItLasts, Stream!Spec

(* Every variable of the transfer has its type: no counter of either side   *)
(* is ever negative, and every index is a slot or a path.                   *)
THEOREM TransferTypes ==
  ASSUME DepthsFit
  PROVE  Spec => []TypeOK
<1>1. IndInv /\ BooksInv => TypeOK
  <2> SUFFICES ASSUME IndInv, BooksInv PROVE TypeOK
    OBVIOUS
  <2> USE TransferAssumption
  <2>1. ASSUME NEW sqn, NEW call, NEW turn, NEW cum,
               Posting(sizes, sqn, call, turn, cum)
        PROVE  /\ turn \in Paths /\ cum \in Seq(Nat)
               /\ call \in [pc : {"idle", "post", "drain"}, i : Nat, iter : Nat,
                            active : 1 .. NumPath]
    BY <2>1 DEF Posting, CallType
  <2>2. ASSUME NEW table, NEW done, NEW cum, NEW depth,
               table \in TableType, Window(table, done, cum, depth)
        PROVE  /\ table \in [head : 0 .. TableLen - 1, next : 0 .. TableLen - 1,
                             sqn : Nat, wqe : [0 .. TableLen - 1 -> WqeType]]
               /\ done \in Nat
    <3>1. table.sqn \in Nat /\ done \in Nat
      BY ONLY <2>2 DEF TableType, Window
    <3>2. table.head \in 0 .. TableLen - 1 /\ table.next \in 0 .. TableLen - 1
      <4>1. table.head = done % TableLen /\ table.next = table.sqn % TableLen
        BY ONLY <2>2 DEF Window
      <4>2. done % TableLen \in 0 .. TableLen - 1 /\ table.sqn % TableLen \in 0 .. TableLen - 1
        BY ONLY <3>1, DivMod, TransferAssumption
      <4> QED
        BY ONLY <4>1, <4>2
    <3> QED
      BY ONLY <2>2, <3>1, <3>2 DEF TableType, WqeType
  <2>3. Client!TypeOK
    <3>1. /\ Posting(sizes, cl_table.sqn, cl_call, cl_post_turn, cl_cum)
          /\ cl_table \in TableType /\ Window(cl_table, cl_done, cl_cum, TxDepth)
          /\ cl_active = NumPath
          /\ cl_stat \in [Paths -> Status] /\ cl_cq \in [Paths -> Nat]
          /\ cl_tot \in [posted : Nat, polled : Nat] /\ cl_poll_turn \in Paths
      BY DEF IndInv, SidesInv, BooksInv, ClientBooks, Counters
    <3>2. /\ cl_post_turn \in Paths /\ cl_cum \in Seq(Nat)
          /\ cl_call \in [pc : {"idle", "post", "drain"}, i : Nat, iter : Nat,
                          active : 1 .. NumPath]
      BY ONLY <2>1, <3>1
    <3>3. /\ cl_table \in [head : 0 .. TableLen - 1, next : 0 .. TableLen - 1,
                           sqn : Nat, wqe : [0 .. TableLen - 1 -> WqeType]]
          /\ cl_done \in Nat
      BY ONLY <2>2, <3>1
    <3>4. cl_active \in 1 .. NumPath
      BY <3>1
    <3>5. /\ Client!Paths = Paths /\ Client!Slots = 0 .. TableLen - 1
          /\ Client!Wqe = WqeType /\ Client!QpStatus = Status
      BY DEF Client!Paths, Paths, Client!Slots, Client!Wqe, WqeType, Client!QpStatus, Status
    <3> QED
      BY ONLY <3>1, <3>2, <3>3, <3>4, <3>5 DEF Client!TypeOK
  <2>4. Server!TypeOK
    <3>1. /\ Posting(sizes, sv_table.sqn, sv_call, sv_post_turn, sv_cum)
          /\ sv_table \in TableType /\ Window(sv_table, sv_done, sv_cum, RxDepth)
          /\ sv_active = NumPath
          /\ sv_stat \in [Paths -> Status] /\ sv_cq \in [Paths -> Nat]
          /\ sv_tot \in [posted : Nat, polled : Nat] /\ sv_poll_turn \in Paths
      BY DEF IndInv, SidesInv, BooksInv, ServerBooks, Counters
    <3>2. /\ sv_post_turn \in Paths /\ sv_cum \in Seq(Nat)
          /\ sv_call \in [pc : {"idle", "post", "drain"}, i : Nat, iter : Nat,
                          active : 1 .. NumPath]
      BY ONLY <2>1, <3>1
    <3>3. /\ sv_table \in [head : 0 .. TableLen - 1, next : 0 .. TableLen - 1,
                           sqn : Nat, wqe : [0 .. TableLen - 1 -> WqeType]]
          /\ sv_done \in Nat
      BY ONLY <2>2, <3>1
    <3>4. sv_active \in 1 .. NumPath
      BY <3>1
    <3>5. /\ Server!Paths = Paths /\ Server!Slots = 0 .. TableLen - 1
          /\ Server!Wqe = WqeType /\ Server!QpStatus = Status
      BY DEF Server!Paths, Paths, Server!Slots, Server!Wqe, WqeType, Server!QpStatus, Status
    <3> QED
      BY ONLY <3>1, <3>2, <3>3, <3>4, <3>5 DEF Server!TypeOK
  <2>5. QueueTypes /\ sizes \in [1 .. MaxMsgs -> Sizes]
    BY DEF IndInv, SidesInv, Posting
  <2> QED
    BY <2>3, <2>4, <2>5 DEF TypeOK, QueueTypes, Packets
<1> QED
  BY <1>1, BooksAreRight, PTL

-----------------------------------------------------------------------------
(***************************************************************************)
(* The counters of an endpoint, whatever polls it.                         *)
(***************************************************************************)
(* The fields of a path's status, whatever is in them. *)
StatShape(s) == s = [posted |-> s.posted, polled |-> s.polled, tot_pkt |-> s.tot_pkt,
                     comp_temp |-> s.comp_temp, wqe_idx |-> s.wqe_idx, qlen |-> s.qlen]

CqsFit(stat, cq) == \A p \in Paths : cq[p] <= stat[p].qlen

ClientTyped ==
  /\ Client!TypeOK /\ CqsFit(cl_stat, cl_cq)
  /\ cl_cum # <<>> /\ cl_table.sqn <= MaxMsgs
  /\ cl_call.pc # "idle" => cl_table.sqn > 0

(* A completion is polled. *)
LEMMA ClientPolledTyped ==
  ASSUME NEW s \in Client!QpStatus, NEW t, s.qlen > 0
  PROVE  Client!Polled(s, t) \in Client!QpStatus /\ Client!Polled(s, t).qlen = s.qlen - 1
<1>1. /\ s.posted \in Nat /\ s.polled \in Nat /\ s.tot_pkt \in Nat
      /\ s.comp_temp \in Nat /\ s.wqe_idx \in 0 .. TableLen - 1 /\ s.qlen \in Nat
      /\ StatShape(s)
  BY DEF Client!QpStatus, Client!Slots, StatShape
<1>2. Client!Wrap(s.wqe_idx + 1) \in 0 .. TableLen - 1
  BY <1>1, TransferAssumption DEF Client!Wrap
<1>3. PICK temp \in Nat, idx \in 0 .. TableLen - 1 :
        Client!Polled(s, t) = [s EXCEPT !.polled = s.polled + 1, !.tot_pkt = s.tot_pkt + 1,
                                        !.qlen = s.qlen - 1, !.comp_temp = temp, !.wqe_idx = idx]
  <2>1. s.comp_temp + 1 \in Nat /\ 0 \in Nat
    BY <1>1
  <2> QED
    BY <1>1, <1>2, <2>1 DEF Client!Polled
<1>4. Client!Polled(s, t) = [posted |-> s.posted, polled |-> s.polled + 1, tot_pkt |-> s.tot_pkt + 1,
                             comp_temp |-> temp, wqe_idx |-> idx, qlen |-> s.qlen - 1]
  BY <1>1, <1>3 DEF StatShape
<1> QED
  BY <1>1, <1>4 DEF Client!QpStatus, Client!Slots

(* The inner poll. *)
LEMMA ClientInnerTyped ==
  ASSUME Client!TypeOK, CqsFit(cl_stat, cl_cq), Client!InnerPoll
  PROVE  /\ cl_stat' \in [Client!Paths -> Client!QpStatus]
         /\ cl_tot' \in [posted : Nat, polled : Nat]
         /\ cl_cq' \in [Client!Paths -> Nat]
         /\ cl_poll_turn' \in Client!Paths
         /\ CqsFit(cl_stat', cl_cq')
<1>1. PICK t : t = cl_poll_turn % cl_active
  OBVIOUS
<1>2. /\ cl_active \in Nat \ {0} /\ cl_active <= NumPath /\ cl_poll_turn \in Nat
      /\ NumPath \in Nat
  BY TransferAssumption DEF Client!TypeOK, Client!Paths
<1>3. t \in Client!Paths /\ t \in Paths
  <2>1. t \in 0 .. cl_active - 1
    BY <1>1, <1>2, DivMod
  <2> QED
    BY <1>2, <2>1 DEF Client!Paths, Paths
<1>4. cl_poll_turn' \in Client!Paths
  <2>1. (cl_poll_turn + 1) % cl_active \in 0 .. cl_active - 1
    BY <1>2, DivMod
  <2>2. (cl_poll_turn + 1) % cl_active \in Client!Paths
    BY <1>2, <2>1 DEF Client!Paths
  <2> QED
    BY <2>2 DEF Client!InnerPoll, Client!TypeOK
<1>5. CASE UNCHANGED <<cl_stat, cl_tot, cl_cq>>
  BY <1>4, <1>5 DEF Client!TypeOK, CqsFit
<1>6. CASE /\ cl_cq[t] > 0
           /\ cl_stat' = [cl_stat EXCEPT ![t] = Client!Polled(cl_stat[t], t)]
           /\ cl_tot' = [cl_tot EXCEPT !.polled = cl_tot.polled + 1]
           /\ cl_cq' = [cl_cq EXCEPT ![t] = cl_cq[t] - 1]
  <2>1. /\ cl_stat \in [Client!Paths -> Client!QpStatus] /\ cl_stat[t] \in Client!QpStatus
        /\ cl_cq \in [Client!Paths -> Nat] /\ cl_cq[t] \in Nat /\ cl_cq[t] <= cl_stat[t].qlen
        /\ cl_stat[t].qlen \in Nat
    BY <1>3 DEF Client!TypeOK, CqsFit, Client!QpStatus
  <2>2. PICK s2 \in Client!QpStatus : /\ s2 = Client!Polled(cl_stat[t], t)
                                      /\ s2.qlen = cl_stat[t].qlen - 1
    <3>1. cl_stat[t].qlen > 0
      BY <1>6, <2>1
    <3> QED
      BY <2>1, <3>1, ClientPolledTyped
  <2>3. cl_stat' = [cl_stat EXCEPT ![t] = s2]
    BY <1>6, <2>2
  <2>4. cl_stat' \in [Client!Paths -> Client!QpStatus]
    BY <2>1, <2>3
  <2>5. PICK c \in Nat : c = cl_cq[t] - 1
    BY <1>6, <2>1
  <2>6. cl_cq' \in [Client!Paths -> Nat]
    BY <1>6, <2>1, <2>5
  <2>7. cl_tot' \in [posted : Nat, polled : Nat]
    <3>1. cl_tot \in [posted : Nat, polled : Nat]
      BY DEF Client!TypeOK
    <3>2. PICK n \in Nat : n = cl_tot.polled + 1
      BY <3>1
    <3>3. cl_tot' = [cl_tot EXCEPT !.polled = n]
      BY <1>6, <3>2
    <3> QED
      BY ONLY <3>1, <3>3, n \in Nat
  <2>8. ASSUME NEW p \in Paths
        PROVE  cl_cq'[p] <= cl_stat'[p].qlen
    <3>1. CASE p = t
      BY <1>6, <2>1, <2>2, <2>3, <3>1, <1>3
    <3>2. CASE p # t
      BY <1>6, <2>1, <2>3, <3>2 DEF CqsFit
    <3> QED
      BY <3>1, <3>2
  <2> QED
    BY <1>4, <2>4, <2>6, <2>7, <2>8 DEF CqsFit
<1> QED
  BY <1>1, <1>5, <1>6 DEF Client!InnerPoll

(* The loop moves on to the next packet. *)
LEMMA ClientNextTyped ==
  ASSUME Client!TypeOK, Client!NextPacket
  PROVE  /\ cl_post_turn' \in Client!Paths
         /\ cl_call' \in [pc : {"idle", "post", "drain"}, i : Nat, iter : Nat, active : 1 .. NumPath]
<1>1. /\ cl_call \in [pc : {"idle", "post", "drain"}, i : Nat, iter : Nat, active : 1 .. NumPath]
      /\ cl_post_turn \in Nat /\ NumPath \in Nat
  BY TransferAssumption DEF Client!TypeOK, Client!Paths
<1>2. cl_call.active \in Nat \ {0} /\ cl_call.active <= NumPath /\ cl_call.i + 1 \in Nat
  BY <1>1
<1>3. (cl_post_turn + 1) % cl_call.active \in Client!Paths
  <2>1. (cl_post_turn + 1) % cl_call.active \in 0 .. cl_call.active - 1
    <3>1. cl_post_turn + 1 \in Nat
      BY <1>1
    <3> QED
      BY ONLY <1>2, <3>1, DivMod
  <2> QED
    BY <1>1, <1>2, <2>1 DEF Client!Paths
<1>4. PICK pc \in {"idle", "post", "drain"} : cl_call' = [cl_call EXCEPT !.i = cl_call.i + 1, !.pc = pc]
  BY DEF Client!NextPacket
<1> QED
  BY <1>1, <1>2, <1>3, <1>4 DEF Client!NextPacket

(* A message is posted. *)
LEMMA ClientPostTyped ==
  ASSUME ClientTyped, NEW size \in Sizes, Client!Post(size), cl_table.sqn < MaxMsgs
  PROVE  ClientTyped'
<1>1. /\ cl_table \in [head : Client!Slots, next : Client!Slots, sqn : Nat, wqe : [Client!Slots -> Client!Wqe]]
      /\ cl_active \in 1 .. NumPath /\ NumPath \in Nat /\ size \in Nat /\ size >= NumPath
      /\ cl_post_turn \in Nat /\ cl_cum \in Seq(Nat) /\ cl_cum # <<>>
  BY TransferAssumption DEF ClientTyped, Client!TypeOK, Client!Paths
<1>2. PICK n \in Nat : n = Client!IterEach(size, cl_active)
  <2>1. size >= cl_active /\ cl_active \in Nat \ {0}
    BY <1>1
  <2>2. IterEach(size, cl_active) \in Nat
    BY <1>1, <2>1, IterEachPositive
  <2> QED
    BY <2>2 DEF Client!IterEach, IterEach, Client!ChunkSize, ChunkSize
<1>3. PICK w \in Client!Wqe :
        w = [valid |-> 1, iter_each |-> [p \in Client!Paths |-> IF p < cl_active THEN n ELSE 0]]
  BY DEF Client!Wqe
<1>3a. cl_table.next \in 0 .. TableLen - 1 /\ cl_table.sqn \in Nat
  BY <1>1 DEF Client!Slots
<1>3b. PICK nx \in Client!Slots : nx = Client!Wrap(cl_table.next + 1)
  BY <1>3a, TransferAssumption DEF Client!Wrap, Client!Slots
<1>3c. PICK m \in Nat : m = cl_table.sqn + 1
  BY <1>3a
<1>4. nx = Client!Wrap(cl_table.next + 1) /\ m = cl_table.sqn + 1
  BY <1>3b, <1>3c
<1>5. cl_table' = [cl_table EXCEPT !.next = nx, !.sqn = m, !.wqe[cl_table.next] = w]
  BY <1>2, <1>3, <1>4 DEF Client!Post, Client!StoreWr
<1>6. /\ cl_table' \in [head : Client!Slots, next : Client!Slots, sqn : Nat, wqe : [Client!Slots -> Client!Wqe]]
      /\ cl_table'.sqn = m
  BY ONLY <1>1, <1>5, nx \in Client!Slots, m \in Nat, w \in Client!Wqe
<1>7. cl_post_turn' \in Client!Paths
  <2>1. cl_post_turn % cl_active \in 0 .. cl_active - 1
    <3>1. cl_active \in Nat \ {0}
      BY <1>1
    <3> QED
      BY ONLY <1>1, <3>1, DivMod
  <2> QED
    BY <1>1, <2>1 DEF Client!Post, Client!Paths
<1>8. PICK it \in Nat : it = Client!Iter(size, cl_active)
  <2>1. n * cl_active \in Nat
    BY <1>1
  <2> QED
    BY <1>2, <2>1 DEF Client!Iter
<1>9. cl_call' \in [pc : {"idle", "post", "drain"}, i : Nat, iter : Nat, active : 1 .. NumPath]
  BY <1>1, <1>8 DEF Client!Post
<1>10. cl_cum' \in Seq(Nat) /\ cl_cum' # <<>>
  <2>1. cl_cum[Len(cl_cum)] \in Nat
    BY <1>1
  <2>2. PICK x \in Nat : x = cl_cum[Len(cl_cum)] + n
    BY <2>1
  <2>3. cl_cum' = Append(cl_cum, x)
    BY <1>2, <2>2 DEF Client!Post
  <2> QED
    BY <1>1, <2>3, AppendProperties
<1>11. m <= MaxMsgs /\ m > 0
  BY <1>1, <1>4, TransferAssumption
<1> QED
  BY <1>1, <1>6, <1>7, <1>9, <1>10, <1>11 DEF ClientTyped, Client!TypeOK, Client!Post, CqsFit

(* A packet is posted. *)
LEMMA ClientPacketTyped ==
  ASSUME ClientTyped, Client!PostPacket
  PROVE  ClientTyped'
<1>1. /\ cl_stat \in [Client!Paths -> Client!QpStatus] /\ cl_post_turn \in Client!Paths
      /\ cl_tot \in [posted : Nat, polled : Nat]
      /\ cl_call \in [pc : {"idle", "post", "drain"}, i : Nat, iter : Nat, active : 1 .. NumPath]
      /\ cl_cq \in [Client!Paths -> Nat]
  BY DEF ClientTyped, Client!TypeOK
<1>2. PICK t \in Client!Paths : t = cl_post_turn
  BY <1>1
<1>3. PICK s : s = cl_stat[t]
  OBVIOUS
<1>4. s \in Client!QpStatus /\ s.posted + 1 \in Nat /\ s.qlen + 1 \in Nat /\ s.qlen \in Nat
  BY <1>1, <1>3 DEF Client!QpStatus
<1>5. PICK s2 : s2 = [s EXCEPT !.posted = s.posted + 1, !.qlen = s.qlen + 1]
  OBVIOUS
<1>6. s2 \in Client!QpStatus /\ s2.qlen = s.qlen + 1
  BY <1>4, <1>5 DEF Client!QpStatus
<1>7. cl_stat' = [cl_stat EXCEPT ![t] = s2]
  BY <1>2, <1>3, <1>5 DEF Client!PostPacket
<1>8. cl_stat' \in [Client!Paths -> Client!QpStatus]
  BY <1>1, <1>6, <1>7
<1>9. CqsFit(cl_stat', cl_cq')
  <2>1. cl_cq' = cl_cq
    BY DEF Client!PostPacket
  <2>2. ASSUME NEW p \in Paths
        PROVE  cl_cq[p] <= cl_stat'[p].qlen
    <3>1. cl_cq[p] \in Nat /\ cl_cq[p] <= cl_stat[p].qlen /\ p \in Client!Paths
      BY <1>1 DEF ClientTyped, CqsFit, Client!Paths, Paths
    <3>2. CASE p = t
      BY <1>1, <1>3, <1>4, <1>6, <1>7, <3>1, <3>2
    <3>3. CASE p # t
      BY <1>1, <1>7, <3>1, <3>3
    <3> QED
      BY <3>2, <3>3
  <2> QED
    BY <2>1, <2>2 DEF CqsFit
<1>10. cl_tot' \in [posted : Nat, polled : Nat]
  <2>1. PICK n \in Nat : n = cl_tot.posted + 1
    BY <1>1
  <2>2. cl_tot' = [cl_tot EXCEPT !.posted = n]
    BY <2>1 DEF Client!PostPacket
  <2> QED
    BY ONLY <1>1, <2>2, n \in Nat
<1>11. /\ cl_post_turn' \in Client!Paths
       /\ cl_call' \in [pc : {"idle", "post", "drain"}, i : Nat, iter : Nat, active : 1 .. NumPath]
  <2>1. CASE Client!NextPacket
    BY <2>1, ClientNextTyped DEF ClientTyped
  <2>2. CASE cl_call' = [cl_call EXCEPT !.pc = "drain"] /\ UNCHANGED cl_post_turn
    BY <1>1, <2>2
  <2> QED
    BY <2>1, <2>2 DEF Client!PostPacket
<1>12. cl_table.sqn > 0
  BY DEF Client!PostPacket, ClientTyped
<1> QED
  BY <1>8, <1>9, <1>10, <1>11, <1>12 DEF ClientTyped, Client!TypeOK, Client!PostPacket

(* The paths are polled, and the call that waits for it may go on.          *)
LEMMA ClientPollTyped ==
  ASSUME ClientTyped, Client!InnerPoll, UNCHANGED <<cl_active, cl_done, cl_cum>>,
         cl_table' \in [head : Client!Slots, next : Client!Slots, sqn : Nat, wqe : [Client!Slots -> Client!Wqe]],
         cl_table'.sqn = cl_table.sqn,
         UNCHANGED <<cl_call, cl_post_turn>> \/ (cl_call.pc # "idle" /\ Client!NextPacket)
  PROVE  ClientTyped'
<1>1. /\ cl_stat' \in [Client!Paths -> Client!QpStatus]
      /\ cl_tot' \in [posted : Nat, polled : Nat]
      /\ cl_cq' \in [Client!Paths -> Nat]
      /\ cl_poll_turn' \in Client!Paths
      /\ CqsFit(cl_stat', cl_cq')
  BY ClientInnerTyped DEF ClientTyped
<1>2. /\ cl_post_turn' \in Client!Paths
      /\ cl_call' \in [pc : {"idle", "post", "drain"}, i : Nat, iter : Nat, active : 1 .. NumPath]
      /\ cl_call'.pc # "idle" => cl_table.sqn > 0
  <2>1. CASE Client!NextPacket /\ cl_call.pc # "idle"
    BY <2>1, ClientNextTyped DEF ClientTyped
  <2>2. CASE UNCHANGED <<cl_call, cl_post_turn>>
    BY <2>2 DEF ClientTyped, Client!TypeOK
  <2> QED
    BY <2>1, <2>2
<1> QED
  BY <1>1, <1>2 DEF ClientTyped, Client!TypeOK

(* A message is reported. *)
LEMMA ClientReportTyped ==
  ASSUME ClientTyped, Client!PollComplete
  PROVE  ClientTyped'
<1>1. /\ cl_stat \in [Client!Paths -> Client!QpStatus]
      /\ cl_table \in [head : Client!Slots, next : Client!Slots, sqn : Nat, wqe : [Client!Slots -> Client!Wqe]]
      /\ cl_done + 1 \in Nat /\ cl_active \in 1 .. NumPath /\ NumPath \in Nat
  BY TransferAssumption DEF ClientTyped, Client!TypeOK
<1>2. PICK h \in Client!Slots, w \in Client!Wqe : h = cl_table.head /\ w = cl_table.wqe[h]
  BY <1>1
<1>3. w \in Client!Wqe
  BY <1>1, <1>2
<1>4. ASSUME NEW p \in Client!Paths
      PROVE  cl_stat'[p] \in Client!QpStatus /\ cl_stat'[p].qlen = cl_stat[p].qlen
  <2>1. PICK s : s = cl_stat[p]
    OBVIOUS
  <2>2. s \in Client!QpStatus /\ s.polled \in Nat
    BY <1>1, <2>1 DEF Client!QpStatus
  <2>3. CASE ~ (p < cl_active)
    BY <2>1, <2>2, <2>3 DEF Client!PollComplete
  <2>4. CASE p < cl_active
    <3>1. w.iter_each[p] \in Nat
      BY <1>3 DEF Client!Wqe
    <3>2. s.polled >= w.iter_each[p]
      <4>1. p \in 0 .. cl_active - 1
        BY <1>1, <2>4 DEF Client!Paths
      <4> QED
        BY <1>2, <2>1, <4>1 DEF Client!PollComplete, Client!HeadComplete
    <3>3. PICK n \in Nat : n = s.polled - w.iter_each[p]
      BY <2>2, <3>1, <3>2
    <3>4. cl_stat'[p] = [s EXCEPT !.polled = n]
      BY <1>2, <2>1, <2>4, <3>3 DEF Client!PollComplete
    <3> QED
      BY <2>1, <2>2, <3>4 DEF Client!QpStatus
  <2> QED
    BY <2>3, <2>4
<1>5. cl_stat' \in [Client!Paths -> Client!QpStatus]
  <2>1. cl_stat' = [p \in Client!Paths |-> cl_stat'[p]]
    BY DEF Client!PollComplete
  <2> QED
    BY <1>4, <2>1
<1>6. CqsFit(cl_stat', cl_cq')
  <2>1. cl_cq' = cl_cq
    BY DEF Client!PollComplete
  <2> QED
    BY <1>4, <2>1 DEF ClientTyped, CqsFit, Client!Paths, Paths
<1>7. PICK h2 \in Client!Slots : h2 = Client!Wrap(h + 1)
  BY TransferAssumption DEF Client!Wrap, Client!Slots
<1>8. PICK w2 \in Client!Wqe : w2 = [w EXCEPT !.valid = 0]
  BY <1>3 DEF Client!Wqe
<1>9. cl_table' = [cl_table EXCEPT !.wqe = [cl_table.wqe EXCEPT ![h] = w2], !.head = h2]
  BY <1>1, <1>2, <1>7, <1>8 DEF Client!PollComplete
<1>10. [cl_table.wqe EXCEPT ![h] = w2] \in [Client!Slots -> Client!Wqe]
  BY <1>1
<1>11. /\ cl_table' \in [head : Client!Slots, next : Client!Slots, sqn : Nat, wqe : [Client!Slots -> Client!Wqe]]
       /\ cl_table'.sqn = cl_table.sqn
  BY <1>1, <1>9, <1>10
<1> QED
  BY <1>1, <1>5, <1>6, <1>11 DEF ClientTyped, Client!TypeOK, Client!PollComplete

(* The polls of an endpoint. *)
LEMMA ClientPollsTyped ==
  ASSUME ClientTyped, Client!DrainPoll \/ Client!PollComplete \/ Client!PollProgress
  PROVE  ClientTyped'
<1>1. CASE Client!PollComplete
  BY <1>1, ClientReportTyped
<1>2. CASE Client!DrainPoll \/ Client!PollProgress
  <2>1. /\ Client!InnerPoll /\ UNCHANGED <<cl_active, cl_done, cl_cum>> /\ cl_table' = cl_table
        /\ UNCHANGED <<cl_call, cl_post_turn>> \/ (cl_call.pc # "idle" /\ Client!NextPacket)
    <3>1. CASE Client!DrainPoll
      BY <3>1 DEF Client!DrainPoll
    <3>2. CASE Client!PollProgress
      BY <3>2 DEF Client!PollProgress
    <3> QED
      BY <1>2, <3>1, <3>2
  <2>2. cl_table \in [head : Client!Slots, next : Client!Slots, sqn : Nat, wqe : [Client!Slots -> Client!Wqe]]
    BY DEF ClientTyped, Client!TypeOK
  <2> QED
    BY <2>1, <2>2, ClientPollTyped
<1> QED
  BY <1>1, <1>2

(* The card completes a packet; ... *)
LEMMA ClientCardTyped ==
  ASSUME ClientTyped, NEW p \in Paths, Client!NicComplete(p)
  PROVE  ClientTyped'
<1>1. cl_cq \in [Client!Paths -> Nat] /\ p \in Client!Paths
  BY DEF ClientTyped, Client!TypeOK, Client!Paths, Paths
<1>2. /\ cl_stat \in [Client!Paths -> Client!QpStatus] /\ cl_stat[p].qlen \in Nat
  BY <1>1 DEF ClientTyped, Client!TypeOK, Client!QpStatus
<1>3. PICK n \in Nat : n = cl_cq[p] + 1
  BY <1>1
<1>4. cl_cq' = [cl_cq EXCEPT ![p] = n] /\ n <= cl_stat[p].qlen
  BY <1>1, <1>2, <1>3 DEF Client!NicComplete
<1>5. cl_cq' \in [Client!Paths -> Nat]
  BY <1>1, <1>4
<1>6. CqsFit(cl_stat, cl_cq')
  BY <1>1, <1>4 DEF ClientTyped, CqsFit
<1> QED
  BY <1>5, <1>6 DEF ClientTyped, Client!TypeOK, Client!NicComplete

(* The server's, in the same way. *)
ServerTyped ==
  /\ Server!TypeOK /\ CqsFit(sv_stat, sv_cq)
  /\ sv_cum # <<>> /\ sv_table.sqn <= MaxMsgs
  /\ sv_call.pc # "idle" => sv_table.sqn > 0

(* A completion is polled. *)
LEMMA ServerPolledTyped ==
  ASSUME NEW s \in Server!QpStatus, NEW t, s.qlen > 0
  PROVE  Server!Polled(s, t) \in Server!QpStatus /\ Server!Polled(s, t).qlen = s.qlen - 1
<1>1. /\ s.posted \in Nat /\ s.polled \in Nat /\ s.tot_pkt \in Nat
      /\ s.comp_temp \in Nat /\ s.wqe_idx \in 0 .. TableLen - 1 /\ s.qlen \in Nat
      /\ StatShape(s)
  BY DEF Server!QpStatus, Server!Slots, StatShape
<1>2. Server!Wrap(s.wqe_idx + 1) \in 0 .. TableLen - 1
  BY <1>1, TransferAssumption DEF Server!Wrap
<1>3. PICK temp \in Nat, idx \in 0 .. TableLen - 1 :
        Server!Polled(s, t) = [s EXCEPT !.polled = s.polled + 1, !.tot_pkt = s.tot_pkt + 1,
                                        !.qlen = s.qlen - 1, !.comp_temp = temp, !.wqe_idx = idx]
  <2>1. s.comp_temp + 1 \in Nat /\ 0 \in Nat
    BY <1>1
  <2> QED
    BY <1>1, <1>2, <2>1 DEF Server!Polled
<1>4. Server!Polled(s, t) = [posted |-> s.posted, polled |-> s.polled + 1, tot_pkt |-> s.tot_pkt + 1,
                             comp_temp |-> temp, wqe_idx |-> idx, qlen |-> s.qlen - 1]
  BY <1>1, <1>3 DEF StatShape
<1> QED
  BY <1>1, <1>4 DEF Server!QpStatus, Server!Slots

(* The inner poll. *)
LEMMA ServerInnerTyped ==
  ASSUME Server!TypeOK, CqsFit(sv_stat, sv_cq), Server!InnerPoll
  PROVE  /\ sv_stat' \in [Server!Paths -> Server!QpStatus]
         /\ sv_tot' \in [posted : Nat, polled : Nat]
         /\ sv_cq' \in [Server!Paths -> Nat]
         /\ sv_poll_turn' \in Server!Paths
         /\ CqsFit(sv_stat', sv_cq')
<1>1. PICK t : t = sv_poll_turn % sv_active
  OBVIOUS
<1>2. /\ sv_active \in Nat \ {0} /\ sv_active <= NumPath /\ sv_poll_turn \in Nat
      /\ NumPath \in Nat
  BY TransferAssumption DEF Server!TypeOK, Server!Paths
<1>3. t \in Server!Paths /\ t \in Paths
  <2>1. t \in 0 .. sv_active - 1
    BY <1>1, <1>2, DivMod
  <2> QED
    BY <1>2, <2>1 DEF Server!Paths, Paths
<1>4. sv_poll_turn' \in Server!Paths
  <2>1. (sv_poll_turn + 1) % sv_active \in 0 .. sv_active - 1
    BY <1>2, DivMod
  <2>2. (sv_poll_turn + 1) % sv_active \in Server!Paths
    BY <1>2, <2>1 DEF Server!Paths
  <2> QED
    BY <2>2 DEF Server!InnerPoll, Server!TypeOK
<1>5. CASE UNCHANGED <<sv_stat, sv_tot, sv_cq>>
  BY <1>4, <1>5 DEF Server!TypeOK, CqsFit
<1>6. CASE /\ sv_cq[t] > 0
           /\ sv_stat' = [sv_stat EXCEPT ![t] = Server!Polled(sv_stat[t], t)]
           /\ sv_tot' = [sv_tot EXCEPT !.polled = sv_tot.polled + 1]
           /\ sv_cq' = [sv_cq EXCEPT ![t] = sv_cq[t] - 1]
  <2>1. /\ sv_stat \in [Server!Paths -> Server!QpStatus] /\ sv_stat[t] \in Server!QpStatus
        /\ sv_cq \in [Server!Paths -> Nat] /\ sv_cq[t] \in Nat /\ sv_cq[t] <= sv_stat[t].qlen
        /\ sv_stat[t].qlen \in Nat
    BY <1>3 DEF Server!TypeOK, CqsFit, Server!QpStatus
  <2>2. PICK s2 \in Server!QpStatus : /\ s2 = Server!Polled(sv_stat[t], t)
                                      /\ s2.qlen = sv_stat[t].qlen - 1
    <3>1. sv_stat[t].qlen > 0
      BY <1>6, <2>1
    <3> QED
      BY <2>1, <3>1, ServerPolledTyped
  <2>3. sv_stat' = [sv_stat EXCEPT ![t] = s2]
    BY <1>6, <2>2
  <2>4. sv_stat' \in [Server!Paths -> Server!QpStatus]
    BY <2>1, <2>3
  <2>5. PICK c \in Nat : c = sv_cq[t] - 1
    BY <1>6, <2>1
  <2>6. sv_cq' \in [Server!Paths -> Nat]
    BY <1>6, <2>1, <2>5
  <2>7. sv_tot' \in [posted : Nat, polled : Nat]
    <3>1. sv_tot \in [posted : Nat, polled : Nat]
      BY DEF Server!TypeOK
    <3>2. PICK n \in Nat : n = sv_tot.polled + 1
      BY <3>1
    <3>3. sv_tot' = [sv_tot EXCEPT !.polled = n]
      BY <1>6, <3>2
    <3> QED
      BY ONLY <3>1, <3>3, n \in Nat
  <2>8. ASSUME NEW p \in Paths
        PROVE  sv_cq'[p] <= sv_stat'[p].qlen
    <3>1. CASE p = t
      BY <1>6, <2>1, <2>2, <2>3, <3>1, <1>3
    <3>2. CASE p # t
      BY <1>6, <2>1, <2>3, <3>2 DEF CqsFit
    <3> QED
      BY <3>1, <3>2
  <2> QED
    BY <1>4, <2>4, <2>6, <2>7, <2>8 DEF CqsFit
<1> QED
  BY <1>1, <1>5, <1>6 DEF Server!InnerPoll

(* The loop moves on to the next packet. *)
LEMMA ServerNextTyped ==
  ASSUME Server!TypeOK, Server!NextPacket
  PROVE  /\ sv_post_turn' \in Server!Paths
         /\ sv_call' \in [pc : {"idle", "post", "drain"}, i : Nat, iter : Nat, active : 1 .. NumPath]
<1>1. /\ sv_call \in [pc : {"idle", "post", "drain"}, i : Nat, iter : Nat, active : 1 .. NumPath]
      /\ sv_post_turn \in Nat /\ NumPath \in Nat
  BY TransferAssumption DEF Server!TypeOK, Server!Paths
<1>2. sv_call.active \in Nat \ {0} /\ sv_call.active <= NumPath /\ sv_call.i + 1 \in Nat
  BY <1>1
<1>3. (sv_post_turn + 1) % sv_call.active \in Server!Paths
  <2>1. (sv_post_turn + 1) % sv_call.active \in 0 .. sv_call.active - 1
    <3>1. sv_post_turn + 1 \in Nat
      BY <1>1
    <3> QED
      BY ONLY <1>2, <3>1, DivMod
  <2> QED
    BY <1>1, <1>2, <2>1 DEF Server!Paths
<1>4. PICK pc \in {"idle", "post", "drain"} : sv_call' = [sv_call EXCEPT !.i = sv_call.i + 1, !.pc = pc]
  BY DEF Server!NextPacket
<1> QED
  BY <1>1, <1>2, <1>3, <1>4 DEF Server!NextPacket

(* A message is posted. *)
LEMMA ServerPostTyped ==
  ASSUME ServerTyped, NEW size \in Sizes, Server!Post(size), sv_table.sqn < MaxMsgs
  PROVE  ServerTyped'
<1>1. /\ sv_table \in [head : Server!Slots, next : Server!Slots, sqn : Nat, wqe : [Server!Slots -> Server!Wqe]]
      /\ sv_active \in 1 .. NumPath /\ NumPath \in Nat /\ size \in Nat /\ size >= NumPath
      /\ sv_post_turn \in Nat /\ sv_cum \in Seq(Nat) /\ sv_cum # <<>>
  BY TransferAssumption DEF ServerTyped, Server!TypeOK, Server!Paths
<1>2. PICK n \in Nat : n = Server!IterEach(size, sv_active)
  <2>1. size >= sv_active /\ sv_active \in Nat \ {0}
    BY <1>1
  <2>2. IterEach(size, sv_active) \in Nat
    BY <1>1, <2>1, IterEachPositive
  <2> QED
    BY <2>2 DEF Server!IterEach, IterEach, Server!ChunkSize, ChunkSize
<1>3. PICK w \in Server!Wqe :
        w = [valid |-> 1, iter_each |-> [p \in Server!Paths |-> IF p < sv_active THEN n ELSE 0]]
  BY DEF Server!Wqe
<1>3a. sv_table.next \in 0 .. TableLen - 1 /\ sv_table.sqn \in Nat
  BY <1>1 DEF Server!Slots
<1>3b. PICK nx \in Server!Slots : nx = Server!Wrap(sv_table.next + 1)
  BY <1>3a, TransferAssumption DEF Server!Wrap, Server!Slots
<1>3c. PICK m \in Nat : m = sv_table.sqn + 1
  BY <1>3a
<1>4. nx = Server!Wrap(sv_table.next + 1) /\ m = sv_table.sqn + 1
  BY <1>3b, <1>3c
<1>5. sv_table' = [sv_table EXCEPT !.next = nx, !.sqn = m, !.wqe[sv_table.next] = w]
  BY <1>2, <1>3, <1>4 DEF Server!Post, Server!StoreWr
<1>6. /\ sv_table' \in [head : Server!Slots, next : Server!Slots, sqn : Nat, wqe : [Server!Slots -> Server!Wqe]]
      /\ sv_table'.sqn = m
  BY ONLY <1>1, <1>5, nx \in Server!Slots, m \in Nat, w \in Server!Wqe
<1>7. sv_post_turn' \in Server!Paths
  <2>1. sv_post_turn % sv_active \in 0 .. sv_active - 1
    <3>1. sv_active \in Nat \ {0}
      BY <1>1
    <3> QED
      BY ONLY <1>1, <3>1, DivMod
  <2> QED
    BY <1>1, <2>1 DEF Server!Post, Server!Paths
<1>8. PICK it \in Nat : it = Server!Iter(size, sv_active)
  <2>1. n * sv_active \in Nat
    BY <1>1
  <2> QED
    BY <1>2, <2>1 DEF Server!Iter
<1>9. sv_call' \in [pc : {"idle", "post", "drain"}, i : Nat, iter : Nat, active : 1 .. NumPath]
  BY <1>1, <1>8 DEF Server!Post
<1>10. sv_cum' \in Seq(Nat) /\ sv_cum' # <<>>
  <2>1. sv_cum[Len(sv_cum)] \in Nat
    BY <1>1
  <2>2. PICK x \in Nat : x = sv_cum[Len(sv_cum)] + n
    BY <2>1
  <2>3. sv_cum' = Append(sv_cum, x)
    BY <1>2, <2>2 DEF Server!Post
  <2> QED
    BY <1>1, <2>3, AppendProperties
<1>11. m <= MaxMsgs /\ m > 0
  BY <1>1, <1>4, TransferAssumption
<1> QED
  BY <1>1, <1>6, <1>7, <1>9, <1>10, <1>11 DEF ServerTyped, Server!TypeOK, Server!Post, CqsFit

(* A packet is posted. *)
LEMMA ServerPacketTyped ==
  ASSUME ServerTyped, Server!PostPacket
  PROVE  ServerTyped'
<1>1. /\ sv_stat \in [Server!Paths -> Server!QpStatus] /\ sv_post_turn \in Server!Paths
      /\ sv_tot \in [posted : Nat, polled : Nat]
      /\ sv_call \in [pc : {"idle", "post", "drain"}, i : Nat, iter : Nat, active : 1 .. NumPath]
      /\ sv_cq \in [Server!Paths -> Nat]
  BY DEF ServerTyped, Server!TypeOK
<1>2. PICK t \in Server!Paths : t = sv_post_turn
  BY <1>1
<1>3. PICK s : s = sv_stat[t]
  OBVIOUS
<1>4. s \in Server!QpStatus /\ s.posted + 1 \in Nat /\ s.qlen + 1 \in Nat /\ s.qlen \in Nat
  BY <1>1, <1>3 DEF Server!QpStatus
<1>5. PICK s2 : s2 = [s EXCEPT !.posted = s.posted + 1, !.qlen = s.qlen + 1]
  OBVIOUS
<1>6. s2 \in Server!QpStatus /\ s2.qlen = s.qlen + 1
  BY <1>4, <1>5 DEF Server!QpStatus
<1>7. sv_stat' = [sv_stat EXCEPT ![t] = s2]
  BY <1>2, <1>3, <1>5 DEF Server!PostPacket
<1>8. sv_stat' \in [Server!Paths -> Server!QpStatus]
  BY <1>1, <1>6, <1>7
<1>9. CqsFit(sv_stat', sv_cq')
  <2>1. sv_cq' = sv_cq
    BY DEF Server!PostPacket
  <2>2. ASSUME NEW p \in Paths
        PROVE  sv_cq[p] <= sv_stat'[p].qlen
    <3>1. sv_cq[p] \in Nat /\ sv_cq[p] <= sv_stat[p].qlen /\ p \in Server!Paths
      BY <1>1 DEF ServerTyped, CqsFit, Server!Paths, Paths
    <3>2. CASE p = t
      BY <1>1, <1>3, <1>4, <1>6, <1>7, <3>1, <3>2
    <3>3. CASE p # t
      BY <1>1, <1>7, <3>1, <3>3
    <3> QED
      BY <3>2, <3>3
  <2> QED
    BY <2>1, <2>2 DEF CqsFit
<1>10. sv_tot' \in [posted : Nat, polled : Nat]
  <2>1. PICK n \in Nat : n = sv_tot.posted + 1
    BY <1>1
  <2>2. sv_tot' = [sv_tot EXCEPT !.posted = n]
    BY <2>1 DEF Server!PostPacket
  <2> QED
    BY ONLY <1>1, <2>2, n \in Nat
<1>11. /\ sv_post_turn' \in Server!Paths
       /\ sv_call' \in [pc : {"idle", "post", "drain"}, i : Nat, iter : Nat, active : 1 .. NumPath]
  <2>1. CASE Server!NextPacket
    BY <2>1, ServerNextTyped DEF ServerTyped
  <2>2. CASE sv_call' = [sv_call EXCEPT !.pc = "drain"] /\ UNCHANGED sv_post_turn
    BY <1>1, <2>2
  <2> QED
    BY <2>1, <2>2 DEF Server!PostPacket
<1>12. sv_table.sqn > 0
  BY DEF Server!PostPacket, ServerTyped
<1> QED
  BY <1>8, <1>9, <1>10, <1>11, <1>12 DEF ServerTyped, Server!TypeOK, Server!PostPacket

(* The paths are polled, and the call that waits for it may go on.          *)
LEMMA ServerPollTyped ==
  ASSUME ServerTyped, Server!InnerPoll, UNCHANGED <<sv_active, sv_done, sv_cum>>,
         sv_table' \in [head : Server!Slots, next : Server!Slots, sqn : Nat, wqe : [Server!Slots -> Server!Wqe]],
         sv_table'.sqn = sv_table.sqn,
         UNCHANGED <<sv_call, sv_post_turn>> \/ (sv_call.pc # "idle" /\ Server!NextPacket)
  PROVE  ServerTyped'
<1>1. /\ sv_stat' \in [Server!Paths -> Server!QpStatus]
      /\ sv_tot' \in [posted : Nat, polled : Nat]
      /\ sv_cq' \in [Server!Paths -> Nat]
      /\ sv_poll_turn' \in Server!Paths
      /\ CqsFit(sv_stat', sv_cq')
  BY ServerInnerTyped DEF ServerTyped
<1>2. /\ sv_post_turn' \in Server!Paths
      /\ sv_call' \in [pc : {"idle", "post", "drain"}, i : Nat, iter : Nat, active : 1 .. NumPath]
      /\ sv_call'.pc # "idle" => sv_table.sqn > 0
  <2>1. CASE Server!NextPacket /\ sv_call.pc # "idle"
    BY <2>1, ServerNextTyped DEF ServerTyped
  <2>2. CASE UNCHANGED <<sv_call, sv_post_turn>>
    BY <2>2 DEF ServerTyped, Server!TypeOK
  <2> QED
    BY <2>1, <2>2
<1> QED
  BY <1>1, <1>2 DEF ServerTyped, Server!TypeOK

(* A message is reported. *)
LEMMA ServerReportTyped ==
  ASSUME ServerTyped, Server!PollComplete
  PROVE  ServerTyped'
<1>1. /\ sv_stat \in [Server!Paths -> Server!QpStatus]
      /\ sv_table \in [head : Server!Slots, next : Server!Slots, sqn : Nat, wqe : [Server!Slots -> Server!Wqe]]
      /\ sv_done + 1 \in Nat /\ sv_active \in 1 .. NumPath /\ NumPath \in Nat
  BY TransferAssumption DEF ServerTyped, Server!TypeOK
<1>2. PICK h \in Server!Slots, w \in Server!Wqe : h = sv_table.head /\ w = sv_table.wqe[h]
  BY <1>1
<1>3. w \in Server!Wqe
  BY <1>1, <1>2
<1>4. ASSUME NEW p \in Server!Paths
      PROVE  sv_stat'[p] \in Server!QpStatus /\ sv_stat'[p].qlen = sv_stat[p].qlen
  <2>1. PICK s : s = sv_stat[p]
    OBVIOUS
  <2>2. s \in Server!QpStatus /\ s.polled \in Nat
    BY <1>1, <2>1 DEF Server!QpStatus
  <2>3. CASE ~ (p < sv_active)
    BY <2>1, <2>2, <2>3 DEF Server!PollComplete
  <2>4. CASE p < sv_active
    <3>1. w.iter_each[p] \in Nat
      BY <1>3 DEF Server!Wqe
    <3>2. s.polled >= w.iter_each[p]
      <4>1. p \in 0 .. sv_active - 1
        BY <1>1, <2>4 DEF Server!Paths
      <4> QED
        BY <1>2, <2>1, <4>1 DEF Server!PollComplete, Server!HeadComplete
    <3>3. PICK n \in Nat : n = s.polled - w.iter_each[p]
      BY <2>2, <3>1, <3>2
    <3>4. sv_stat'[p] = [s EXCEPT !.polled = n]
      BY <1>2, <2>1, <2>4, <3>3 DEF Server!PollComplete
    <3> QED
      BY <2>1, <2>2, <3>4 DEF Server!QpStatus
  <2> QED
    BY <2>3, <2>4
<1>5. sv_stat' \in [Server!Paths -> Server!QpStatus]
  <2>1. sv_stat' = [p \in Server!Paths |-> sv_stat'[p]]
    BY DEF Server!PollComplete
  <2> QED
    BY <1>4, <2>1
<1>6. CqsFit(sv_stat', sv_cq')
  <2>1. sv_cq' = sv_cq
    BY DEF Server!PollComplete
  <2> QED
    BY <1>4, <2>1 DEF ServerTyped, CqsFit, Server!Paths, Paths
<1>7. PICK h2 \in Server!Slots : h2 = Server!Wrap(h + 1)
  BY TransferAssumption DEF Server!Wrap, Server!Slots
<1>8. PICK w2 \in Server!Wqe : w2 = [w EXCEPT !.valid = 0]
  BY <1>3 DEF Server!Wqe
<1>9. sv_table' = [sv_table EXCEPT !.wqe = [sv_table.wqe EXCEPT ![h] = w2], !.head = h2]
  BY <1>1, <1>2, <1>7, <1>8 DEF Server!PollComplete
<1>10. [sv_table.wqe EXCEPT ![h] = w2] \in [Server!Slots -> Server!Wqe]
  BY <1>1
<1>11. /\ sv_table' \in [head : Server!Slots, next : Server!Slots, sqn : Nat, wqe : [Server!Slots -> Server!Wqe]]
       /\ sv_table'.sqn = sv_table.sqn
  BY <1>1, <1>9, <1>10
<1> QED
  BY <1>1, <1>5, <1>6, <1>11 DEF ServerTyped, Server!TypeOK, Server!PollComplete

(* The polls of an endpoint. *)
LEMMA ServerPollsTyped ==
  ASSUME ServerTyped, Server!DrainPoll \/ Server!PollComplete \/ Server!PollProgress
  PROVE  ServerTyped'
<1>1. CASE Server!PollComplete
  BY <1>1, ServerReportTyped
<1>2. CASE Server!DrainPoll \/ Server!PollProgress
  <2>1. /\ Server!InnerPoll /\ UNCHANGED <<sv_active, sv_done, sv_cum>> /\ sv_table' = sv_table
        /\ UNCHANGED <<sv_call, sv_post_turn>> \/ (sv_call.pc # "idle" /\ Server!NextPacket)
    <3>1. CASE Server!DrainPoll
      BY <3>1 DEF Server!DrainPoll
    <3>2. CASE Server!PollProgress
      BY <3>2 DEF Server!PollProgress
    <3> QED
      BY <1>2, <3>1, <3>2
  <2>2. sv_table \in [head : Server!Slots, next : Server!Slots, sqn : Nat, wqe : [Server!Slots -> Server!Wqe]]
    BY DEF ServerTyped, Server!TypeOK
  <2> QED
    BY <2>1, <2>2, ServerPollTyped
<1> QED
  BY <1>1, <1>2

(* The card completes a packet; ... *)
LEMMA ServerCardTyped ==
  ASSUME ServerTyped, NEW p \in Paths, Server!NicComplete(p)
  PROVE  ServerTyped'
<1>1. sv_cq \in [Server!Paths -> Nat] /\ p \in Server!Paths
  BY DEF ServerTyped, Server!TypeOK, Server!Paths, Paths
<1>2. /\ sv_stat \in [Server!Paths -> Server!QpStatus] /\ sv_stat[p].qlen \in Nat
  BY <1>1 DEF ServerTyped, Server!TypeOK, Server!QpStatus
<1>3. PICK n \in Nat : n = sv_cq[p] + 1
  BY <1>1
<1>4. sv_cq' = [sv_cq EXCEPT ![p] = n] /\ n <= sv_stat[p].qlen
  BY <1>1, <1>2, <1>3 DEF Server!NicComplete
<1>5. sv_cq' \in [Server!Paths -> Nat]
  BY <1>1, <1>4
<1>6. CqsFit(sv_stat, sv_cq')
  BY <1>1, <1>4 DEF ServerTyped, CqsFit
<1> QED
  BY <1>5, <1>6 DEF ServerTyped, Server!TypeOK, Server!NicComplete
=============================================================================

------------------------- MODULE MprudFailoverProofs -------------------------
(***************************************************************************)
(* The control messages of a recovery - report, acknowledgement, end - do  *)
(* what they are for, for every number of paths, all limits, table lengths *)
(* and depths, and every sequence of messages: the sides recover the same  *)
(* range, and neither gives the failed path anything after its recovery.   *)
(*                                                                         *)
(* A side's recovery is in one of five phases (Phase).  All that its other *)
(* steps do is small: what the control plane sees of a step is one of a    *)
(* handful of moves (ServerMove, ClientMove), and the rest is left alone.  *)
(* The invariant then says, for each direction, which control message is   *)
(* where, given the phases of both sides (ToClient, ToServer).             *)
(*                                                                         *)
(* Packets are resent on the same queues as the acknowledgement.  With two *)
(* paths one is left, it keeps order, and the acknowledgement comes first. *)
(* With more a packet resent may overtake it and fill the receive that was *)
(* posted for it; the server then reads a range that nobody wrote.  So     *)
(* what is shown of the range for more paths is conditional (Straight).    *)
(*                                                                         *)
(* That the client never resends from a slot it has not used needs both    *)
(* sides' posting loops.  Until the report the transfer is one over all    *)
(* paths (BeforeReport), and the server reports only when nothing is left  *)
(* in its queues of the other paths: it has not posted more messages than  *)
(* the client (ServerBehind).  BlindInv carries that through the recovery. *)
(*                                                                         *)
(* That the loop over comp_need always ends is about the numbers of a      *)
(* recovery: the packets given to the report QP and completed are those of *)
(* the WQEs that are resent, in order (Books), and each of these WQEs owes *)
(* something, since what the server says to be complete of the first is    *)
(* less than what it needs (LastCursor, Owed).  NumbersInv is the whole.   *)
(***************************************************************************)
EXTENDS MprudFailover, MprudTransferProofs

(* The fields of the recovery of one side, whatever is in them.             *)
RecShape(r) ==
  r = [at |-> r.at, flag |-> r.flag, listening |-> r.listening, got |-> r.got,
       over |-> r.over, msg |-> r.msg, max |-> r.max, post |-> r.post,
       poll |-> r.poll, i |-> r.i, iter |-> r.iter, turn |-> r.turn,
       out |-> r.out, pkt |-> r.pkt]

(* The fields of its report QP. *)
RepShape(r) == r = [sq |-> r.sq, scq |-> r.scq, rq |-> r.rq, rcq |-> r.rcq, buf |-> r.buf]

(* The recovery of a side: not begun, its queues being cleared, its control *)
(* message on the way, going on, over.                                      *)
Phase(r) ==
  IF r.over THEN "over"
  ELSE IF ~r.flag THEN "none"
  ELSE IF r.at \in {"clear", "nokey"} THEN "clear"
  ELSE IF r.at = "told" THEN "told" ELSE "on"

PhaseAt(r) ==
  /\ r.flag \in BOOLEAN /\ r.over \in BOOLEAN /\ r.listening \in BOOLEAN /\ r.got \in BOOLEAN
  /\ ~ (r.flag /\ r.over)
  /\ Phase(r) = "none" => r.at = "out"
  /\ Phase(r) = "on" => r.at \in {"polls", "pass", "resend", "rdrain", "out", "crash", "spin"}
  /\ Phase(r) = "over" => r.at \in {"sync", "polls", "out"}
  /\ Phase(r) \in {"clear", "told", "on"} => r.listening

Plane(r, s) == RecShape(r) /\ RepShape(s) /\ PhaseAt(r)

Control(kind, body) == [kind |-> kind, path |-> 0, body |-> body]
NoReport == [loss |-> 0, max |-> 0, completed |-> 0]

(* What is left alone by every step but the one that says otherwise.        *)
SameRec(r, r2) == r2.msg = r.msg /\ r2.max = r.max /\ r2.got = r.got /\ r2.listening = r.listening
SameRep(s, s2) == s2.sq = s.sq /\ s2.rq = s.rq /\ s2.rcq = s.rcq /\ s2.buf = s.buf

(* The server's steps: r, s are its recovery and report QP, r2, s2 the same *)
(* afterwards, next the slot of the next message.                           *)
ServerAlone(r, s, next, r2, s2) ==
  /\ Phase(r2) = Phase(r) /\ (r2.at = "sync" => r.at = "sync")
  /\ r2.msg = r.msg /\ r2.max = r.max /\ r2.got = r.got
  /\ SameRep(s, s2)

Detects(r, s, next, r2, s2) ==
  /\ Phase(r) = "none" /\ Phase(r2) = "clear"
  /\ SameRec(r, r2) /\ SameRep(s, s2)

Reports(r, s, next, r2, s2) ==
  /\ Phase(r) = "clear" /\ Phase(r2) = "told"
  /\ r2.msg.max = next - 1 /\ r2.max = r.max /\ r2.got = r.got
  /\ s2 = [s EXCEPT !.sq = Append(@, Control("report", r2.msg))]

AwaitsAck(r, s, next, r2, s2) ==
  /\ Phase(r) = "told" /\ Phase(r2) = "on"
  /\ r2.msg = r.msg /\ r2.max = next - 1 /\ r2.got = r.got
  /\ s2.sq = s.sq /\ s2.rq = Append(s.rq, Control("ack", NoReport))
  /\ s2.rcq = s.rcq /\ s2.buf = s.buf

(* Into r2 and s2, but for the phase and what is posted.                    *)
ReadsAck(r, s, r2, s2) ==
  \/ /\ ~r.got /\ s.rcq > 0 /\ r2.got /\ s2.rcq = s.rcq - 1
     /\ r2.max = ServerRec!LastOf(r.max, s.buf.max)
  \/ r2.got = r.got /\ r2.max = r.max /\ s2.rcq = s.rcq

ServerWorks(r, s, next, r2, s2) ==
  /\ Phase(r) = "on" /\ Phase(r2) = "on"
  /\ r2.msg = r.msg
  /\ s2.sq = s.sq /\ s2.buf = s.buf
  /\ \/ ReadsAck(r, s, r2, s2) /\ s2.rq = s.rq
     \/ /\ r2.got = r.got /\ r2.max = r.max
        /\ \/ s.rcq > 0 /\ s2.rcq = s.rcq - 1 /\ s2.rq = s.rq
           \/ /\ s2.rcq = s.rcq
              /\ \E item : item.kind = "data" /\ s2.rq = Append(s.rq, item)

ServerEnds(r, s, next, r2, s2) ==
  /\ Phase(r) = "on" /\ Phase(r2) = "over" /\ r2.at = "sync"
  /\ r2.msg = r.msg
  /\ ReadsAck(r, s, r2, s2) /\ r2.got /\ s2.rq = s.rq /\ s2.buf = s.buf
  /\ s2.sq = Append(s.sq, Control("done", NoReport))

ServerMove(r, s, next, r2, s2) ==
  \/ ServerAlone(r, s, next, r2, s2) \/ Detects(r, s, next, r2, s2)
  \/ Reports(r, s, next, r2, s2) \/ AwaitsAck(r, s, next, r2, s2)
  \/ ServerWorks(r, s, next, r2, s2) \/ ServerEnds(r, s, next, r2, s2)

(* Every step of the server is one of these moves, and keeps the phases to  *)
(* what they may be.                                                        *)
LEMMA ServerSteps ==
  ASSUME Plane(sv_rec, sv_rep), ServerNext \/ Timeout
  PROVE  /\ ServerMove(sv_rec, sv_rep, sv_table.next, sv_rec', sv_rep')
         /\ Plane(sv_rec', sv_rep')
<1> DEFINE r2 == sv_rec'
           s2 == sv_rep'
           next == sv_table.next
<1>0. /\ RecShape(sv_rec) /\ RepShape(sv_rep) /\ PhaseAt(sv_rec)
  BY DEF Plane
<1>1. CASE ServerPost
  <2>1. ServerAlone(sv_rec, sv_rep, next, r2, s2) /\ r2 = sv_rec /\ s2 = sv_rep
    BY <1>1 DEF ServerPost, ServerRec!PostMessage, ServerAlone, SameRep
  <2> QED
    BY <1>0, <2>1 DEF ServerMove, Plane
<1>2. CASE ServerPostPacket
  <2>1. ServerAlone(sv_rec, sv_rep, next, r2, s2) /\ r2 = sv_rec /\ s2 = sv_rep
    BY <1>2 DEF ServerPostPacket, svRec, ServerAlone, SameRep
  <2> QED
    BY <1>0, <2>1 DEF ServerMove, Plane
<1>3. CASE ServerCutShort
  <2>1. ServerAlone(sv_rec, sv_rep, next, r2, s2) /\ r2 = sv_rec /\ s2 = sv_rep
    BY <1>3 DEF ServerCutShort, ServerRec!CutShort, ServerRec!recVars, ServerAlone, SameRep
  <2> QED
    BY <1>0, <2>1 DEF ServerMove, Plane
<1>4. CASE ServerPoll
  <2>1. s2 = sv_rep /\ \E b \in BOOLEAN : r2 = [sv_rec EXCEPT !.listening = b]
    BY <1>0, <1>4 DEF ServerPoll, ServerRec!PlainPoll, PhaseAt
  <2>2. sv_rec.flag = FALSE
    BY <1>0, <1>4 DEF ServerPoll, ServerRec!PlainPoll, PhaseAt
  <2>3. ServerAlone(sv_rec, sv_rep, next, r2, s2)
    BY <1>0, <2>1, <2>2 DEF ServerAlone, SameRep, RecShape, Phase
  <2>4. Plane(r2, s2)
    BY <1>0, <2>1, <2>2 DEF Plane, RecShape, PhaseAt, Phase
  <2> QED
    BY <2>3, <2>4 DEF ServerMove
<1>5. CASE Timeout
  <2>1. /\ ~sv_rec.flag /\ ~sv_rec.over /\ sv_rec.listening
        /\ s2 = sv_rep /\ r2 = [sv_rec EXCEPT !.at = "clear", !.flag = TRUE]
    BY <1>5 DEF Timeout, ServerRec!Detect
  <2>2. Detects(sv_rec, sv_rep, next, r2, s2)
    BY <1>0, <2>1 DEF Detects, SameRep, SameRec, RecShape, Phase
  <2>3. Plane(r2, s2)
    BY <1>0, <2>1 DEF Plane, RecShape, PhaseAt, Phase
  <2> QED
    BY <2>2, <2>3 DEF ServerMove
<1>6. CASE ServerRecovers
  <2>1. CASE ServerRec!TakeReport
    BY <2>1 DEF ServerRec!TakeReport
  <2>2. CASE ServerRec!Clear
    <3>1. CASE sv_rec' = sv_rec /\ sv_rep' = sv_rep
      BY <1>0, <3>1 DEF ServerMove, ServerAlone, SameRep, Plane
    <3>3. CASE sv_rec' = [sv_rec EXCEPT !.at = "nokey"] /\ sv_rep' = sv_rep
      <4>0. sv_rec.at = "clear"
        BY <2>2 DEF ServerRec!Clear
      <4>1. ServerAlone(sv_rec, sv_rep, next, r2, s2)
        BY <1>0, <3>3, <4>0 DEF ServerAlone, SameRep, RecShape, PhaseAt, Phase
      <4>2. Plane(r2, s2)
        BY <1>0, <3>3, <4>0 DEF Plane, RecShape, PhaseAt, Phase
      <4> QED
        BY <4>1, <4>2 DEF ServerMove
    <3>2. CASE /\ ~ (sv_rec' = sv_rec /\ sv_rep' = sv_rep)
               /\ ~ (sv_rec' = [sv_rec EXCEPT !.at = "nokey"] /\ sv_rep' = sv_rep)
      <4>1. PICK msg : /\ sv_rec.at = "clear" /\ msg.max = next - 1
                       /\ sv_rec' = [sv_rec EXCEPT !.at = "told", !.msg = msg]
                       /\ sv_rep' = [sv_rep EXCEPT !.sq = Append(@, ServerRec!Item("report", 0, msg))]
        BY <2>2, <3>2, Zenon DEF ServerRec!Clear
      <4>2. Reports(sv_rec, sv_rep, next, r2, s2)
        BY <1>0, <4>1 DEF Reports, RecShape, PhaseAt, Phase, ServerRec!Item, Control
      <4>3. Plane(r2, s2)
        BY <1>0, <4>1 DEF Plane, RecShape, RepShape, PhaseAt, Phase
      <4> QED
        BY <4>2, <4>3 DEF ServerMove
    <3> QED
      BY <3>1, <3>2, <3>3
  <2>3. CASE ServerRec!Told
    <3>1. AwaitsAck(sv_rec, sv_rep, next, r2, s2)
      BY <1>0, <2>3 DEF ServerRec!Told, AwaitsAck, RecShape, RepShape, PhaseAt, Phase, ServerRec!Item, Control, NoReport, ServerRec!NoReport
    <3>2. Plane(r2, s2)
      BY <1>0, <2>3 DEF ServerRec!Told, Plane, RecShape, RepShape, PhaseAt, Phase
    <3> QED
      BY <3>1, <3>2 DEF ServerMove
  <2>4. CASE ServerRec!InPass /\ (ServerRec!AllResent \/ ServerRec!StartResend \/ ServerRec!Finish)
    <3>1. sv_rec.flag /\ sv_rec.at \in {"pass", "out"} /\ Phase(sv_rec) = "on"
      BY <1>0, <2>4 DEF ServerRec!InPass, ServerRec!Polls, PhaseAt, Phase
    <3>2. PICK r, s : r = ServerRec!Acked /\ s = ServerRec!Read
      OBVIOUS
    <3>3. /\ RecShape(r) /\ RepShape(s) /\ PhaseAt(r) /\ Phase(r) = "on"
          /\ ReadsAck(sv_rec, sv_rep, r, s)
          /\ r.msg = sv_rec.msg /\ s.sq = sv_rep.sq /\ s.rq = sv_rep.rq /\ s.buf = sv_rep.buf
      BY <1>0, <3>1, <3>2 DEF ServerRec!Acked, ServerRec!Read, ServerRec!AckHere, RecShape, RepShape, PhaseAt, Phase, ReadsAck
    <3>4. CASE ServerRec!AllResent
      <4>1. r2 = [r EXCEPT !.at = "polls"] /\ s2 = s
        BY <3>2, <3>4 DEF ServerRec!AllResent
      <4>2. ServerWorks(sv_rec, sv_rep, next, r2, s2)
        BY <3>1, <3>3, <4>1 DEF ServerWorks, ReadsAck, RecShape, Phase
      <4>3. Plane(r2, s2)
        BY <3>3, <4>1 DEF Plane, RecShape, PhaseAt, Phase
      <4> QED
        BY <4>2, <4>3 DEF ServerMove
    <3>5. CASE ServerRec!StartResend
      <4>1. s2 = s
        BY <3>2, <3>5 DEF ServerRec!StartResend
      <4>2. \/ sv_rec' = [r EXCEPT !.at = "crash"]
            \/ \E iter, turn, at, post :
                 /\ sv_rec' = [r EXCEPT !.i = 0, !.iter = iter, !.turn = turn, !.at = at, !.post = post]
                 /\ at \in {"polls", "resend"}
        <5>1. CASE sv_slot[r.post].len = 0
          BY <3>2, <3>5, <5>1 DEF ServerRec!StartResend
        <5>2. CASE sv_slot[r.post].len # 0
          <6> DEFINE n == ServerRec!Iter(ServerRec!Portion(r.post), sv_active - 1)
          <6>1. sv_rec' = [r EXCEPT !.i = 0, !.iter = n, !.turn = @ % (sv_active - 1),
                                    !.at = IF n = 0 THEN "polls" ELSE "resend",
                                    !.post = IF n = 0 THEN @ + 1 ELSE @]
            BY <3>2, <3>5, <5>2 DEF ServerRec!StartResend
          <6>2. PICK iter, turn, at, post :
                  /\ iter = n /\ turn = r.turn % (sv_active - 1)
                  /\ at = (IF n = 0 THEN "polls" ELSE "resend")
                  /\ post = (IF n = 0 THEN r.post + 1 ELSE r.post)
            OBVIOUS
          <6>3. sv_rec' = [r EXCEPT !.i = 0, !.iter = iter, !.turn = turn, !.at = at, !.post = post]
            BY <3>3, <6>1, <6>2 DEF RecShape
          <6>4. at \in {"polls", "resend"}
            BY <6>2
          <6> QED
            BY <6>3, <6>4
        <5> QED
          BY <5>1, <5>2, Zenon
      <4>3. /\ RecShape(r2) /\ r2.at \in {"crash", "polls", "resend"}
            /\ r2.flag = r.flag /\ r2.over = r.over /\ r2.listening = r.listening
            /\ r2.got = r.got /\ r2.msg = r.msg /\ r2.max = r.max
        <5>1. CASE sv_rec' = [r EXCEPT !.at = "crash"]
          BY <3>3, <5>1 DEF RecShape
        <5>2. CASE sv_rec' # [r EXCEPT !.at = "crash"]
          <6>1. PICK iter, turn, at, post :
                  /\ sv_rec' = [r EXCEPT !.i = 0, !.iter = iter, !.turn = turn, !.at = at,
                                         !.post = post]
                  /\ at \in {"polls", "resend"}
            BY <4>2, <5>2, Zenon
          <6> QED
            BY <3>3, <6>1 DEF RecShape
        <5> QED
          BY <4>2, <5>1, <5>2
      <4>4. ServerWorks(sv_rec, sv_rep, next, r2, s2)
        BY <3>1, <3>3, <4>1, <4>3 DEF ServerWorks, ReadsAck, Phase
      <4>5. Plane(r2, s2)
        BY <3>3, <4>1, <4>3 DEF Plane, PhaseAt, Phase
      <4> QED
        BY <4>4, <4>5 DEF ServerMove
    <3>6. CASE ServerRec!Finish
      <4>1. /\ r2 = [r EXCEPT !.at = "sync", !.flag = FALSE, !.listening = FALSE, !.over = TRUE]
            /\ s2 = [s EXCEPT !.sq = Append(@, ServerRec!Item("done", 0, ServerRec!NoReport))]
            /\ r.got
        BY <3>2, <3>6 DEF ServerRec!Finish, ServerRec!Finished
      <4>2. ServerEnds(sv_rec, sv_rep, next, r2, s2)
        BY <3>1, <3>3, <4>1 DEF ServerEnds, ReadsAck, RecShape, RepShape, Phase, ServerRec!Item, Control, NoReport, ServerRec!NoReport
      <4>3. Plane(r2, s2)
        BY <3>3, <4>1 DEF Plane, RecShape, RepShape, PhaseAt, Phase
      <4> QED
        BY <4>2, <4>3 DEF ServerMove
    <3> QED
      BY <2>4, <3>4, <3>5, <3>6
  <2>5. CASE ServerRec!ResendPacket
    <3>1. PICK item : item.kind = "data" /\ sv_rep' = [sv_rep EXCEPT !.rq = Append(@, item)]
      BY <2>5 DEF ServerRec!ResendPacket, ServerRec!Item
    <3>2. PICK r : r = [sv_rec EXCEPT !.at = "rdrain", !.out = @ + 1]
      OBVIOUS
    <3>3. sv_rec.at = "resend" /\ r2 = ServerRec!NextResend(r)
      BY <2>5, <3>2 DEF ServerRec!ResendPacket
    <3>4. \/ r2 = r
          \/ \E at, post, i, turn : /\ r2 = [r EXCEPT !.at = at, !.post = post, !.i = i, !.turn = turn]
                                    /\ at \in {"polls", "resend"}
      BY <3>3 DEF ServerRec!NextResend
    <3>5. ServerWorks(sv_rec, sv_rep, next, r2, s2)
      BY <1>0, <3>1, <3>2, <3>3, <3>4 DEF ServerWorks, RecShape, RepShape, PhaseAt, Phase
    <3>6. Plane(r2, s2)
      BY <1>0, <3>1, <3>2, <3>3, <3>4, Zenon DEF Plane, RecShape, RepShape, PhaseAt, Phase
    <3> QED
      BY <3>5, <3>6 DEF ServerMove
  <2>6. CASE ServerRec!ResendDrain
    <3>1. PICK c, rr : /\ c = ServerRec!Counted(sv_rec) /\ rr = ServerRec!NextResend(c)
      OBVIOUS
    <3>2. sv_rec.at = "rdrain" /\ r2 = rr /\ ServerRec!RecoveryPoll(rr)
      BY <2>6, <3>1 DEF ServerRec!ResendDrain, ServerRec!RecoveryPoll
    <3>3. /\ \/ s2 = sv_rep
             \/ sv_rep.rcq > 0 /\ s2 = [sv_rep EXCEPT !.rcq = @ - 1]
      BY <3>2 DEF ServerRec!RecoveryPoll, ServerRec!RecoveryTakes, ServerRec!Completed
    <3>4. \/ c = sv_rec
          \/ \E out : c = [sv_rec EXCEPT !.at = "spin", !.out = out]
          \/ \E out, pkt, poll : c = [sv_rec EXCEPT !.out = out, !.pkt = pkt, !.poll = poll]
      BY <3>1, Zenon DEF ServerRec!Counted, ServerRec!CountPacket
    <3>5. \/ r2 = c
          \/ \E at, post, i, turn : /\ r2 = [c EXCEPT !.at = at, !.post = post, !.i = i, !.turn = turn]
                                    /\ at \in {"polls", "resend"}
      BY <3>1, <3>2 DEF ServerRec!NextResend
    <3>6. /\ RecShape(c) /\ PhaseAt(c) /\ Phase(c) = "on" /\ Phase(sv_rec) = "on"
          /\ c.msg = sv_rec.msg /\ c.got = sv_rec.got /\ c.max = sv_rec.max
      BY <1>0, <3>2, <3>4, Zenon DEF RecShape, PhaseAt, Phase
    <3>7. /\ RecShape(r2) /\ PhaseAt(r2) /\ Phase(r2) = "on"
          /\ r2.msg = sv_rec.msg /\ r2.got = sv_rec.got /\ r2.max = sv_rec.max
      BY <3>5, <3>6, Zenon DEF RecShape, PhaseAt, Phase
    <3>8. ServerWorks(sv_rec, sv_rep, next, r2, s2)
      BY <1>0, <3>3, <3>6, <3>7 DEF ServerWorks, ReadsAck, RepShape
    <3>9. Plane(r2, s2)
      BY <1>0, <3>3, <3>7 DEF Plane, RepShape
    <3> QED
      BY <3>8, <3>9 DEF ServerMove
  <2>7. CASE ServerRec!Sync
    <3>1. ServerAlone(sv_rec, sv_rep, next, r2, s2)
      BY <1>0, <2>7 DEF ServerRec!Sync, ServerAlone, SameRep, RecShape, RepShape, PhaseAt, Phase
    <3>2. Plane(r2, s2)
      BY <1>0, <2>7 DEF ServerRec!Sync, Plane, RecShape, RepShape, PhaseAt, Phase
    <3> QED
      BY <3>1, <3>2 DEF ServerMove
  <2>8. CASE ServerRec!PassReports
    <3>1. r2 = [sv_rec EXCEPT !.at = "out"] /\ s2 = sv_rep /\ sv_rec.at = "polls"
      BY <2>8 DEF ServerRec!PassReports
    <3>2. ServerAlone(sv_rec, sv_rep, next, r2, s2)
      BY <1>0, <3>1 DEF ServerAlone, SameRep, RecShape, PhaseAt, Phase
    <3>3. Plane(r2, s2)
      BY <1>0, <3>1 DEF Plane, RecShape, PhaseAt, Phase
    <3> QED
      BY <3>2, <3>3 DEF ServerMove
  <2>9. CASE ServerRec!PassPolls
    <3>1. CASE sv_rec.flag
      <4>1. PICK r : r = [sv_rec EXCEPT !.at = "pass"]
        OBVIOUS
      <4>2. PICK c : c = ServerRec!Counted(r)
        OBVIOUS
      <4>3. sv_rec.at = "polls" /\ ServerRec!RecoveryPoll(c)
        BY <2>9, <3>1, <4>1, <4>2 DEF ServerRec!PassPolls
      <4>4. /\ r2 = c
            /\ \/ s2 = sv_rep
               \/ sv_rep.rcq > 0 /\ s2 = [sv_rep EXCEPT !.rcq = @ - 1]
        BY <4>3 DEF ServerRec!RecoveryPoll, ServerRec!RecoveryTakes, ServerRec!Completed
      <4>5. \/ c = r
            \/ \E out : c = [r EXCEPT !.at = "spin", !.out = out]
            \/ \E out, pkt, poll : c = [r EXCEPT !.out = out, !.pkt = pkt, !.poll = poll]
        BY <4>2, Zenon DEF ServerRec!Counted, ServerRec!CountPacket
      <4>6. /\ RecShape(c) /\ PhaseAt(c) /\ Phase(c) = "on" /\ Phase(sv_rec) = "on"
            /\ c.msg = sv_rec.msg /\ c.got = sv_rec.got /\ c.max = sv_rec.max
        <5>1. /\ RecShape(r) /\ r.at = "pass"
              /\ r.flag = sv_rec.flag /\ r.over = sv_rec.over /\ r.listening = sv_rec.listening
              /\ r.got = sv_rec.got /\ r.msg = sv_rec.msg /\ r.max = sv_rec.max
          BY <1>0, <4>1 DEF RecShape
        <5>2. /\ RecShape(c) /\ c.at \in {"pass", "spin"}
              /\ c.flag = r.flag /\ c.over = r.over /\ c.listening = r.listening
              /\ c.got = r.got /\ c.msg = r.msg /\ c.max = r.max
          BY <4>5, <5>1 DEF RecShape
        <5> QED
          BY <1>0, <3>1, <4>3, <5>1, <5>2 DEF PhaseAt, Phase
      <4>7. ServerWorks(sv_rec, sv_rep, next, r2, s2)
        BY <1>0, <4>4, <4>6 DEF ServerWorks, ReadsAck, RepShape
      <4>8. Plane(r2, s2)
        BY <1>0, <4>4, <4>6 DEF Plane, RepShape
      <4> QED
        BY <4>7, <4>8 DEF ServerMove
    <3>2. CASE ~ sv_rec.flag
      <4>1. r2 = [sv_rec EXCEPT !.at = "out"] /\ s2 = sv_rep /\ sv_rec.at = "polls"
        BY <2>9, <3>2 DEF ServerRec!PassPolls
      <4>2. ServerAlone(sv_rec, sv_rep, next, r2, s2)
        BY <1>0, <3>2, <4>1 DEF ServerAlone, SameRep, RecShape, PhaseAt, Phase
      <4>3. Plane(r2, s2)
        BY <1>0, <3>2, <4>1 DEF Plane, RecShape, PhaseAt, Phase
      <4> QED
        BY <4>2, <4>3 DEF ServerMove
    <3> QED
      BY <3>1, <3>2
  <2>10. (ServerRec!AllResent \/ ServerRec!StartResend \/ ServerRec!Finish) => ServerRec!InPass
    BY DEF ServerRec!AllResent, ServerRec!StartResend, ServerRec!Finish
  <2> QED
    BY <1>6, <2>1, <2>2, <2>3, <2>4, <2>5, <2>6, <2>7, <2>8, <2>9, <2>10
       DEF ServerRecovers, ServerRec!RecoveryStep
<1> QED
  BY <1>1, <1>2, <1>3, <1>4, <1>5, <1>6 DEF ServerNext

-----------------------------------------------------------------------------
(* The client's steps, in the same way.                                     *)
ClientAlone(r, s, next, r2, s2) ==
  /\ Phase(r2) = Phase(r) /\ (r2.at = "sync" <=> r.at = "sync")
  /\ SameRec(r, r2) /\ SameRep(s, s2)

(* The first poll, of a transfer or after its recovery. *)
Listens(r, s, next, r2, s2) ==
  /\ Phase(r) \in {"none", "over"} /\ Phase(r2) = Phase(r) /\ r.at = "out" /\ r2.at = "out"
  /\ ~ r.listening /\ r2.listening
  /\ r2.msg = r.msg /\ r2.max = r.max /\ r2.got = r.got
  /\ s2 = [s EXCEPT !.rq = Append(@, Control("report", NoReport))]

IsTold(r, s, next, r2, s2) ==
  /\ Phase(r) = "none" /\ Phase(r2) = "clear" /\ r.listening /\ s.rcq > 0
  /\ r2.msg = s.buf /\ r2.max = r.max /\ r2.got = r.got /\ r2.listening
  /\ s2 = [s EXCEPT !.rcq = @ - 1]

Answers(r, s, next, r2, s2) ==
  /\ Phase(r) = "clear" /\ Phase(r2) = "told"
  /\ SameRec(r, r2)
  /\ \E body : body.max = next - 1 /\ s2 = [s EXCEPT !.sq = Append(@, Control("ack", body))]

SetsOut(r, s, next, r2, s2) ==
  /\ Phase(r) = "told" /\ Phase(r2) = "on"
  /\ r2.msg = r.msg /\ r2.max = ClientRec!LastOf(next - 1, r.msg.max)
  /\ r2.got = r.got /\ r2.listening = r.listening
  /\ SameRep(s, s2)

ClientWorks(r, s, next, r2, s2) ==
  /\ Phase(r) = "on" /\ Phase(r2) = "on"
  /\ SameRec(r, r2)
  /\ s2.rq = s.rq /\ s2.rcq = s.rcq /\ s2.buf = s.buf
  /\ \/ s2.sq = s.sq
     \/ \E item : item.kind = "data" /\ s2.sq = Append(s.sq, item)

ClientEnds(r, s, next, r2, s2) ==
  /\ Phase(r) = "on" /\ Phase(r2) = "over" /\ r2.at = "sync"
  /\ r2.msg = r.msg /\ r2.max = r.max /\ r2.got = r.got /\ ~ r2.listening
  /\ s2 = [s EXCEPT !.rq = Append(@, Control("done", NoReport))]

IsReleased(r, s, next, r2, s2) ==
  /\ Phase(r) = "over" /\ Phase(r2) = "over" /\ r.at = "sync" /\ r2.at = "polls"
  /\ s.rcq > 0 /\ s2 = [s EXCEPT !.rcq = @ - 1]
  /\ SameRec(r, r2)

ClientMove(r, s, next, r2, s2) ==
  \/ ClientAlone(r, s, next, r2, s2) \/ Listens(r, s, next, r2, s2)
  \/ IsTold(r, s, next, r2, s2) \/ Answers(r, s, next, r2, s2)
  \/ SetsOut(r, s, next, r2, s2) \/ ClientWorks(r, s, next, r2, s2)
  \/ ClientEnds(r, s, next, r2, s2) \/ IsReleased(r, s, next, r2, s2)

(* Every step of the client is one of these moves; that a client past its   *)
(* recovery finds no second report is what the flow of messages says.       *)
LEMMA ClientSteps ==
  ASSUME Plane(cl_rec, cl_rep), ClientNext,
         Phase(cl_rec) = "over" /\ cl_rec.at = "out" => cl_rep.rcq = 0
  PROVE  /\ ClientMove(cl_rec, cl_rep, cl_table.next, cl_rec', cl_rep')
         /\ Plane(cl_rec', cl_rep')
<1> DEFINE r2 == cl_rec'
           s2 == cl_rep'
           next == cl_table.next
<1>0. /\ RecShape(cl_rec) /\ RepShape(cl_rep) /\ PhaseAt(cl_rec)
  BY DEF Plane
<1>1. CASE ClientPost
  <2>1. ClientAlone(cl_rec, cl_rep, next, r2, s2) /\ r2 = cl_rec /\ s2 = cl_rep
    BY <1>1 DEF ClientPost, ClientRec!PostMessage, ClientAlone, SameRec, SameRep
  <2> QED
    BY <1>0, <2>1 DEF ClientMove, Plane
<1>2. CASE ClientPostPacket
  <2>1. ClientAlone(cl_rec, cl_rep, next, r2, s2) /\ r2 = cl_rec /\ s2 = cl_rep
    BY <1>2 DEF ClientPostPacket, clRec, ClientAlone, SameRec, SameRep
  <2> QED
    BY <1>0, <2>1 DEF ClientMove, Plane
<1>3. CASE ClientCutShort
  <2>1. ClientAlone(cl_rec, cl_rep, next, r2, s2) /\ r2 = cl_rec /\ s2 = cl_rep
    BY <1>3 DEF ClientCutShort, ClientRec!CutShort, ClientRec!recVars, ClientAlone, SameRec, SameRep
  <2> QED
    BY <1>0, <2>1 DEF ClientMove, Plane
<1>4. CASE ClientPoll
  <2>1. cl_rec.flag = FALSE /\ cl_rec.at = "out"
    BY <1>0, <1>4 DEF ClientPoll, ClientRec!PlainPoll, ClientRec!Polls, PhaseAt
  <2>2. CASE cl_rec.listening
    <3>1. s2 = cl_rep /\ r2 = [cl_rec EXCEPT !.listening = TRUE]
      BY <1>0, <1>4, <2>2 DEF ClientPoll, ClientRec!PlainPoll, PhaseAt
    <3>2. ClientAlone(cl_rec, cl_rep, next, r2, s2)
      BY <1>0, <2>1, <2>2, <3>1 DEF ClientAlone, SameRec, SameRep, RecShape, Phase
    <3>3. Plane(r2, s2)
      BY <1>0, <2>1, <3>1 DEF Plane, RecShape, PhaseAt, Phase
    <3> QED
      BY <3>2, <3>3 DEF ClientMove
  <2>3. CASE ~ cl_rec.listening
    <3>1. /\ s2 = [cl_rep EXCEPT !.rq = Append(@, ClientRec!Item("report", 0, ClientRec!NoReport))]
          /\ r2 = [cl_rec EXCEPT !.listening = TRUE]
      BY <1>0, <1>4, <2>3 DEF ClientPoll, ClientRec!PlainPoll, PhaseAt
    <3>2. Listens(cl_rec, cl_rep, next, r2, s2)
      BY <1>0, <2>1, <2>3, <3>1 DEF Listens, RecShape, Phase, PhaseAt, ClientRec!Item, Control, NoReport, ClientRec!NoReport
    <3>3. Plane(r2, s2)
      BY <1>0, <2>1, <3>1 DEF Plane, RecShape, RepShape, PhaseAt, Phase
    <3> QED
      BY <3>2, <3>3 DEF ClientMove
  <2> QED
    BY <2>2, <2>3
<1>6. CASE ClientRecovers
  <2>1. CASE ClientRec!TakeReport
    <3>1. /\ ~ cl_rec.flag /\ cl_rec.listening /\ cl_rec.at = "out" /\ cl_rep.rcq > 0
          /\ s2 = [cl_rep EXCEPT !.rcq = @ - 1]
          /\ r2 = [cl_rec EXCEPT !.at = "clear", !.flag = TRUE, !.msg = cl_rep.buf]
      BY <2>1 DEF ClientRec!TakeReport, ClientRec!Polls
    <3>2. Phase(cl_rec) = "none"
      BY <1>0, <3>1 DEF Phase, PhaseAt
    <3>3. IsTold(cl_rec, cl_rep, next, r2, s2)
      BY <1>0, <3>1, <3>2 DEF IsTold, RecShape, RepShape, PhaseAt, Phase
    <3>4. Plane(r2, s2)
      BY <1>0, <3>1, <3>2 DEF Plane, RecShape, RepShape, PhaseAt, Phase
    <3> QED
      BY <3>3, <3>4 DEF ClientMove
  <2>2. CASE ClientRec!Clear
    <3>1. CASE cl_rec' = cl_rec /\ cl_rep' = cl_rep
      BY <1>0, <3>1 DEF ClientMove, ClientAlone, SameRec, SameRep, Plane
    <3>2. CASE ~ (cl_rec' = cl_rec /\ cl_rep' = cl_rep)
      <4>1. PICK msg : /\ cl_rec.at = "clear" /\ msg.max = next - 1
                       /\ cl_rec' = [cl_rec EXCEPT !.at = "told", !.msg = cl_rec.msg]
                       /\ cl_rep' = [cl_rep EXCEPT !.sq = Append(@, ClientRec!Item("ack", 0, msg))]
        BY <2>2, <3>2 DEF ClientRec!Clear
      <4>2. Phase(cl_rec) = "clear"
        BY <1>0, <4>1 DEF Phase, PhaseAt
      <4>3. Answers(cl_rec, cl_rep, next, r2, s2)
        BY <1>0, <4>1, <4>2 DEF Answers, SameRec, RecShape, PhaseAt, Phase, ClientRec!Item, Control
      <4>4. Plane(r2, s2)
        BY <1>0, <4>1 DEF Plane, RecShape, RepShape, PhaseAt, Phase
      <4> QED
        BY <4>3, <4>4 DEF ClientMove
    <3> QED
      BY <3>1, <3>2
  <2>3. CASE ClientRec!Told
    <3>1. SetsOut(cl_rec, cl_rep, next, r2, s2)
      BY <1>0, <2>3 DEF ClientRec!Told, SetsOut, SameRep, SameRec, RecShape, RepShape, PhaseAt, Phase, ClientRec!Item, Control, NoReport, ClientRec!NoReport
    <3>2. Plane(r2, s2)
      BY <1>0, <2>3 DEF ClientRec!Told, Plane, RecShape, RepShape, PhaseAt, Phase
    <3> QED
      BY <3>1, <3>2 DEF ClientMove
  <2>4. CASE ClientRec!InPass /\ (ClientRec!AllResent \/ ClientRec!StartResend \/ ClientRec!Finish)
    <3>1. cl_rec.flag /\ cl_rec.at \in {"pass", "out"} /\ Phase(cl_rec) = "on"
      BY <1>0, <2>4 DEF ClientRec!InPass, ClientRec!Polls, PhaseAt, Phase
    <3>2. PICK r, s : r = ClientRec!Acked /\ s = ClientRec!Read
      OBVIOUS
    <3>3. /\ RecShape(r) /\ RepShape(s) /\ PhaseAt(r) /\ Phase(r) = "on"
          /\ r = cl_rec /\ s = cl_rep
      BY <1>0, <3>1, <3>2 DEF ClientRec!Acked, ClientRec!Read, ClientRec!AckHere, RecShape, RepShape, PhaseAt, Phase
    <3>4. CASE ClientRec!AllResent
      <4>1. r2 = [r EXCEPT !.at = "polls"] /\ s2 = s
        BY <3>2, <3>4 DEF ClientRec!AllResent
      <4>2. ClientWorks(cl_rec, cl_rep, next, r2, s2)
        BY <3>1, <3>3, <4>1 DEF ClientWorks, SameRec, RecShape, Phase
      <4>3. Plane(r2, s2)
        BY <3>3, <4>1 DEF Plane, RecShape, PhaseAt, Phase
      <4> QED
        BY <4>2, <4>3 DEF ClientMove
    <3>5. CASE ClientRec!StartResend
      <4>1. s2 = s
        BY <3>2, <3>5 DEF ClientRec!StartResend
      <4>2. \/ cl_rec' = [r EXCEPT !.at = "crash"]
            \/ \E iter, turn, at, post :
                 /\ cl_rec' = [r EXCEPT !.i = 0, !.iter = iter, !.turn = turn, !.at = at, !.post = post]
                 /\ at \in {"polls", "resend"}
        <5>1. CASE cl_slot[r.post].len = 0
          BY <3>2, <3>5, <5>1 DEF ClientRec!StartResend
        <5>2. CASE cl_slot[r.post].len # 0
          <6> DEFINE n == ClientRec!Iter(ClientRec!Portion(r.post), cl_active - 1)
          <6>1. cl_rec' = [r EXCEPT !.i = 0, !.iter = n, !.turn = @ % (cl_active - 1),
                                    !.at = IF n = 0 THEN "polls" ELSE "resend",
                                    !.post = IF n = 0 THEN @ + 1 ELSE @]
            BY <3>2, <3>5, <5>2 DEF ClientRec!StartResend
          <6>2. PICK iter, turn, at, post :
                  /\ iter = n /\ turn = r.turn % (cl_active - 1)
                  /\ at = (IF n = 0 THEN "polls" ELSE "resend")
                  /\ post = (IF n = 0 THEN r.post + 1 ELSE r.post)
            OBVIOUS
          <6>3. cl_rec' = [r EXCEPT !.i = 0, !.iter = iter, !.turn = turn, !.at = at, !.post = post]
            BY <3>3, <6>1, <6>2 DEF RecShape
          <6>4. at \in {"polls", "resend"}
            BY <6>2
          <6> QED
            BY <6>3, <6>4
        <5> QED
          BY <5>1, <5>2, Zenon
      <4>5. /\ RecShape(r2) /\ r2.at \in {"crash", "polls", "resend"}
            /\ r2.flag = r.flag /\ r2.over = r.over /\ SameRec(r, r2)
        BY <3>3, <4>2 DEF RecShape, SameRec
      <4>3. ClientWorks(cl_rec, cl_rep, next, r2, s2)
        BY <3>1, <3>3, <4>1, <4>5 DEF ClientWorks, Phase
      <4>4. Plane(r2, s2)
        BY <3>3, <4>1, <4>5 DEF Plane, PhaseAt, Phase, SameRec
      <4> QED
        BY <4>3, <4>4 DEF ClientMove
    <3>6. CASE ClientRec!Finish
      <4>1. /\ r2 = [r EXCEPT !.at = "sync", !.flag = FALSE, !.listening = FALSE, !.over = TRUE]
            /\ s2 = [s EXCEPT !.rq = Append(@, ClientRec!Item("done", 0, ClientRec!NoReport))]
        BY <3>2, <3>6 DEF ClientRec!Finish
      <4>2. ClientEnds(cl_rec, cl_rep, next, r2, s2)
        BY <3>1, <3>3, <4>1 DEF ClientEnds, SameRec, RecShape, RepShape, Phase, ClientRec!Item, Control, NoReport, ClientRec!NoReport
      <4>3. Plane(r2, s2)
        BY <3>3, <4>1 DEF Plane, RecShape, RepShape, PhaseAt, Phase
      <4> QED
        BY <4>2, <4>3 DEF ClientMove
    <3> QED
      BY <2>4, <3>4, <3>5, <3>6
  <2>5. CASE ClientRec!ResendPacket
    <3>1. PICK item : item.kind = "data" /\ cl_rep' = [cl_rep EXCEPT !.sq = Append(@, item)]
      BY <2>5 DEF ClientRec!ResendPacket, ClientRec!Item
    <3>2. PICK r : r = [cl_rec EXCEPT !.at = "rdrain", !.out = @ + 1]
      OBVIOUS
    <3>3. cl_rec.at = "resend" /\ r2 = ClientRec!NextResend(r)
      BY <2>5, <3>2 DEF ClientRec!ResendPacket
    <3>4. \/ r2 = r
          \/ \E at, post, i, turn : /\ r2 = [r EXCEPT !.at = at, !.post = post, !.i = i, !.turn = turn]
                                    /\ at \in {"polls", "resend"}
      BY <3>3 DEF ClientRec!NextResend
    <3>7. /\ RecShape(r) /\ r.at = "rdrain"
          /\ r.flag = cl_rec.flag /\ r.over = cl_rec.over /\ SameRec(cl_rec, r)
      BY <1>0, <3>2 DEF RecShape, SameRec
    <3>8. /\ RecShape(r2) /\ r2.at \in {"rdrain", "polls", "resend"}
          /\ r2.flag = r.flag /\ r2.over = r.over /\ SameRec(r, r2)
      BY <3>4, <3>7 DEF RecShape, SameRec
    <3>5. ClientWorks(cl_rec, cl_rep, next, r2, s2)
      BY <1>0, <3>1, <3>3, <3>7, <3>8 DEF ClientWorks, SameRec, RepShape, PhaseAt, Phase
    <3>6. Plane(r2, s2)
      BY <1>0, <3>1, <3>3, <3>7, <3>8 DEF Plane, SameRec, RepShape, PhaseAt, Phase
    <3> QED
      BY <3>5, <3>6 DEF ClientMove
  <2>6. CASE ClientRec!ResendDrain
    <3>1. PICK c, rr : /\ c = ClientRec!Counted(cl_rec) /\ rr = ClientRec!NextResend(c)
      OBVIOUS
    <3>2. cl_rec.at = "rdrain" /\ r2 = rr /\ ClientRec!RecoveryPoll(rr)
      BY <2>6, <3>1 DEF ClientRec!ResendDrain, ClientRec!RecoveryPoll
    <3>3. /\ \/ s2 = cl_rep
             \/ cl_rep.scq > 0 /\ s2 = [cl_rep EXCEPT !.scq = @ - 1]
      BY <3>2 DEF ClientRec!RecoveryPoll, ClientRec!RecoveryTakes, ClientRec!Completed
    <3>4. \/ c = cl_rec
          \/ \E out : c = [cl_rec EXCEPT !.at = "spin", !.out = out]
          \/ \E out, pkt, poll : c = [cl_rec EXCEPT !.out = out, !.pkt = pkt, !.poll = poll]
      BY <3>1, Zenon DEF ClientRec!Counted, ClientRec!CountPacket
    <3>5. \/ r2 = c
          \/ \E at, post, i, turn : /\ r2 = [c EXCEPT !.at = at, !.post = post, !.i = i, !.turn = turn]
                                    /\ at \in {"polls", "resend"}
      BY <3>1, <3>2 DEF ClientRec!NextResend
    <3>6. /\ RecShape(c) /\ PhaseAt(c) /\ Phase(c) = "on" /\ Phase(cl_rec) = "on"
          /\ c.msg = cl_rec.msg /\ c.got = cl_rec.got /\ c.max = cl_rec.max /\ c.listening = cl_rec.listening
      BY <1>0, <3>2, <3>4, Zenon DEF RecShape, PhaseAt, Phase
    <3>7. /\ RecShape(r2) /\ PhaseAt(r2) /\ Phase(r2) = "on"
          /\ r2.msg = cl_rec.msg /\ r2.got = cl_rec.got /\ r2.max = cl_rec.max /\ r2.listening = cl_rec.listening
      BY <3>5, <3>6, Zenon DEF RecShape, PhaseAt, Phase
    <3>8. ClientWorks(cl_rec, cl_rep, next, r2, s2)
      BY <1>0, <3>3, <3>6, <3>7 DEF ClientWorks, SameRec, RepShape
    <3>9. Plane(r2, s2)
      BY <1>0, <3>3, <3>7 DEF Plane, RepShape
    <3> QED
      BY <3>8, <3>9 DEF ClientMove
  <2>7. CASE ClientRec!Sync
    <3>1. IsReleased(cl_rec, cl_rep, next, r2, s2)
      BY <1>0, <2>7 DEF ClientRec!Sync, IsReleased, SameRec, RecShape, RepShape, PhaseAt, Phase
    <3>2. Plane(r2, s2)
      BY <1>0, <2>7 DEF ClientRec!Sync, Plane, RecShape, RepShape, PhaseAt, Phase
    <3> QED
      BY <3>1, <3>2 DEF ClientMove
  <2>8. CASE ClientRec!PassReports
    <3>1. r2 = [cl_rec EXCEPT !.at = "out"] /\ s2 = cl_rep /\ cl_rec.at = "polls"
      BY <2>8 DEF ClientRec!PassReports
    <3>2. ClientAlone(cl_rec, cl_rep, next, r2, s2)
      BY <1>0, <3>1 DEF ClientAlone, SameRec, SameRep, RecShape, PhaseAt, Phase
    <3>3. Plane(r2, s2)
      BY <1>0, <3>1 DEF Plane, RecShape, PhaseAt, Phase
    <3> QED
      BY <3>2, <3>3 DEF ClientMove
  <2>9. CASE ClientRec!PassPolls
    <3>1. CASE cl_rec.flag
      <4>1. PICK r : r = [cl_rec EXCEPT !.at = "pass"]
        OBVIOUS
      <4>2. PICK c : c = ClientRec!Counted(r)
        OBVIOUS
      <4>3. cl_rec.at = "polls" /\ ClientRec!RecoveryPoll(c)
        BY <2>9, <3>1, <4>1, <4>2 DEF ClientRec!PassPolls
      <4>4. /\ r2 = c
            /\ \/ s2 = cl_rep
               \/ cl_rep.scq > 0 /\ s2 = [cl_rep EXCEPT !.scq = @ - 1]
        BY <4>3 DEF ClientRec!RecoveryPoll, ClientRec!RecoveryTakes, ClientRec!Completed
      <4>5. \/ c = r
            \/ \E out : c = [r EXCEPT !.at = "spin", !.out = out]
            \/ \E out, pkt, poll : c = [r EXCEPT !.out = out, !.pkt = pkt, !.poll = poll]
        BY <4>2, Zenon DEF ClientRec!Counted, ClientRec!CountPacket
      <4>6. /\ RecShape(c) /\ PhaseAt(c) /\ Phase(c) = "on" /\ Phase(cl_rec) = "on"
            /\ c.msg = cl_rec.msg /\ c.got = cl_rec.got /\ c.max = cl_rec.max /\ c.listening = cl_rec.listening
        <5>1. /\ RecShape(r) /\ r.at = "pass"
              /\ r.flag = cl_rec.flag /\ r.over = cl_rec.over /\ r.listening = cl_rec.listening
              /\ r.got = cl_rec.got /\ r.msg = cl_rec.msg /\ r.max = cl_rec.max
          BY <1>0, <4>1 DEF RecShape
        <5>2. /\ RecShape(c) /\ c.at \in {"pass", "spin"}
              /\ c.flag = r.flag /\ c.over = r.over /\ c.listening = r.listening
              /\ c.got = r.got /\ c.msg = r.msg /\ c.max = r.max
          BY <4>5, <5>1, Zenon DEF RecShape
        <5> QED
          BY <1>0, <3>1, <4>3, <5>1, <5>2 DEF PhaseAt, Phase
      <4>7. ClientWorks(cl_rec, cl_rep, next, r2, s2)
        BY <1>0, <4>4, <4>6 DEF ClientWorks, SameRec, RepShape
      <4>8. Plane(r2, s2)
        BY <1>0, <4>4, <4>6 DEF Plane, RepShape
      <4> QED
        BY <4>7, <4>8 DEF ClientMove
    <3>2. CASE ~ cl_rec.flag
      <4>1. r2 = [cl_rec EXCEPT !.at = "out"] /\ s2 = cl_rep /\ cl_rec.at = "polls"
        BY <2>9, <3>2 DEF ClientRec!PassPolls
      <4>2. ClientAlone(cl_rec, cl_rep, next, r2, s2)
        BY <1>0, <3>2, <4>1 DEF ClientAlone, SameRec, SameRep, RecShape, PhaseAt, Phase
      <4>3. Plane(r2, s2)
        BY <1>0, <3>2, <4>1 DEF Plane, RecShape, PhaseAt, Phase
      <4> QED
        BY <4>2, <4>3 DEF ClientMove
    <3> QED
      BY <3>1, <3>2
  <2>10. (ClientRec!AllResent \/ ClientRec!StartResend \/ ClientRec!Finish) => ClientRec!InPass
    BY DEF ClientRec!AllResent, ClientRec!StartResend, ClientRec!Finish
  <2> QED
    BY <1>6, <2>1, <2>2, <2>3, <2>4, <2>5, <2>6, <2>7, <2>8, <2>9, <2>10
       DEF ClientRecovers, ClientRec!RecoveryStep
<1> QED
  BY <1>1, <1>2, <1>3, <1>4, <1>6 DEF ClientNext

-----------------------------------------------------------------------------
(***************************************************************************)
(* What the server says to the client: the report, then that it is done.   *)
(* The client is told once and released once.                              *)
(***************************************************************************)

(* On its way, in the network and in the send queue, is nothing, one        *)
(* message, or two.                                                         *)
Flow0(net, out) == net = <<>> /\ out = <<>>
Flow1(net, out, a) ==
  \/ net = <<>> /\ out = <<a>>
  \/ net = <<a>> /\ out = <<>>
Flow2(net, out, a, b) ==
  \/ net = <<>> /\ out = <<a, b>>
  \/ net = <<a>> /\ out = <<b>>
  \/ net = <<a, b>> /\ out = <<>>

Done == Control("done", NoReport)

(* A queue of one. *)
LEMMA QueueOfOne ==
  ASSUME NEW a
  PROVE  /\ Append(<<>>, a) = <<a>> /\ <<a>> # <<>>
         /\ Head(<<a>>) = a /\ Tail(<<a>>) = <<>>
OBVIOUS

(* A queue of two. *)
LEMMA QueueOfTwo ==
  ASSUME NEW a, NEW b
  PROVE  /\ Append(<<a>>, b) = <<a, b>> /\ <<a, b>> # <<>>
         /\ Head(<<a, b>>) = a /\ Tail(<<a, b>>) = <<b>>
<1>1. <<a>> \in Seq({a, b}) /\ <<a, b>> \in Seq({a, b}) /\ b \in {a, b}
  OBVIOUS
<1>2. PICK s, t : s = Append(<<a>>, b) /\ t = <<a, b>>
  OBVIOUS
<1>3. Len(s) = 2 /\ s[1] = a /\ s[2] = b /\ s \in Seq({a, b})
  BY <1>1, <1>2
<1>4. Len(t) = 2 /\ t[1] = a /\ t[2] = b /\ t \in Seq({a, b})
  BY <1>1, <1>2
<1>5. Append(<<a>>, b) = <<a, b>>
  <2>1. \A i \in 1 .. Len(s) : s[i] = t[i]
    BY <1>3, <1>4
  <2>2. s = t
    BY <1>3, <1>4, <2>1, SeqEqual
  <2> QED
    BY <1>2, <2>2
<1>6. <<a, b>> # <<>> /\ Head(<<a, b>>) = a /\ Tail(<<a, b>>) = <<b>>
  BY <1>1
<1> QED
  BY <1>5, <1>6

(* The client has received nothing yet ...                                  *)
Untold(r, s) ==
  /\ Phase(r) = "none" /\ s.rcq = 0
  /\ s.rq = IF r.listening THEN <<Control("report", NoReport)>> ELSE <<>>

(* ... or the report, which says msg ...                                    *)
ToldOf(r, s, msg) ==
  \/ Phase(r) = "none" /\ r.listening /\ s.rcq = 1 /\ s.rq = <<>> /\ s.buf = msg
  \/ Phase(r) \in {"clear", "told", "on"} /\ s.rcq = 0 /\ s.rq = <<>> /\ r.msg = msg
  \/ /\ Phase(r) = "over" /\ r.at = "sync" /\ ~ r.listening
     /\ s.rcq = 0 /\ s.rq = <<Done>> /\ r.msg = msg

(* ... or both messages of the server.                                      *)
Released(r, s, msg) ==
  /\ Phase(r) = "over" /\ r.msg = msg
  /\ \/ r.at = "sync" /\ ~ r.listening /\ s.rcq = 1
     \/ r.at \in {"polls", "out"} /\ s.rcq = 0

ToClient(r, s, sr, out, net) ==
  \/ /\ Untold(r, s)
     /\ \/ Phase(sr) \in {"none", "clear"} /\ Flow0(net, out)
        \/ Phase(sr) \in {"told", "on"} /\ Flow1(net, out, Control("report", sr.msg))
        \/ Phase(sr) = "over" /\ Flow2(net, out, Control("report", sr.msg), Done)
  \/ /\ ToldOf(r, s, sr.msg)
     /\ \/ Phase(sr) \in {"told", "on"} /\ Flow0(net, out)
        \/ Phase(sr) = "over" /\ Flow1(net, out, Done)
  \/ /\ Released(r, s, sr.msg)
     /\ Phase(sr) = "over" /\ Flow0(net, out)

(* The server takes a step. *)
LEMMA ServerSays ==
  ASSUME NEW r, NEW s, NEW sr, NEW ss, NEW sr2, NEW ss2, NEW net, NEW next,
         RepShape(ss), PhaseAt(sr),
         ToClient(r, s, sr, ss.sq, net), ServerMove(sr, ss, next, sr2, ss2)
  PROVE  ToClient(r, s, sr2, ss2.sq, net)
<1>1. CASE /\ Phase(sr2) = Phase(sr) /\ sr2.msg = sr.msg /\ ss2.sq = ss.sq
  BY <1>1 DEF ToClient
<1>2. CASE Detects(sr, ss, next, sr2, ss2)
  BY <1>2 DEF ToClient, Detects, SameRep
<1>3. CASE Reports(sr, ss, next, sr2, ss2)
  <2>1. Phase(sr) = "clear" /\ Phase(sr2) = "told" /\ ss2.sq = Append(ss.sq, Control("report", sr2.msg))
    BY <1>3 DEF Reports, RepShape
  <2>2. Untold(r, s) /\ net = <<>> /\ ss.sq = <<>>
    BY <2>1 DEF ToClient, Flow0
  <2>3. ss2.sq = <<Control("report", sr2.msg)>>
    BY <2>1, <2>2
  <2> QED
    BY <2>1, <2>2, <2>3 DEF ToClient, Flow1
<1>4. CASE AwaitsAck(sr, ss, next, sr2, ss2)
  BY <1>4 DEF ToClient, AwaitsAck
<1>5. CASE ServerEnds(sr, ss, next, sr2, ss2)
  <2>1. /\ Phase(sr) = "on" /\ Phase(sr2) = "over" /\ sr2.msg = sr.msg
        /\ ss2.sq = Append(ss.sq, Done)
    BY <1>5 DEF ServerEnds, Done
  <2>2. CASE Untold(r, s) /\ Flow1(net, ss.sq, Control("report", sr.msg))
    <3>1. PICK a, b : a = Control("report", sr.msg) /\ b = Done
      OBVIOUS
    <3>2. ss2.sq = Append(ss.sq, b) /\ Flow1(net, ss.sq, a)
      BY <2>1, <2>2, <3>1
    <3>3. Flow2(net, ss2.sq, a, b)
      <4>1. CASE net = <<>> /\ ss.sq = <<a>>
        <5>1. ss2.sq = <<a, b>>
          BY <3>2, <4>1, QueueOfTwo
        <5> QED
          BY <4>1, <5>1 DEF Flow2
      <4>2. CASE net = <<a>> /\ ss.sq = <<>>
        <5>1. ss2.sq = <<b>>
          BY <3>2, <4>2
        <5> QED
          BY <4>2, <5>1 DEF Flow2
      <4> QED
        BY <3>2, <4>1, <4>2 DEF Flow1
    <3> QED
      BY <2>1, <2>2, <3>1, <3>3 DEF ToClient
  <2>3. CASE ToldOf(r, s, sr.msg) /\ Flow0(net, ss.sq)
    <3>1. Flow1(net, ss2.sq, Done)
      BY <2>1, <2>3 DEF Flow0, Flow1
    <3> QED
      BY <2>1, <2>3, <3>1 DEF ToClient
  <2> QED
    BY <2>1, <2>2, <2>3 DEF ToClient
<1> QED
  BY <1>1, <1>2, <1>3, <1>4, <1>5 DEF ServerMove, ServerAlone, ServerWorks, SameRep

(* The client takes a step. *)
LEMMA ClientHears ==
  ASSUME NEW r, NEW s, NEW sr, NEW out, NEW net, NEW r2, NEW s2, NEW next,
         RepShape(s), PhaseAt(r), PhaseAt(r2),
         ToClient(r, s, sr, out, net), ClientMove(r, s, next, r2, s2)
  PROVE  ToClient(r2, s2, sr, out, net)
<1>1. CASE /\ Phase(r2) = Phase(r) /\ (r2.at = "sync" <=> r.at = "sync")
           /\ SameRec(r, r2) /\ s2.rq = s.rq /\ s2.rcq = s.rcq /\ s2.buf = s.buf
  BY <1>1 DEF ToClient, Untold, ToldOf, Released, SameRec, PhaseAt
<1>2. CASE Listens(r, s, next, r2, s2)
  <2>1. s2.rq = Append(s.rq, Control("report", NoReport)) /\ s2.rcq = s.rcq /\ s2.buf = s.buf
    BY <1>2 DEF Listens, RepShape
  <2>2. /\ Phase(r2) = Phase(r) /\ ~ r.listening /\ r2.listening /\ r2.msg = r.msg
        /\ r.at = "out" /\ r2.at = "out"
    BY <1>2 DEF Listens
  <2>3. CASE Untold(r, s)
    <3>1. s.rq = <<>>
      BY <2>2, <2>3 DEF Untold
    <3>2. s2.rq = <<Control("report", NoReport)>>
      BY <2>1, <3>1
    <3>3. Untold(r2, s2)
      BY <2>1, <2>2, <2>3, <3>2 DEF Untold
    <3>4. r.listening = FALSE /\ Phase(r) = "none"
      BY <2>2, <2>3 DEF Untold, PhaseAt
    <3> QED
      BY <3>3, <2>3, <3>4 DEF ToClient, ToldOf, Released
  <2>4. CASE ToldOf(r, s, sr.msg)
    BY <1>2, <2>2, <2>4 DEF ToldOf, Listens
  <2>5. CASE Released(r, s, sr.msg)
    <3>1. Released(r2, s2, sr.msg)
      BY <2>1, <2>2, <2>5 DEF Released
    <3> QED
      BY <2>2, <2>5, <3>1 DEF ToClient, Untold, ToldOf, Released
  <2> QED
    BY <2>3, <2>4, <2>5 DEF ToClient
<1>3. CASE IsTold(r, s, next, r2, s2)
  <2>1. /\ Phase(r) = "none" /\ Phase(r2) = "clear" /\ s.rcq > 0 /\ r2.msg = s.buf
        /\ s2.rq = s.rq /\ s2.rcq = s.rcq - 1
    BY <1>3 DEF IsTold, RepShape
  <2>2. ToldOf(r, s, sr.msg)
    BY <2>1 DEF ToClient, Untold, Released
  <2>3. ToldOf(r2, s2, sr.msg)
    BY <2>1, <2>2 DEF ToldOf
  <2> QED
    BY <2>1, <2>2, <2>3 DEF ToClient, Untold, ToldOf, Released
<1>4. CASE \/ Answers(r, s, next, r2, s2) \/ SetsOut(r, s, next, r2, s2)
           \/ ClientWorks(r, s, next, r2, s2)
  <2>1. /\ Phase(r) \in {"clear", "told", "on"} /\ Phase(r2) \in {"clear", "told", "on"}
        /\ r2.msg = r.msg /\ s2.rq = s.rq /\ s2.rcq = s.rcq
    BY <1>4 DEF Answers, SetsOut, ClientWorks, SameRec, SameRep, RepShape
  <2>2. ToldOf(r, s, sr.msg) /\ ToldOf(r2, s2, sr.msg)
    BY <2>1 DEF ToClient, Untold, ToldOf, Released
  <2> QED
    BY <2>1, <2>2 DEF ToClient, Untold, Released
<1>5. CASE ClientEnds(r, s, next, r2, s2)
  <2>1. /\ Phase(r) = "on" /\ Phase(r2) = "over" /\ r2.at = "sync" /\ ~ r2.listening
        /\ r2.msg = r.msg /\ s2.rq = Append(s.rq, Done) /\ s2.rcq = s.rcq
    BY <1>5 DEF ClientEnds, RepShape, Done
  <2>2. ToldOf(r, s, sr.msg) /\ s.rq = <<>> /\ s.rcq = 0 /\ r.msg = sr.msg
    BY <2>1 DEF ToClient, Untold, ToldOf, Released
  <2>3. s2.rq = <<Done>>
    BY <2>1, <2>2
  <2>4. ToldOf(r2, s2, sr.msg)
    BY <2>1, <2>2, <2>3 DEF ToldOf
  <2> QED
    BY <2>1, <2>2, <2>4 DEF ToClient, Untold, Released
<1>6. CASE IsReleased(r, s, next, r2, s2)
  <2>1. /\ Phase(r) = "over" /\ Phase(r2) = "over" /\ r.at = "sync" /\ r2.at = "polls"
        /\ s.rcq > 0 /\ s2.rcq = s.rcq - 1 /\ r2.msg = r.msg
    BY <1>6 DEF IsReleased, SameRec, RepShape
  <2>2. Released(r, s, sr.msg)
    BY <2>1 DEF ToClient, Untold, ToldOf
  <2>3. Released(r2, s2, sr.msg)
    BY <2>1, <2>2 DEF Released
  <2> QED
    BY <2>1, <2>2, <2>3 DEF ToClient, Untold, ToldOf
<1> QED
  BY <1>1, <1>2, <1>3, <1>4, <1>5, <1>6 DEF ClientMove, ClientAlone, SameRep

(* A message of the server leaves; what is on its way is the same.          *)
LEMMA ReportLeaves ==
  ASSUME NEW r, NEW s, NEW sr, NEW out, NEW net,
         ToClient(r, s, sr, out, net), out # <<>>
  PROVE  Head(out).path = 0 /\ ToClient(r, s, sr, Tail(out), Append(net, Head(out)))
<1>1. \A a : Control("report", a).path = 0 /\ Done.path = 0
  BY DEF Control, Done
<1>2. ASSUME NEW a, Flow1(net, out, a)
      PROVE  Flow1(Append(net, Head(out)), Tail(out), a) /\ Head(out) = a
  <2>1. net = <<>> /\ out = <<a>>
    BY <1>2 DEF Flow1
  <2> QED
    BY <2>1, QueueOfOne DEF Flow1
<1>3. ASSUME NEW a, NEW b, Flow2(net, out, a, b)
      PROVE  Flow2(Append(net, Head(out)), Tail(out), a, b) /\ Head(out) \in {a, b}
  <2>1. CASE net = <<>> /\ out = <<a, b>>
    BY <2>1, QueueOfOne, QueueOfTwo DEF Flow2
  <2>2. CASE net = <<a>> /\ out = <<b>>
    BY <2>2, QueueOfOne, QueueOfTwo DEF Flow2
  <2> QED
    BY <1>3, <2>1, <2>2 DEF Flow2
<1>4. ~ Flow0(net, out)
  BY DEF Flow0
<1> QED
  BY <1>1, <1>2, <1>3, <1>4 DEF ToClient

(* One arrives. *)
LEMMA ReportComes ==
  ASSUME NEW r, NEW s, NEW sr, NEW out, NEW net, NEW s2,
         RepShape(s), ToClient(r, s, sr, out, net), net # <<>>, s.rq # <<>>,
         s2 = Filled(s, Head(net))
  PROVE  /\ ToClient(r, s2, sr, out, Tail(net)) /\ RepShape(s2)
         /\ Head(net).kind = Head(s.rq).kind /\ Head(net).kind # "data"
<1>1. /\ RepShape(s2) /\ s2.rq = Tail(s.rq) /\ s2.rcq = s.rcq + 1
      /\ s2.buf = IF Head(net).kind = "data" THEN s.buf ELSE Head(net).body
  BY DEF Filled, RepShape
<1>2. CASE Untold(r, s)
  <2>1. /\ Phase(r) = "none" /\ r.listening /\ s.rq = <<Control("report", NoReport)>> /\ s.rcq = 0
    BY <1>2 DEF Untold
  <2>2. PICK a : a = Control("report", sr.msg)
    OBVIOUS
  <2>3. CASE Phase(sr) \in {"told", "on"} /\ Flow1(net, out, a)
    <3>1. net = <<a>> /\ out = <<>>
      BY <2>3 DEF Flow1
    <3>2. Head(net) = a /\ Tail(net) = <<>> /\ Tail(s.rq) = <<>> /\ Head(s.rq) = Control("report", NoReport)
      BY <2>1, <3>1
    <3>3. a.kind = "report" /\ a.body = sr.msg /\ Head(s.rq).kind = "report"
      BY <2>2, <3>2 DEF Control
    <3>4. ToldOf(r, s2, sr.msg)
      BY <1>1, <2>1, <3>2, <3>3 DEF ToldOf
    <3> QED
      BY <1>1, <2>3, <3>1, <3>2, <3>3, <3>4 DEF ToClient, Flow0
  <2>4. CASE Phase(sr) = "over" /\ Flow2(net, out, a, Done)
    <3>0. PICK b : b = Done
      OBVIOUS
    <3>5. Flow2(net, out, a, b)
      BY <2>4, <3>0
    <3>6. Head(net) = a /\ Flow1(Tail(net), out, b)
      BY <3>5, QueueOfOne, QueueOfTwo DEF Flow1, Flow2
    <3>1. Head(net) = a /\ Flow1(Tail(net), out, Done)
      BY <3>6, <3>0
    <3>2. Tail(s.rq) = <<>> /\ Head(s.rq) = Control("report", NoReport)
      BY <2>1
    <3>3. a.kind = "report" /\ a.body = sr.msg /\ Head(s.rq).kind = "report"
      BY <2>2, <3>2 DEF Control
    <3>4. ToldOf(r, s2, sr.msg)
      BY <1>1, <2>1, <3>1, <3>2, <3>3 DEF ToldOf
    <3> QED
      BY <1>1, <2>4, <3>1, <3>3, <3>4 DEF ToClient
  <2> QED
    BY <1>2, <2>1, <2>2, <2>3, <2>4 DEF ToClient, ToldOf, Released, Flow0
<1>3. CASE ToldOf(r, s, sr.msg)
  <2>1. Phase(sr) = "over" /\ Flow1(net, out, Done)
    BY <1>3 DEF ToClient, ToldOf, Untold, Released, Flow0
  <2>2. Head(net) = Done /\ Tail(net) = <<>> /\ out = <<>>
    BY <2>1, QueueOfOne DEF Flow1
  <2>3. /\ Phase(r) = "over" /\ r.at = "sync" /\ ~ r.listening
        /\ s.rcq = 0 /\ s.rq = <<Done>> /\ r.msg = sr.msg
    BY <1>3 DEF ToldOf
  <2>4. Head(s.rq) = Done /\ Done.kind = "done"
    BY <2>3 DEF Done, Control
  <2>5. Released(r, s2, sr.msg)
    BY <1>1, <2>3 DEF Released
  <2> QED
    BY <1>1, <2>1, <2>2, <2>4, <2>5 DEF ToClient, Flow0
<1>4. CASE Released(r, s, sr.msg)
  BY <1>4 DEF ToClient, ToldOf, Untold, Released, Flow0
<1> QED
  BY <1>2, <1>3, <1>4 DEF ToClient

-----------------------------------------------------------------------------
(***************************************************************************)
(* The paths of one side.  A side whose recovery is over has taken the last*)
(* path out; the turn of a posting call is a path of that call; slots and  *)
(* statuses keep their fields.                                             *)
(***************************************************************************)
TableShape(t) ==
  /\ t = [head |-> t.head, next |-> t.next, sqn |-> t.sqn, wqe |-> t.wqe]
  /\ t.next \in 0 .. TableLen - 1

CallShape(c) == c = [pc |-> c.pc, i |-> c.i, iter |-> c.iter, active |-> c.active]

OnPaths(active, stat, over, call, turn) ==
  /\ active = IF over THEN NumPath - 1 ELSE NumPath
  /\ stat = [p \in Paths |-> stat[p]]
  /\ \A p \in Paths : StatShape(stat[p])
  /\ CallShape(call) /\ call.active \in 1 .. NumPath
  /\ turn \in Nat
  /\ call.pc # "idle" => turn < call.active

(* The server's steps. *)
LEMMA ServerPaths ==
  ASSUME OnPaths(sv_active, sv_stat, sv_rec.over, sv_call, sv_post_turn),
         TableShape(sv_table), Plane(sv_rec, sv_rep), ServerNext \/ Timeout
  PROVE  /\ OnPaths(sv_active', sv_stat', sv_rec'.over, sv_call', sv_post_turn')
         /\ TableShape(sv_table')
         /\ sv_rec.at # "out" => sv_table'.next = sv_table.next
         /\ sv_rec.over => sv_stat'[LastPath].posted = sv_stat[LastPath].posted
<1> DEFINE Kept == /\ sv_table' = sv_table \/ \E w, h : sv_table' = [sv_table EXCEPT !.wqe = w, !.head = h]
           SameOver == sv_rec'.over = sv_rec.over
           KeptCall == sv_call' = sv_call /\ sv_post_turn' = sv_post_turn
           Advance == /\ sv_call.pc # "idle"
                      /\ sv_post_turn' = (sv_post_turn + 1) % sv_call.active
                      /\ \E pc : sv_call' = [sv_call EXCEPT !.i = @ + 1, !.pc = pc]
           Polling == \/ sv_stat' = sv_stat
                      \/ \E t : sv_stat' = [sv_stat EXCEPT ![t] = Server!Polled(@, t)]
                      \/ sv_stat' = [p \in Paths |->
                            IF p < sv_active
                              THEN [sv_stat[p] EXCEPT !.polled = @ - sv_table.wqe[sv_table.head].iter_each[p]]
                              ELSE sv_stat[p]]
           Stats == /\ sv_stat' = [p \in Paths |-> sv_stat'[p]]
                    /\ \A p \in Paths : StatShape(sv_stat'[p])
           Calls == /\ CallShape(sv_call') /\ sv_call'.active \in 1 .. NumPath
                    /\ sv_post_turn' \in Nat
                    /\ sv_call'.pc # "idle" => sv_post_turn' < sv_call'.active
           Posted == sv_stat'[LastPath].posted = sv_stat[LastPath].posted
           Goal == /\ OnPaths(sv_active', sv_stat', sv_rec'.over, sv_call', sv_post_turn')
                   /\ TableShape(sv_table')
                   /\ sv_rec.at # "out" => sv_table'.next = sv_table.next
                   /\ sv_rec.over => sv_stat'[LastPath].posted = sv_stat[LastPath].posted
<1>0. /\ NumPath \in Nat /\ NumPath > 1 /\ TableLen \in Nat \ {0} /\ LastPath \in Paths
      /\ sv_active \in 1 .. NumPath
      /\ RecShape(sv_rec) /\ PhaseAt(sv_rec)
  BY TransferAssumption, FailoverAssumption DEF OnPaths, LastPath, Paths, Plane
<1>1. Kept => TableShape(sv_table') /\ sv_table'.next = sv_table.next
  BY DEF TableShape
<1>2. Polling => Stats /\ Posted
  <2>0. SUFFICES ASSUME Polling PROVE Stats /\ Posted
    OBVIOUS
  <2>1. CASE sv_stat' = sv_stat
    BY <2>1 DEF OnPaths
  <2>2. CASE \E t : sv_stat' = [sv_stat EXCEPT ![t] = Server!Polled(@, t)]
    <3>1. PICK t : sv_stat' = [sv_stat EXCEPT ![t] = Server!Polled(@, t)]
      BY <2>2
    <3>2. PICK s : s = Server!Polled(sv_stat[t], t)
      OBVIOUS
    <3>3. t \in Paths => StatShape(s) /\ s.posted = sv_stat[t].posted
      <4>1. PICK q : q = sv_stat[t]
        OBVIOUS
      <4>2. PICK x, y, z, u, v : s = [q EXCEPT !.polled = x, !.tot_pkt = y, !.qlen = z, !.comp_temp = u, !.wqe_idx = v]
        BY <3>2, <4>1, Zenon DEF Server!Polled
      <4>3. t \in Paths => StatShape(q)
        BY <4>1 DEF OnPaths
      <4>4. StatShape(q) => StatShape(s) /\ s.posted = q.posted
        BY <4>2 DEF StatShape
      <4> QED
        BY <4>1, <4>3, <4>4
    <3>4. sv_stat' = [sv_stat EXCEPT ![t] = s]
      BY <3>1, <3>2
    <3> QED
      BY <1>0, <3>3, <3>4 DEF OnPaths
  <2>3. CASE sv_stat' = [p \in Paths |->
                            IF p < sv_active
                              THEN [sv_stat[p] EXCEPT !.polled = @ - sv_table.wqe[sv_table.head].iter_each[p]]
                              ELSE sv_stat[p]]
    <3>1. ASSUME NEW p \in Paths, NEW x
          PROVE  LET s == [sv_stat[p] EXCEPT !.polled = x] IN StatShape(s) /\ s.posted = sv_stat[p].posted
      BY DEF StatShape, OnPaths
    <3>2. ASSUME NEW p \in Paths PROVE StatShape(sv_stat'[p]) /\ sv_stat'[p].posted = sv_stat[p].posted
      BY <2>3, <3>1 DEF OnPaths
    <3> QED
      BY <1>0, <2>3, <3>2
  <2> QED
    BY <2>0, <2>1, <2>2, <2>3
<1>3. KeptCall \/ Advance => Calls
  <2>0. SUFFICES ASSUME KeptCall \/ Advance PROVE Calls
    OBVIOUS
  <2>1. CASE KeptCall
    BY <2>1 DEF OnPaths
  <2>2. CASE Advance
    <3>1. sv_post_turn + 1 \in Nat /\ sv_call.active \in Nat \ {0}
      BY <1>0 DEF OnPaths
    <3>2. sv_post_turn' \in 0 .. sv_call.active - 1
      BY <2>2, <3>1, DivMod
    <3>3. CallShape(sv_call') /\ sv_call'.active = sv_call.active
      BY <2>2 DEF OnPaths, CallShape
    <3> QED
      BY <3>1, <3>2, <3>3 DEF OnPaths
  <2> QED
    BY <2>0, <2>1, <2>2
<1> DEFINE Pre == /\ Kept \/ (sv_rec.at = "out" /\ TableShape(sv_table'))
                  /\ Stats /\ (sv_rec.over => Posted) /\ Calls
                  /\ \/ sv_active' = sv_active /\ SameOver
                     \/ sv_active' = sv_active - 1 /\ ~sv_rec.over /\ sv_rec'.over
<1>4. Pre => Goal
  <2>0. SUFFICES ASSUME Pre PROVE Goal
    OBVIOUS
  <2>1. sv_active' = IF sv_rec'.over THEN NumPath - 1 ELSE NumPath
    BY <1>0, <2>0 DEF OnPaths
  <2>2. OnPaths(sv_active', sv_stat', sv_rec'.over, sv_call', sv_post_turn')
    BY <2>0, <2>1 DEF OnPaths
  <2> QED
    BY <1>1, <2>0, <2>2
<1> SUFFICES Goal
  OBVIOUS
<1> HIDE DEF Kept, SameOver, KeptCall, Advance, Polling, Stats, Calls, Posted, Goal
<1>5. CASE ServerPost
  <2>1. /\ sv_rec.at = "out" /\ SameOver /\ sv_active' = sv_active /\ Polling
        /\ \E n : sv_table' = [sv_table EXCEPT !.next = ServerRec!Wrap(@ + 1), !.sqn = @ + 1, !.wqe[sv_table.next] = n]
        /\ sv_post_turn' = sv_post_turn % sv_active
        /\ \E n : sv_call' = [pc |-> "post", i |-> 0, iter |-> n, active |-> sv_active]
    BY <1>5, Zenon DEF ServerPost, ServerRec!PostMessage, ServerRec!Post, ServerRec!StoreWr, SameOver, Polling
  <2>2. TableShape(sv_table')
    <3>1. PICK n : sv_table' = [sv_table EXCEPT !.next = ServerRec!Wrap(@ + 1), !.sqn = @ + 1, !.wqe[sv_table.next] = n]
      BY <2>1
    <3>2. PICK x, y, z : /\ sv_table' = [sv_table EXCEPT !.next = x, !.sqn = y, !.wqe = z]
                         /\ x = ServerRec!Wrap(sv_table.next + 1)
      BY <3>1 DEF TableShape
    <3>3. x \in 0 .. TableLen - 1
      BY <1>0, <3>2 DEF ServerRec!Wrap, TableShape
    <3> QED
      BY <3>2, <3>3 DEF TableShape
  <2>3. Calls
    <3>1. sv_post_turn' \in 0 .. sv_active - 1
      BY <1>0, <2>1, DivMod DEF OnPaths
    <3>2. CallShape(sv_call') /\ sv_call'.active = sv_active
      BY <2>1 DEF CallShape
    <3> QED
      BY <1>0, <3>1, <3>2 DEF Calls
  <2> QED
    BY <1>2, <1>4, <2>1, <2>2, <2>3
<1>6. CASE ServerPostPacket
  <2>1. /\ SameOver /\ sv_active' = sv_active /\ Kept
        /\ sv_active = sv_call.active /\ sv_call.pc = "post"
        /\ sv_stat' = [sv_stat EXCEPT ![sv_post_turn].posted = @ + 1, ![sv_post_turn].qlen = @ + 1]
        /\ \/ sv_call' = [sv_call EXCEPT !.pc = "drain"] /\ sv_post_turn' = sv_post_turn
           \/ Server!NextPacket
    BY <1>6 DEF ServerPostPacket, ServerPacket, Server!PostPacket, svRec, Kept, SameOver
  <2>2. Calls
    <3>1. CASE Server!NextPacket
      BY <1>3, <2>1, <3>1 DEF Server!NextPacket, Advance
    <3>2. CASE sv_call' = [sv_call EXCEPT !.pc = "drain"] /\ sv_post_turn' = sv_post_turn
      BY <2>1, <3>2 DEF OnPaths, CallShape, Calls
    <3> QED
      BY <2>1, <3>1, <3>2
  <2>3. sv_post_turn \in 0 .. sv_active - 1 /\ sv_active \in 1 .. NumPath
    <3>1. sv_post_turn \in Nat /\ sv_post_turn < sv_call.active
      BY <2>1 DEF OnPaths
    <3> QED
      BY <1>0, <2>1, <3>1
  <2>4. Stats
    <3>1. PICK x, y : /\ sv_stat' = [sv_stat EXCEPT ![sv_post_turn] = [@ EXCEPT !.posted = x, !.qlen = y]]
      BY <2>1
    <3>2. sv_post_turn \in Paths
      BY <1>0, <2>3 DEF Paths
    <3>3. PICK q, s : q = sv_stat[sv_post_turn] /\ s = [q EXCEPT !.posted = x, !.qlen = y]
      OBVIOUS
    <3>4. StatShape(q)
      BY <3>2, <3>3 DEF OnPaths
    <3>5. StatShape(s) /\ sv_stat' = [sv_stat EXCEPT ![sv_post_turn] = s]
      BY <3>1, <3>3, <3>4 DEF StatShape
    <3> QED
      BY <3>2, <3>5 DEF OnPaths, Stats
  <2>5. sv_rec.over => sv_post_turn # LastPath
    BY <1>0, <2>3 DEF OnPaths, LastPath
  <2>6. sv_rec.over => Posted
    BY <1>0, <2>1, <2>5 DEF OnPaths, Posted
  <2> QED
    BY <1>4, <2>1, <2>2, <2>4, <2>6
<1>7. CASE ServerCutShort
  <2>1. /\ SameOver /\ sv_active' = sv_active /\ Kept /\ Polling
        /\ sv_call' = [sv_call EXCEPT !.pc = "idle"] /\ sv_post_turn' = 0
    BY <1>7 DEF ServerCutShort, ServerRec!CutShort, ServerRec!recVars, Kept, SameOver, Polling
  <2>2. Calls
    BY <2>1 DEF OnPaths, CallShape, Calls
  <2> QED
    BY <1>2, <1>4, <2>1, <2>2
<1>8. CASE ServerPoll
  <2>1. SameOver /\ sv_active' = sv_active
    BY <1>0, <1>8 DEF ServerPoll, ServerRec!PlainPoll, ServerRec!DrainPoll, ServerRec!PollComplete, ServerRec!PollProgress, RecShape, SameOver
  <2>3. CASE ServerRec!DrainPoll
    <3>1. Polling
      BY <2>3, Zenon DEF ServerRec!DrainPoll, ServerRec!InnerPoll, ServerRec!Polled, Server!Polled, ServerRec!Wrap, Server!Wrap, Polling
    <3>2. Kept /\ (KeptCall \/ Advance)
      BY <2>3 DEF ServerRec!DrainPoll, ServerRec!NextPacket, Kept, KeptCall, Advance
    <3> QED
      BY <1>2, <1>3, <1>4, <2>1, <3>1, <3>2
  <2>4. CASE ServerRec!PollComplete
    <3>1. Polling /\ KeptCall
      BY <2>4 DEF ServerRec!PollComplete, ServerRec!Paths, Paths, KeptCall, Polling
    <3>2. Kept
      BY <2>4 DEF ServerRec!PollComplete, TableShape, Kept
    <3> QED
      BY <1>2, <1>3, <1>4, <2>1, <3>1, <3>2
  <2>5. CASE ServerRec!PollProgress
    <3>1. Polling /\ Kept /\ KeptCall
      BY <2>5, Zenon DEF ServerRec!PollProgress, ServerRec!InnerPoll, ServerRec!Polled, Server!Polled, ServerRec!Wrap, Server!Wrap, Kept, KeptCall, Polling
    <3> QED
      BY <1>2, <1>3, <1>4, <2>1, <3>1
  <2> QED
    BY <1>8, <2>3, <2>4, <2>5 DEF ServerPoll, ServerRec!PlainPoll
<1>9. CASE Timeout
  <2>1. Polling /\ Kept /\ KeptCall /\ sv_active' = sv_active /\ sv_rec' = [sv_rec EXCEPT !.at = "clear", !.flag = TRUE]
    BY <1>9 DEF Timeout, ServerRec!Detect, ServerRec!vars, Kept, KeptCall, Polling
  <2>2. SameOver
    BY <1>0, <2>1 DEF RecShape, SameOver
  <2> QED
    BY <1>2, <1>3, <1>4, <2>1, <2>2
<1>10. CASE ServerRecovers
  <2>1. CASE ServerRec!TakeReport \/ ServerRec!Told \/ ServerRec!Sync \/ ServerRec!ResendPacket \/ ServerRec!AllResent \/ ServerRec!StartResend
    <3>1. Polling /\ Kept /\ KeptCall /\ sv_active' = sv_active
      BY <2>1, Zenon DEF ServerRec!TakeReport, ServerRec!Told, ServerRec!Sync, ServerRec!ResendPacket, ServerRec!AllResent, ServerRec!StartResend, ServerRec!vars, Kept, KeptCall, Polling
    <3>2. SameOver
      <4>1. CASE ServerRec!TakeReport \/ ServerRec!Told \/ ServerRec!Sync
        BY <1>0, <4>1 DEF ServerRec!TakeReport, ServerRec!Told, ServerRec!Sync, RecShape, SameOver
      <4>2. CASE ServerRec!ResendPacket
        BY <1>0, <4>2 DEF ServerRec!ResendPacket, ServerRec!NextResend, RecShape, SameOver
      <4>3. CASE ServerRec!AllResent \/ ServerRec!StartResend
        <5>1. PICK r : r = ServerRec!Acked
          OBVIOUS
        <5>2. RecShape(r) /\ r.over = sv_rec.over
          BY <1>0, <5>1 DEF ServerRec!Acked, RecShape
        <5>3. CASE ServerRec!AllResent
          BY <5>1, <5>2, <5>3 DEF ServerRec!AllResent, RecShape, SameOver
        <5>4. CASE ServerRec!StartResend
          <6>1. \/ sv_rec' = [r EXCEPT !.at = "crash"]
                \/ \E iter, turn, at, post :
                     sv_rec' = [r EXCEPT !.i = 0, !.iter = iter, !.turn = turn, !.at = at, !.post = post]
            <7>1. CASE sv_slot[r.post].len = 0
              BY <5>1, <5>4, <7>1 DEF ServerRec!StartResend, SameOver
            <7>2. CASE sv_slot[r.post].len # 0
              <8> DEFINE n == ServerRec!Iter(ServerRec!Portion(r.post), sv_active - 1)
              <8>1. sv_rec' = [r EXCEPT !.i = 0, !.iter = n, !.turn = @ % (sv_active - 1),
                                        !.at = IF n = 0 THEN "polls" ELSE "resend",
                                        !.post = IF n = 0 THEN @ + 1 ELSE @]
                BY <5>1, <5>4, <7>2 DEF ServerRec!StartResend
              <8>2. PICK iter, turn, at, post :
                      /\ iter = n /\ turn = r.turn % (sv_active - 1)
                      /\ at = (IF n = 0 THEN "polls" ELSE "resend")
                      /\ post = (IF n = 0 THEN r.post + 1 ELSE r.post)
                OBVIOUS
              <8> QED
                BY <5>2, <8>1, <8>2 DEF RecShape, SameOver
            <7> QED
              BY <7>1, <7>2, Zenon DEF SameOver
          <6> QED
            BY <5>2, <6>1 DEF RecShape, SameOver
        <5> QED
          BY <4>3, <5>3, <5>4 DEF SameOver
      <4> QED
        BY <2>1, <4>1, <4>2, <4>3 DEF SameOver
    <3> QED
      BY <1>2, <1>3, <1>4, <3>1, <3>2
  <2>2. CASE ServerRec!Clear
    <3>1. Polling
      BY <2>2, Zenon DEF ServerRec!Clear, ServerRec!InnerPoll, ServerRec!Polled, Server!Polled, ServerRec!Wrap, Server!Wrap, Polling
    <3>2. Kept /\ KeptCall /\ sv_active' = sv_active
      BY <2>2 DEF ServerRec!Clear, Kept, KeptCall
    <3>3. SameOver
      <4>1. \/ sv_rec' = sv_rec
            \/ sv_rec' = [sv_rec EXCEPT !.at = "nokey"]
            \/ \E at, msg : sv_rec' = [sv_rec EXCEPT !.at = at, !.msg = msg]
        BY <2>2 DEF ServerRec!Clear
      <4> QED
        BY <1>0, <4>1 DEF RecShape, SameOver
    <3> QED
      BY <1>2, <1>3, <1>4, <3>1, <3>2, <3>3
  <2>3. CASE ServerRec!ResendDrain
    <3>1. PICK c, rr : c = ServerRec!Counted(sv_rec) /\ rr = ServerRec!NextResend(c)
      OBVIOUS
    <3>2. sv_rec' = rr /\ ServerRec!RecoveryPoll(rr) /\ Polling /\ KeptCall /\ sv_active' = sv_active
      BY <2>3, <3>1 DEF ServerRec!ResendDrain, ServerRec!RecoveryPoll, KeptCall, Polling
    <3>3. RecShape(c) /\ c.over = sv_rec.over
      BY <1>0, <3>1 DEF ServerRec!Counted, ServerRec!CountPacket, RecShape
    <3>4. SameOver
      BY <3>1, <3>2, <3>3 DEF ServerRec!NextResend, RecShape, SameOver
    <3>5. Kept
      <4>1. sv_table' = sv_table \/ \E x : sv_table' = [sv_table EXCEPT !.wqe[sv_rec.poll].iter_each[x] = 0]
        BY <3>2 DEF ServerRec!RecoveryPoll
      <4>2. sv_table' = sv_table \/ \E w : sv_table' = [sv_table EXCEPT !.wqe = w]
        BY <4>1
      <4>3. \A w : [sv_table EXCEPT !.wqe = w] = [sv_table EXCEPT !.wqe = w, !.head = sv_table.head]
        BY DEF TableShape
      <4> QED
        BY <4>2, <4>3 DEF Kept
    <3> QED
      BY <1>2, <1>3, <1>4, <3>2, <3>4, <3>5
  <2>4. CASE ServerRec!Finish
    <3>1. PICK r : r = ServerRec!Acked
      OBVIOUS
    <3>2. RecShape(r)
      BY <1>0, <3>1 DEF ServerRec!Acked, RecShape
    <3>3. /\ sv_rec' = [r EXCEPT !.at = "sync", !.flag = FALSE, !.listening = FALSE, !.over = TRUE]
          /\ sv_active' = sv_active - 1 /\ sv_rec.flag
          /\ Polling /\ Kept /\ KeptCall
      BY <2>4, <3>1 DEF ServerRec!Finish, ServerRec!InPass, KeptCall, Polling, Kept
    <3>4. sv_rec'.over /\ ~sv_rec.over
      BY <1>0, <3>2, <3>3 DEF RecShape, PhaseAt
    <3> QED
      BY <1>2, <1>3, <1>4, <3>3, <3>4
  <2>5. CASE ServerRec!PassReports
    <3>1. Polling /\ KeptCall /\ sv_active' = sv_active
      BY <2>5 DEF ServerRec!PassReports, ServerRec!PollComplete, ServerRec!Paths, Paths, KeptCall, Polling
    <3>2. Kept
      BY <2>5 DEF ServerRec!PassReports, ServerRec!PollComplete, TableShape, Kept
    <3>3. SameOver
      BY <1>0, <2>5 DEF ServerRec!PassReports, RecShape, SameOver
    <3> QED
      BY <1>2, <1>3, <1>4, <3>1, <3>2, <3>3
  <2>6. CASE ServerRec!PassPolls
    <3>1. Polling
      BY <2>6, Zenon DEF ServerRec!PassPolls, ServerRec!InnerPoll, ServerRec!Polled, Server!Polled, ServerRec!Wrap, Server!Wrap, Polling
    <3>2. sv_active' = sv_active /\ (KeptCall \/ Advance)
      BY <2>6 DEF ServerRec!PassPolls, ServerRec!NextPacket, KeptCall, Advance
    <3>3. CASE sv_rec.flag
      <4>1. PICK r : r = [sv_rec EXCEPT !.at = "pass"]
        OBVIOUS
      <4>2. PICK c : c = ServerRec!Counted(r)
        OBVIOUS
      <4>3. ServerRec!RecoveryPoll(c)
        BY <2>6, <3>3, <4>1, <4>2 DEF ServerRec!PassPolls
      <4>4. SameOver
        <5>1. RecShape(r) /\ r.over = sv_rec.over
          BY <1>0, <4>1 DEF RecShape
        <5>2. c.over = sv_rec.over
          BY <4>2, <5>1 DEF ServerRec!Counted, ServerRec!CountPacket, RecShape
        <5> QED
          BY <4>3, <5>2 DEF ServerRec!RecoveryPoll, SameOver
      <4>5. Kept
        <5>1. sv_table' = sv_table \/ \E x : sv_table' = [sv_table EXCEPT !.wqe[sv_rec.poll].iter_each[x] = 0]
          BY <4>3 DEF ServerRec!RecoveryPoll
        <5>2. sv_table' = sv_table \/ \E w : sv_table' = [sv_table EXCEPT !.wqe = w]
          BY <5>1
        <5>3. \A w : [sv_table EXCEPT !.wqe = w] = [sv_table EXCEPT !.wqe = w, !.head = sv_table.head]
          BY DEF TableShape
        <5> QED
          BY <5>2, <5>3 DEF Kept
      <4> QED
        BY <1>2, <1>3, <1>4, <3>1, <3>2, <4>4, <4>5
    <3>4. CASE ~ sv_rec.flag
      <4>1. Kept /\ sv_rec' = [sv_rec EXCEPT !.at = "out"]
        BY <2>6, <3>4 DEF ServerRec!PassPolls, Kept
      <4>2. SameOver
        BY <1>0, <4>1 DEF RecShape, SameOver
      <4> QED
        BY <1>2, <1>3, <1>4, <3>1, <3>2, <4>1, <4>2
    <3> QED
      BY <3>3, <3>4
  <2> QED
    BY <1>10, <2>1, <2>2, <2>3, <2>4, <2>5, <2>6 DEF ServerRecovers, ServerRec!RecoveryStep
<1> QED
  BY <1>5, <1>6, <1>7, <1>8, <1>9, <1>10 DEF ServerNext

(* The client's steps. *)
LEMMA ClientPaths ==
  ASSUME OnPaths(cl_active, cl_stat, cl_rec.over, cl_call, cl_post_turn),
         TableShape(cl_table), Plane(cl_rec, cl_rep), ClientNext
  PROVE  /\ OnPaths(cl_active', cl_stat', cl_rec'.over, cl_call', cl_post_turn')
         /\ TableShape(cl_table')
         /\ cl_rec.at # "out" => cl_table'.next = cl_table.next
         /\ cl_rec.over => cl_stat'[LastPath].posted = cl_stat[LastPath].posted
<1> DEFINE Kept == /\ cl_table' = cl_table \/ \E w, h : cl_table' = [cl_table EXCEPT !.wqe = w, !.head = h]
           SameOver == cl_rec'.over = cl_rec.over
           KeptCall == cl_call' = cl_call /\ cl_post_turn' = cl_post_turn
           Advance == /\ cl_call.pc # "idle"
                      /\ cl_post_turn' = (cl_post_turn + 1) % cl_call.active
                      /\ \E pc : cl_call' = [cl_call EXCEPT !.i = @ + 1, !.pc = pc]
           Polling == \/ cl_stat' = cl_stat
                      \/ \E t : cl_stat' = [cl_stat EXCEPT ![t] = Client!Polled(@, t)]
                      \/ cl_stat' = [p \in Paths |->
                            IF p < cl_active
                              THEN [cl_stat[p] EXCEPT !.polled = @ - cl_table.wqe[cl_table.head].iter_each[p]]
                              ELSE cl_stat[p]]
           Stats == /\ cl_stat' = [p \in Paths |-> cl_stat'[p]]
                    /\ \A p \in Paths : StatShape(cl_stat'[p])
           Calls == /\ CallShape(cl_call') /\ cl_call'.active \in 1 .. NumPath
                    /\ cl_post_turn' \in Nat
                    /\ cl_call'.pc # "idle" => cl_post_turn' < cl_call'.active
           Posted == cl_stat'[LastPath].posted = cl_stat[LastPath].posted
           Goal == /\ OnPaths(cl_active', cl_stat', cl_rec'.over, cl_call', cl_post_turn')
                   /\ TableShape(cl_table')
                   /\ cl_rec.at # "out" => cl_table'.next = cl_table.next
                   /\ cl_rec.over => cl_stat'[LastPath].posted = cl_stat[LastPath].posted
<1>0. /\ NumPath \in Nat /\ NumPath > 1 /\ TableLen \in Nat \ {0} /\ LastPath \in Paths
      /\ cl_active \in 1 .. NumPath
      /\ RecShape(cl_rec) /\ PhaseAt(cl_rec)
  BY TransferAssumption, FailoverAssumption DEF OnPaths, LastPath, Paths, Plane
<1>1. Kept => TableShape(cl_table') /\ cl_table'.next = cl_table.next
  BY DEF TableShape
<1>2. Polling => Stats /\ Posted
  <2>0. SUFFICES ASSUME Polling PROVE Stats /\ Posted
    OBVIOUS
  <2>1. CASE cl_stat' = cl_stat
    BY <2>1 DEF OnPaths
  <2>2. CASE \E t : cl_stat' = [cl_stat EXCEPT ![t] = Client!Polled(@, t)]
    <3>1. PICK t : cl_stat' = [cl_stat EXCEPT ![t] = Client!Polled(@, t)]
      BY <2>2
    <3>2. PICK s : s = Client!Polled(cl_stat[t], t)
      OBVIOUS
    <3>3. t \in Paths => StatShape(s) /\ s.posted = cl_stat[t].posted
      <4>1. PICK q : q = cl_stat[t]
        OBVIOUS
      <4>2. PICK x, y, z, u, v : s = [q EXCEPT !.polled = x, !.tot_pkt = y, !.qlen = z, !.comp_temp = u, !.wqe_idx = v]
        BY <3>2, <4>1, Zenon DEF Client!Polled
      <4>3. t \in Paths => StatShape(q)
        BY <4>1 DEF OnPaths
      <4>4. StatShape(q) => StatShape(s) /\ s.posted = q.posted
        BY <4>2 DEF StatShape
      <4> QED
        BY <4>1, <4>3, <4>4
    <3>4. cl_stat' = [cl_stat EXCEPT ![t] = s]
      BY <3>1, <3>2
    <3> QED
      BY <1>0, <3>3, <3>4 DEF OnPaths
  <2>3. CASE cl_stat' = [p \in Paths |->
                            IF p < cl_active
                              THEN [cl_stat[p] EXCEPT !.polled = @ - cl_table.wqe[cl_table.head].iter_each[p]]
                              ELSE cl_stat[p]]
    <3>1. ASSUME NEW p \in Paths, NEW x
          PROVE  LET s == [cl_stat[p] EXCEPT !.polled = x] IN StatShape(s) /\ s.posted = cl_stat[p].posted
      BY DEF StatShape, OnPaths
    <3>2. ASSUME NEW p \in Paths PROVE StatShape(cl_stat'[p]) /\ cl_stat'[p].posted = cl_stat[p].posted
      BY <2>3, <3>1 DEF OnPaths
    <3> QED
      BY <1>0, <2>3, <3>2
  <2> QED
    BY <2>0, <2>1, <2>2, <2>3
<1>3. KeptCall \/ Advance => Calls
  <2>0. SUFFICES ASSUME KeptCall \/ Advance PROVE Calls
    OBVIOUS
  <2>1. CASE KeptCall
    BY <2>1 DEF OnPaths
  <2>2. CASE Advance
    <3>1. cl_post_turn + 1 \in Nat /\ cl_call.active \in Nat \ {0}
      BY <1>0 DEF OnPaths
    <3>2. cl_post_turn' \in 0 .. cl_call.active - 1
      BY <2>2, <3>1, DivMod
    <3>3. CallShape(cl_call') /\ cl_call'.active = cl_call.active
      BY <2>2 DEF OnPaths, CallShape
    <3> QED
      BY <3>1, <3>2, <3>3 DEF OnPaths
  <2> QED
    BY <2>0, <2>1, <2>2
<1> DEFINE Pre == /\ Kept \/ (cl_rec.at = "out" /\ TableShape(cl_table'))
                  /\ Stats /\ (cl_rec.over => Posted) /\ Calls
                  /\ \/ cl_active' = cl_active /\ SameOver
                     \/ cl_active' = cl_active - 1 /\ ~cl_rec.over /\ cl_rec'.over
<1>4. Pre => Goal
  <2>0. SUFFICES ASSUME Pre PROVE Goal
    OBVIOUS
  <2>1. cl_active' = IF cl_rec'.over THEN NumPath - 1 ELSE NumPath
    BY <1>0, <2>0 DEF OnPaths
  <2>2. OnPaths(cl_active', cl_stat', cl_rec'.over, cl_call', cl_post_turn')
    BY <2>0, <2>1 DEF OnPaths
  <2> QED
    BY <1>1, <2>0, <2>2
<1> SUFFICES Goal
  OBVIOUS
<1> HIDE DEF Kept, SameOver, KeptCall, Advance, Polling, Stats, Calls, Posted, Goal
<1>5. CASE ClientPost
  <2>1. /\ cl_rec.at = "out" /\ SameOver /\ cl_active' = cl_active /\ Polling
        /\ \E n : cl_table' = [cl_table EXCEPT !.next = ClientRec!Wrap(@ + 1), !.sqn = @ + 1, !.wqe[cl_table.next] = n]
        /\ cl_post_turn' = cl_post_turn % cl_active
        /\ \E n : cl_call' = [pc |-> "post", i |-> 0, iter |-> n, active |-> cl_active]
    BY <1>5, Zenon DEF ClientPost, ClientRec!PostMessage, ClientRec!Post, ClientRec!StoreWr, SameOver, Polling
  <2>2. TableShape(cl_table')
    <3>1. PICK n : cl_table' = [cl_table EXCEPT !.next = ClientRec!Wrap(@ + 1), !.sqn = @ + 1, !.wqe[cl_table.next] = n]
      BY <2>1
    <3>2. PICK x, y, z : /\ cl_table' = [cl_table EXCEPT !.next = x, !.sqn = y, !.wqe = z]
                         /\ x = ClientRec!Wrap(cl_table.next + 1)
      BY <3>1 DEF TableShape
    <3>3. x \in 0 .. TableLen - 1
      BY <1>0, <3>2 DEF ClientRec!Wrap, TableShape
    <3> QED
      BY <3>2, <3>3 DEF TableShape
  <2>3. Calls
    <3>1. cl_post_turn' \in 0 .. cl_active - 1
      BY <1>0, <2>1, DivMod DEF OnPaths
    <3>2. CallShape(cl_call') /\ cl_call'.active = cl_active
      BY <2>1 DEF CallShape
    <3> QED
      BY <1>0, <3>1, <3>2 DEF Calls
  <2> QED
    BY <1>2, <1>4, <2>1, <2>2, <2>3
<1>6. CASE ClientPostPacket
  <2>1. /\ SameOver /\ cl_active' = cl_active /\ Kept
        /\ cl_active = cl_call.active /\ cl_call.pc = "post"
        /\ cl_stat' = [cl_stat EXCEPT ![cl_post_turn].posted = @ + 1, ![cl_post_turn].qlen = @ + 1]
        /\ \/ cl_call' = [cl_call EXCEPT !.pc = "drain"] /\ cl_post_turn' = cl_post_turn
           \/ Client!NextPacket
    BY <1>6 DEF ClientPostPacket, ClientPacket, Client!PostPacket, clRec, Kept, SameOver
  <2>2. Calls
    <3>1. CASE Client!NextPacket
      BY <1>3, <2>1, <3>1 DEF Client!NextPacket, Advance
    <3>2. CASE cl_call' = [cl_call EXCEPT !.pc = "drain"] /\ cl_post_turn' = cl_post_turn
      BY <2>1, <3>2 DEF OnPaths, CallShape, Calls
    <3> QED
      BY <2>1, <3>1, <3>2
  <2>3. cl_post_turn \in 0 .. cl_active - 1 /\ cl_active \in 1 .. NumPath
    <3>1. cl_post_turn \in Nat /\ cl_post_turn < cl_call.active
      BY <2>1 DEF OnPaths
    <3> QED
      BY <1>0, <2>1, <3>1
  <2>4. Stats
    <3>1. PICK x, y : /\ cl_stat' = [cl_stat EXCEPT ![cl_post_turn] = [@ EXCEPT !.posted = x, !.qlen = y]]
      BY <2>1
    <3>2. cl_post_turn \in Paths
      BY <1>0, <2>3 DEF Paths
    <3>3. PICK q, s : q = cl_stat[cl_post_turn] /\ s = [q EXCEPT !.posted = x, !.qlen = y]
      OBVIOUS
    <3>4. StatShape(q)
      BY <3>2, <3>3 DEF OnPaths
    <3>5. StatShape(s) /\ cl_stat' = [cl_stat EXCEPT ![cl_post_turn] = s]
      BY <3>1, <3>3, <3>4 DEF StatShape
    <3> QED
      BY <3>2, <3>5 DEF OnPaths, Stats
  <2>5. cl_rec.over => cl_post_turn # LastPath
    BY <1>0, <2>3 DEF OnPaths, LastPath
  <2>6. cl_rec.over => Posted
    BY <1>0, <2>1, <2>5 DEF OnPaths, Posted
  <2> QED
    BY <1>4, <2>1, <2>2, <2>4, <2>6
<1>7. CASE ClientCutShort
  <2>1. /\ SameOver /\ cl_active' = cl_active /\ Kept /\ Polling
        /\ cl_call' = [cl_call EXCEPT !.pc = "idle"] /\ cl_post_turn' = 0
    BY <1>7 DEF ClientCutShort, ClientRec!CutShort, ClientRec!recVars, Kept, SameOver, Polling
  <2>2. Calls
    BY <2>1 DEF OnPaths, CallShape, Calls
  <2> QED
    BY <1>2, <1>4, <2>1, <2>2
<1>8. CASE ClientPoll
  <2>1. SameOver /\ cl_active' = cl_active
    BY <1>0, <1>8 DEF ClientPoll, ClientRec!PlainPoll, ClientRec!DrainPoll, ClientRec!PollComplete, ClientRec!PollProgress, RecShape, SameOver
  <2>3. CASE ClientRec!DrainPoll
    <3>1. Polling
      BY <2>3, Zenon DEF ClientRec!DrainPoll, ClientRec!InnerPoll, ClientRec!Polled, Client!Polled, ClientRec!Wrap, Client!Wrap, Polling
    <3>2. Kept /\ (KeptCall \/ Advance)
      BY <2>3 DEF ClientRec!DrainPoll, ClientRec!NextPacket, Kept, KeptCall, Advance
    <3> QED
      BY <1>2, <1>3, <1>4, <2>1, <3>1, <3>2
  <2>4. CASE ClientRec!PollComplete
    <3>1. Polling /\ KeptCall
      BY <2>4 DEF ClientRec!PollComplete, ClientRec!Paths, Paths, KeptCall, Polling
    <3>2. Kept
      BY <2>4 DEF ClientRec!PollComplete, TableShape, Kept
    <3> QED
      BY <1>2, <1>3, <1>4, <2>1, <3>1, <3>2
  <2>5. CASE ClientRec!PollProgress
    <3>1. Polling /\ Kept /\ KeptCall
      BY <2>5, Zenon DEF ClientRec!PollProgress, ClientRec!InnerPoll, ClientRec!Polled, Client!Polled, ClientRec!Wrap, Client!Wrap, Kept, KeptCall, Polling
    <3> QED
      BY <1>2, <1>3, <1>4, <2>1, <3>1
  <2> QED
    BY <1>8, <2>3, <2>4, <2>5 DEF ClientPoll, ClientRec!PlainPoll
<1>10. CASE ClientRecovers
  <2>1. CASE ClientRec!TakeReport \/ ClientRec!Told \/ ClientRec!Sync \/ ClientRec!ResendPacket \/ ClientRec!AllResent \/ ClientRec!StartResend
    <3>1. Polling /\ Kept /\ KeptCall /\ cl_active' = cl_active
      BY <2>1, Zenon DEF ClientRec!TakeReport, ClientRec!Told, ClientRec!Sync, ClientRec!ResendPacket, ClientRec!AllResent, ClientRec!StartResend, ClientRec!vars, Kept, KeptCall, Polling
    <3>2. SameOver
      <4>1. CASE ClientRec!TakeReport \/ ClientRec!Told \/ ClientRec!Sync
        BY <1>0, <4>1 DEF ClientRec!TakeReport, ClientRec!Told, ClientRec!Sync, RecShape, SameOver
      <4>2. CASE ClientRec!ResendPacket
        BY <1>0, <4>2 DEF ClientRec!ResendPacket, ClientRec!NextResend, RecShape, SameOver
      <4>3. CASE ClientRec!AllResent \/ ClientRec!StartResend
        <5>1. PICK r : r = ClientRec!Acked
          OBVIOUS
        <5>2. RecShape(r) /\ r.over = cl_rec.over
          BY <1>0, <5>1 DEF ClientRec!Acked, RecShape
        <5>3. CASE ClientRec!AllResent
          BY <5>1, <5>2, <5>3 DEF ClientRec!AllResent, RecShape, SameOver
        <5>4. CASE ClientRec!StartResend
          <6>1. \/ cl_rec' = [r EXCEPT !.at = "crash"]
                \/ \E iter, turn, at, post :
                     cl_rec' = [r EXCEPT !.i = 0, !.iter = iter, !.turn = turn, !.at = at, !.post = post]
            <7>1. CASE cl_slot[r.post].len = 0
              BY <5>1, <5>4, <7>1 DEF ClientRec!StartResend, SameOver
            <7>2. CASE cl_slot[r.post].len # 0
              <8> DEFINE n == ClientRec!Iter(ClientRec!Portion(r.post), cl_active - 1)
              <8>1. cl_rec' = [r EXCEPT !.i = 0, !.iter = n, !.turn = @ % (cl_active - 1),
                                        !.at = IF n = 0 THEN "polls" ELSE "resend",
                                        !.post = IF n = 0 THEN @ + 1 ELSE @]
                BY <5>1, <5>4, <7>2 DEF ClientRec!StartResend
              <8>2. PICK iter, turn, at, post :
                      /\ iter = n /\ turn = r.turn % (cl_active - 1)
                      /\ at = (IF n = 0 THEN "polls" ELSE "resend")
                      /\ post = (IF n = 0 THEN r.post + 1 ELSE r.post)
                OBVIOUS
              <8> QED
                BY <5>2, <8>1, <8>2 DEF RecShape, SameOver
            <7> QED
              BY <7>1, <7>2, Zenon DEF SameOver
          <6> QED
            BY <5>2, <6>1 DEF RecShape, SameOver
        <5> QED
          BY <4>3, <5>3, <5>4 DEF SameOver
      <4> QED
        BY <2>1, <4>1, <4>2, <4>3 DEF SameOver
    <3> QED
      BY <1>2, <1>3, <1>4, <3>1, <3>2
  <2>2. CASE ClientRec!Clear
    <3>1. Polling
      BY <2>2, Zenon DEF ClientRec!Clear, ClientRec!InnerPoll, ClientRec!Polled, Client!Polled, ClientRec!Wrap, Client!Wrap, Polling
    <3>2. Kept /\ KeptCall /\ cl_active' = cl_active
      BY <2>2 DEF ClientRec!Clear, Kept, KeptCall
    <3>3. SameOver
      <4>1. cl_rec' = cl_rec \/ \E at, msg : cl_rec' = [cl_rec EXCEPT !.at = at, !.msg = msg]
        BY <2>2 DEF ClientRec!Clear
      <4> QED
        BY <1>0, <4>1 DEF RecShape, SameOver
    <3> QED
      BY <1>2, <1>3, <1>4, <3>1, <3>2, <3>3
  <2>3. CASE ClientRec!ResendDrain
    <3>1. PICK c, rr : c = ClientRec!Counted(cl_rec) /\ rr = ClientRec!NextResend(c)
      OBVIOUS
    <3>2. cl_rec' = rr /\ ClientRec!RecoveryPoll(rr) /\ Polling /\ KeptCall /\ cl_active' = cl_active
      BY <2>3, <3>1 DEF ClientRec!ResendDrain, ClientRec!RecoveryPoll, KeptCall, Polling
    <3>3. RecShape(c) /\ c.over = cl_rec.over
      BY <1>0, <3>1 DEF ClientRec!Counted, ClientRec!CountPacket, RecShape
    <3>4. SameOver
      BY <3>1, <3>2, <3>3 DEF ClientRec!NextResend, RecShape, SameOver
    <3>5. Kept
      <4>1. cl_table' = cl_table \/ \E x : cl_table' = [cl_table EXCEPT !.wqe[cl_rec.poll].iter_each[x] = 0]
        BY <3>2 DEF ClientRec!RecoveryPoll
      <4>2. cl_table' = cl_table \/ \E w : cl_table' = [cl_table EXCEPT !.wqe = w]
        BY <4>1
      <4>3. \A w : [cl_table EXCEPT !.wqe = w] = [cl_table EXCEPT !.wqe = w, !.head = cl_table.head]
        BY DEF TableShape
      <4> QED
        BY <4>2, <4>3 DEF Kept
    <3> QED
      BY <1>2, <1>3, <1>4, <3>2, <3>4, <3>5
  <2>4. CASE ClientRec!Finish
    <3>1. PICK r : r = ClientRec!Acked
      OBVIOUS
    <3>2. RecShape(r)
      BY <1>0, <3>1 DEF ClientRec!Acked, RecShape
    <3>3. /\ cl_rec' = [r EXCEPT !.at = "sync", !.flag = FALSE, !.listening = FALSE, !.over = TRUE]
          /\ cl_active' = cl_active - 1 /\ cl_rec.flag
          /\ Polling /\ Kept /\ KeptCall
      BY <2>4, <3>1 DEF ClientRec!Finish, ClientRec!InPass, KeptCall, Polling, Kept
    <3>4. cl_rec'.over /\ ~cl_rec.over
      BY <1>0, <3>2, <3>3 DEF RecShape, PhaseAt
    <3> QED
      BY <1>2, <1>3, <1>4, <3>3, <3>4
  <2>5. CASE ClientRec!PassReports
    <3>1. Polling /\ KeptCall /\ cl_active' = cl_active
      BY <2>5 DEF ClientRec!PassReports, ClientRec!PollComplete, ClientRec!Paths, Paths, KeptCall, Polling
    <3>2. Kept
      BY <2>5 DEF ClientRec!PassReports, ClientRec!PollComplete, TableShape, Kept
    <3>3. SameOver
      BY <1>0, <2>5 DEF ClientRec!PassReports, RecShape, SameOver
    <3> QED
      BY <1>2, <1>3, <1>4, <3>1, <3>2, <3>3
  <2>6. CASE ClientRec!PassPolls
    <3>1. Polling
      BY <2>6, Zenon DEF ClientRec!PassPolls, ClientRec!InnerPoll, ClientRec!Polled, Client!Polled, ClientRec!Wrap, Client!Wrap, Polling
    <3>2. cl_active' = cl_active /\ (KeptCall \/ Advance)
      BY <2>6 DEF ClientRec!PassPolls, ClientRec!NextPacket, KeptCall, Advance
    <3>3. CASE cl_rec.flag
      <4>1. PICK r : r = [cl_rec EXCEPT !.at = "pass"]
        OBVIOUS
      <4>2. PICK c : c = ClientRec!Counted(r)
        OBVIOUS
      <4>3. ClientRec!RecoveryPoll(c)
        BY <2>6, <3>3, <4>1, <4>2 DEF ClientRec!PassPolls
      <4>4. SameOver
        <5>1. RecShape(r) /\ r.over = cl_rec.over
          BY <1>0, <4>1 DEF RecShape
        <5>2. c.over = cl_rec.over
          BY <4>2, <5>1 DEF ClientRec!Counted, ClientRec!CountPacket, RecShape
        <5> QED
          BY <4>3, <5>2 DEF ClientRec!RecoveryPoll, SameOver
      <4>5. Kept
        <5>1. cl_table' = cl_table \/ \E x : cl_table' = [cl_table EXCEPT !.wqe[cl_rec.poll].iter_each[x] = 0]
          BY <4>3 DEF ClientRec!RecoveryPoll
        <5>2. cl_table' = cl_table \/ \E w : cl_table' = [cl_table EXCEPT !.wqe = w]
          BY <5>1
        <5>3. \A w : [cl_table EXCEPT !.wqe = w] = [cl_table EXCEPT !.wqe = w, !.head = cl_table.head]
          BY DEF TableShape
        <5> QED
          BY <5>2, <5>3 DEF Kept
      <4> QED
        BY <1>2, <1>3, <1>4, <3>1, <3>2, <4>4, <4>5
    <3>4. CASE ~ cl_rec.flag
      <4>1. Kept /\ cl_rec' = [cl_rec EXCEPT !.at = "out"]
        BY <2>6, <3>4 DEF ClientRec!PassPolls, Kept
      <4>2. SameOver
        BY <1>0, <4>1 DEF RecShape, SameOver
      <4> QED
        BY <1>2, <1>3, <1>4, <3>1, <3>2, <4>1, <4>2
    <3> QED
      BY <3>3, <3>4
  <2> QED
    BY <1>10, <2>1, <2>2, <2>3, <2>4, <2>5, <2>6 DEF ClientRecovers, ClientRec!RecoveryStep
<1> QED
  BY <1>5, <1>6, <1>7, <1>8, <1>10 DEF ClientNext

-----------------------------------------------------------------------------
(***************************************************************************)
(* What the client says to the server: the acknowledgement, then what it   *)
(* resends.  Of two paths the one that is left keeps the order, so that    *)
(* the acknowledgement is the first to arrive; of more paths that is so as *)
(* long as nothing has gone astray.                                        *)
(***************************************************************************)
IsQueue(q) == \E S : q \in Seq(S)

(* What a queue is after one more item, and ...                             *)
LEMMA Grows ==
  ASSUME NEW q, IsQueue(q), NEW x
  PROVE  /\ IsQueue(Append(q, x)) /\ Append(q, x) # <<>>
         /\ Len(q) \in Nat /\ Len(Append(q, x)) = Len(q) + 1
         /\ \A j \in 1 .. Len(q) : Append(q, x)[j] = q[j]
         /\ Append(q, x)[Len(q) + 1] = x
         /\ Head(Append(q, x)) = IF q = <<>> THEN x ELSE Head(q)
<1>1. PICK S : q \in Seq(S)
  BY DEF IsQueue
<1>2. PICK T : T = S \cup {x}
  OBVIOUS
<1>3. q \in Seq(T) /\ x \in T
  BY <1>1, <1>2
<1>4. /\ Append(q, x) \in Seq(T) /\ Append(q, x) # <<>>
      /\ Len(Append(q, x)) = Len(q) + 1
      /\ \A j \in 1 .. Len(q) : Append(q, x)[j] = q[j]
      /\ Append(q, x)[Len(q) + 1] = x
  BY <1>3, AppendProperties
<1>5. Head(Append(q, x)) = IF q = <<>> THEN x ELSE Head(q)
  BY <1>3, HeadTailAppend
<1> QED
  BY <1>3, <1>4, <1>5 DEF IsQueue

(* ... without its first one. *)
LEMMA Shrinks ==
  ASSUME NEW q, IsQueue(q), q # <<>>
  PROVE  /\ IsQueue(Tail(q)) /\ Len(q) \in Nat \ {0} /\ Len(Tail(q)) = Len(q) - 1
         /\ \A j \in 1 .. Len(Tail(q)) : Tail(q)[j] = q[j + 1]
         /\ Head(q) = q[1]
<1>1. PICK S : q \in Seq(S)
  BY DEF IsQueue
<1>2. /\ Tail(q) \in Seq(S) /\ Len(Tail(q)) = Len(q) - 1
      /\ \A j \in 1 .. Len(Tail(q)) : Tail(q)[j] = q[j + 1]
  BY <1>1, HeadTailProperties
<1>3. Len(q) \in Nat \ {0} /\ Head(q) = q[1]
  BY <1>1
<1> QED
  BY <1>2, <1>3 DEF IsQueue

(* The later of two WQEs is the same from either side. *)
LEMMA LastOfBoth ==
  ASSUME NEW x \in -1 .. TableLen - 1, NEW y \in -1 .. TableLen - 1
  PROVE  ClientRec!LastOf(x, y) = ServerRec!LastOf(y, x)
BY TransferAssumption DEF ClientRec!LastOf, ServerRec!LastOf, ClientRec!Above, ServerRec!Above

Answered(cr) == Phase(cr) \in {"told", "on", "over"}

(* v is the end of the range for the client, cn the slot of its next WQE.   *)
Agreed(v, cr, cn, R) ==
  v = IF Phase(cr) = "told" THEN ServerRec!LastOf(R, cn - 1) ELSE cr.max

IsAnswer(x, cr, cn, R) ==
  \/ x.kind = "data"
  \/ x.kind = "ack" /\ Agreed(ServerRec!LastOf(R, x.body.max), cr, cn, R)

Answers1(q, cr, cn, R) ==
  /\ IsQueue(q)
  /\ \A j \in 1 .. Len(q) : IsAnswer(q[j], cr, cn, R)

AckFirst(cr, out, net0) ==
  NumPath = 2 /\ Answered(cr) =>
    IF net0 # <<>> THEN Head(net0).kind = "ack"
                   ELSE out # <<>> /\ Head(out).kind = "ack" /\ Head(out).path = 0

Straight(st) == NumPath = 2 \/ ~st

(* Before the receive for the acknowledgement is posted, ...                *)
AckToAsk(r, s, cr, out, net) ==
  /\ Phase(r) \in {"none", "clear", "told"}
  /\ s.rq = <<>> /\ s.rcq = 0 /\ ~ r.got
  /\ AckFirst(cr, out, net[0])

(* ... before it is filled, ...                                             *)
AckToCome(r, s, cr, out, net) ==
  /\ Phase(r) = "on"
  /\ s.rq # <<>> /\ Head(s.rq).kind = "ack" /\ s.rcq = 0 /\ ~ r.got
  /\ r.max = r.msg.max
  /\ AckFirst(cr, out, net[0])

(* ... and afterwards. *)
AckHasCome(r, s, cr, cn, st) ==
  /\ Phase(r) \in {"on", "over"} /\ Answered(cr)
  /\ Straight(st) =>
       /\ Agreed(ServerRec!LastOf(r.msg.max, s.buf.max), cr, cn, r.msg.max)
       /\ IF r.got THEN Agreed(r.max, cr, cn, r.msg.max) ELSE r.max = r.msg.max

ToServer(r, s, sn, cr, out, net, cn, st) ==
  /\ IsQueue(s.rq)
  /\ Answers1(out, cr, cn, r.msg.max)
  /\ net = [p \in Survivors |-> net[p]]
  /\ \A p \in Survivors : Answers1(net[p], cr, cn, r.msg.max)
  /\ Phase(r) \in {"told", "on", "over"} => r.msg.max \in -1 .. TableLen - 1
  /\ Phase(r) = "told" => r.msg.max = sn - 1
  /\ ~ Answered(cr) => out = <<>> /\ \A p \in Survivors : net[p] = <<>>
  /\ \/ AckToAsk(r, s, cr, out, net)
     \/ AckToCome(r, s, cr, out, net)
     \/ AckHasCome(r, s, cr, cn, st)

(* The server takes a step. *)
LEMMA ServerGets ==
  ASSUME NEW r, NEW s, NEW sn, NEW cr, NEW out, NEW net, NEW cn, NEW st,
         NEW r2, NEW s2, NEW sn2,
         PhaseAt(r), PhaseAt(r2), sn \in 0 .. TableLen - 1,
         r.at # "out" => sn2 = sn,
         Answered(cr) => Phase(r) \in {"told", "on", "over"},
         ToServer(r, s, sn, cr, out, net, cn, st), ServerMove(r, s, sn, r2, s2), RepShape(s)
  PROVE  ToServer(r2, s2, sn2, cr, out, net, cn, st)
<1>0. 0 \in Survivors /\ TableLen \in Nat
  BY TransferAssumption, FailoverAssumption DEF Survivors
<1>1. CASE ServerAlone(r, s, sn, r2, s2)
  <2>1. /\ Phase(r2) = Phase(r) /\ r2.msg = r.msg /\ r2.max = r.max /\ r2.got = r.got
        /\ s2.rq = s.rq /\ s2.rcq = s.rcq /\ s2.buf = s.buf
    BY <1>1 DEF ServerAlone, SameRep
  <2>2. Phase(r) = "told" => sn2 = sn
    BY DEF Phase, PhaseAt
  <2> QED
    BY <2>1, <2>2 DEF ToServer, AckToAsk, AckToCome, AckHasCome
<1>2. CASE Detects(r, s, sn, r2, s2)
  <2>1. /\ Phase(r) = "none" /\ Phase(r2) = "clear" /\ r2.msg = r.msg /\ r2.max = r.max /\ r2.got = r.got
        /\ s2.rq = s.rq /\ s2.rcq = s.rcq /\ s2.buf = s.buf
    BY <1>2 DEF Detects, SameRep, SameRec
  <2> QED
    BY <2>1 DEF ToServer, AckToAsk, AckToCome, AckHasCome
<1>3. CASE Reports(r, s, sn, r2, s2)
  <2>1. /\ Phase(r) = "clear" /\ Phase(r2) = "told" /\ r2.msg.max = sn - 1 /\ r2.got = r.got
        /\ s2.rq = s.rq /\ s2.rcq = s.rcq /\ s2.buf = s.buf
    BY <1>3 DEF Reports, RepShape
  <2>2. ~ Answered(cr) /\ sn2 = sn
    BY <2>1 DEF Phase
  <2>3. out = <<>> /\ \A p \in Survivors : net[p] = <<>>
    BY <2>2 DEF ToServer
  <2>4. \A R : Answers1(<<>>, cr, cn, R)
    BY DEF Answers1, IsQueue
  <2>5. AckToAsk(r2, s2, cr, out, net)
    BY <2>1, <2>2 DEF ToServer, AckToAsk, AckToCome, AckHasCome, AckFirst
  <2>6. r2.msg.max \in -1 .. TableLen - 1
    BY <1>0, <2>1
  <2> QED
    BY <2>1, <2>2, <2>3, <2>4, <2>5, <2>6 DEF ToServer
<1>4. CASE AwaitsAck(r, s, sn, r2, s2)
  <2>1. /\ Phase(r) = "told" /\ Phase(r2) = "on" /\ r2.msg = r.msg /\ r2.max = sn - 1 /\ r2.got = r.got
        /\ s2.rq = Append(s.rq, Control("ack", NoReport)) /\ s2.rcq = s.rcq
    BY <1>4 DEF AwaitsAck
  <2>2. r.msg.max = sn - 1 /\ AckToAsk(r, s, cr, out, net)
    BY <2>1 DEF ToServer, AckToCome, AckHasCome
  <2>3. s.rq = <<>> /\ IsQueue(s.rq)
    BY <2>2 DEF AckToAsk, ToServer
  <2>4. IsQueue(s2.rq) /\ s2.rq # <<>> /\ Head(s2.rq) = Control("ack", NoReport)
    <3>1. PICK q, a : q = s.rq /\ a = Control("ack", NoReport)
      OBVIOUS
    <3>3. q = <<>> /\ IsQueue(q)
      BY <2>3, <3>1
    <3>2. IsQueue(Append(q, a)) /\ Append(q, a) # <<>> /\ Head(Append(q, a)) = a
      BY <3>3, Grows
    <3> QED
      BY <2>1, <3>1, <3>2
  <2>5. AckToCome(r2, s2, cr, out, net)
    BY <2>1, <2>2, <2>4 DEF AckToCome, AckToAsk, Control
  <2> QED
    BY <2>1, <2>4, <2>5 DEF ToServer
<1>5. CASE ServerWorks(r, s, sn, r2, s2) \/ ServerEnds(r, s, sn, r2, s2)
  <2>1. /\ Phase(r) = "on" /\ Phase(r2) \in {"on", "over"} /\ (Phase(r2) = "over" => r2.got)
        /\ r2.msg = r.msg /\ s2.buf = s.buf
    BY <1>5 DEF ServerWorks, ServerEnds
  <2>2. CASE s2.rq = s.rq /\ ReadsAck(r, s, r2, s2)
    <3>1. CASE AckToCome(r, s, cr, out, net)
      <4>1. r2.got = r.got /\ r2.max = r.max /\ s2.rcq = s.rcq
        BY <2>2, <3>1 DEF AckToCome, ReadsAck
      <4>2. AckToCome(r2, s2, cr, out, net)
        BY <2>1, <2>2, <3>1, <4>1 DEF AckToCome
      <4> QED
        BY <2>1, <2>2, <4>2 DEF ToServer
    <3>2. CASE AckHasCome(r, s, cr, cn, st)
      <4>1. AckHasCome(r2, s2, cr, cn, st)
        <5>1. CASE r2.got = r.got /\ r2.max = r.max
          BY <2>1, <3>2, <5>1 DEF AckHasCome
        <5>2. CASE ~ r.got /\ r2.got /\ r2.max = ServerRec!LastOf(r.max, s.buf.max)
          BY <2>1, <3>2, <5>2 DEF AckHasCome
        <5> QED
          BY <2>2, <5>1, <5>2 DEF ReadsAck
      <4> QED
        BY <2>1, <2>2, <4>1 DEF ToServer
    <3> QED
      BY <2>1, <3>1, <3>2 DEF ToServer, AckToAsk
  <2>3. CASE /\ Phase(r2) = "on" /\ r2.got = r.got /\ r2.max = r.max /\ s.rcq > 0 /\ s2.rq = s.rq
    <3>1. AckHasCome(r, s, cr, cn, st)
      BY <2>1, <2>3 DEF ToServer, AckToAsk, AckToCome
    <3>2. AckHasCome(r2, s2, cr, cn, st)
      BY <2>1, <2>3, <3>1 DEF AckHasCome
    <3> QED
      BY <2>1, <2>3, <3>2 DEF ToServer
  <2>4. CASE /\ Phase(r2) = "on" /\ r2.got = r.got /\ r2.max = r.max /\ s2.rcq = s.rcq
             /\ \E item : s2.rq = Append(s.rq, item)
    <3>1. PICK item : s2.rq = Append(s.rq, item)
      BY <2>4
    <3>2. IsQueue(s2.rq) /\ s2.rq # <<>> /\ (s.rq # <<>> => Head(s2.rq) = Head(s.rq))
      <4>1. IsQueue(s.rq)
        BY DEF ToServer
      <4>2. PICK q, q2 : q = s.rq /\ q2 = s2.rq
        OBVIOUS
      <4>3. IsQueue(q) /\ q2 = Append(q, item)
        BY <3>1, <4>1, <4>2
      <4>4. IsQueue(q2) /\ q2 # <<>> /\ Head(q2) = IF q = <<>> THEN item ELSE Head(q)
        BY ONLY <4>3, Grows
      <4> QED
        BY <4>2, <4>4
    <3>3. AckToCome(r, s, cr, out, net) => AckToCome(r2, s2, cr, out, net)
      BY <2>1, <2>4, <3>2 DEF AckToCome
    <3>4. AckHasCome(r, s, cr, cn, st) => AckHasCome(r2, s2, cr, cn, st)
      BY <2>1, <2>4 DEF AckHasCome
    <3> QED
      BY <2>1, <3>2, <3>3, <3>4 DEF ToServer, AckToAsk
  <2> QED
    BY <1>5, <2>2, <2>3, <2>4 DEF ServerWorks, ServerEnds
<1> QED
  BY <1>1, <1>2, <1>3, <1>4, <1>5 DEF ServerMove

(* The client takes a step. *)
LEMMA ClientSays ==
  ASSUME NEW r, NEW s, NEW sn, NEW cr, NEW cs, NEW net, NEW cn, NEW st,
         NEW cr2, NEW cs2, NEW cn2,
         PhaseAt(cr), PhaseAt(cr2), cn \in 0 .. TableLen - 1,
         cr.at # "out" => cn2 = cn,
         Answered(cr) => Phase(r) \in {"told", "on", "over"} /\ cr.msg = r.msg,
         ToServer(r, s, sn, cr, cs.sq, net, cn, st), ClientMove(cr, cs, cn, cr2, cs2), RepShape(cs)
  PROVE  ToServer(r, s, sn, cr2, cs2.sq, net, cn2, st)
<1>0. 0 \in Survivors /\ TableLen \in Nat
  BY TransferAssumption, FailoverAssumption DEF Survivors
<1>1. ASSUME Phase(cr2) = Phase(cr) \/ (~ Answered(cr) /\ ~ Answered(cr2)), cr2.max = cr.max, cs2.sq = cs.sq
      PROVE  ToServer(r, s, sn, cr2, cs2.sq, net, cn2, st)
  <2>1. Answered(cr2) = Answered(cr)
    BY <1>1 DEF Answered
  <2>2. Phase(cr) = "told" => cn2 = cn
    BY DEF Phase, PhaseAt
  <2>3. ASSUME Answered(cr), NEW v, NEW R, Agreed(v, cr, cn, R) PROVE Agreed(v, cr2, cn2, R)
    BY <1>1, <2>2, <2>3 DEF Agreed, Answered
  <2>4. ASSUME NEW q, NEW R, Answers1(q, cr, cn, R), Answered(cr) \/ q = <<>> PROVE Answers1(q, cr2, cn2, R)
    <3>1. CASE q = <<>>
      BY <3>1 DEF Answers1, IsQueue
    <3>2. CASE Answered(cr)
      BY <2>3, <2>4, <3>2 DEF Answers1, IsAnswer
    <3> QED
      BY <2>4, <3>1, <3>2
  <2>5. Answers1(cs2.sq, cr2, cn2, r.msg.max) /\ \A p \in Survivors : Answers1(net[p], cr2, cn2, r.msg.max)
    BY <1>1, <2>4 DEF ToServer
  <2>6. AckToAsk(r, s, cr, cs.sq, net) => AckToAsk(r, s, cr2, cs2.sq, net)
    BY <1>1, <2>1 DEF AckToAsk, AckFirst
  <2>7. AckToCome(r, s, cr, cs.sq, net) => AckToCome(r, s, cr2, cs2.sq, net)
    BY <1>1, <2>1 DEF AckToCome, AckFirst
  <2>8. AckHasCome(r, s, cr, cn, st) => AckHasCome(r, s, cr2, cn2, st)
    BY <2>1, <2>3 DEF AckHasCome
  <2> QED
    BY <1>1, <2>1, <2>5, <2>6, <2>7, <2>8 DEF ToServer
<1>2. CASE ClientAlone(cr, cs, cn, cr2, cs2)
  BY <1>1, <1>2 DEF ClientAlone, SameRec, SameRep
<1>3. CASE Listens(cr, cs, cn, cr2, cs2)
  <2>1. Phase(cr2) = Phase(cr) /\ cr2.max = cr.max /\ cs2.sq = cs.sq
    BY <1>3 DEF Listens, RepShape
  <2> QED
    BY <1>1, <2>1
<1>4. CASE IsTold(cr, cs, cn, cr2, cs2)
  <2>1. Phase(cr) = "none" /\ Phase(cr2) = "clear" /\ cr2.max = cr.max /\ cs2.sq = cs.sq
    BY <1>4 DEF IsTold, RepShape
  <2> QED
    BY <1>1, <2>1 DEF Answered
<1>5. CASE ClientEnds(cr, cs, cn, cr2, cs2)
  <2>1. Phase(cr) = "on" /\ Phase(cr2) = "over" /\ cr2.max = cr.max /\ cs2.sq = cs.sq
    BY <1>5 DEF ClientEnds, RepShape
  <2>2. Answered(cr) /\ Answered(cr2) /\ \A v, R : Agreed(v, cr2, cn2, R) <=> Agreed(v, cr, cn, R)
    BY <2>1 DEF Answered, Agreed
  <2> QED
    BY <2>1, <2>2 DEF ToServer, Answers1, IsAnswer, AckToAsk, AckToCome, AckHasCome, AckFirst
<1>6. CASE IsReleased(cr, cs, cn, cr2, cs2)
  <2>1. Phase(cr) = "over" /\ Phase(cr2) = "over" /\ cr2.max = cr.max /\ cs2.sq = cs.sq
    BY <1>6 DEF IsReleased, SameRec, RepShape
  <2> QED
    BY <1>1, <2>1
<1>7. CASE Answers(cr, cs, cn, cr2, cs2)
  <2>1. PICK body : body.max = cn - 1 /\ cs2 = [cs EXCEPT !.sq = Append(@, Control("ack", body))]
    BY <1>7 DEF Answers
  <2>2. PICK a : a = Control("ack", body)
    OBVIOUS
  <2>3. /\ Phase(cr) = "clear" /\ Phase(cr2) = "told" /\ cr2.max = cr.max /\ cs2.sq = Append(cs.sq, a)
        /\ cn2 = cn /\ ~ Answered(cr) /\ Answered(cr2)
    BY <1>7, <2>1, <2>2 DEF Answers, SameRec, RepShape, Phase, Answered
  <2>4. cs.sq = <<>> /\ \A p \in Survivors : net[p] = <<>>
    BY <2>3 DEF ToServer
  <2>5. IsQueue(<<>>) /\ Len(<<>>) = 0
    BY DEF IsQueue
  <2>6. /\ IsQueue(cs2.sq) /\ cs2.sq # <<>> /\ Head(cs2.sq) = a
        /\ Len(cs2.sq) = 1 /\ cs2.sq[1] = a
    <3>1. PICK q : q = cs.sq
      OBVIOUS
    <3>2. IsQueue(q) /\ Len(q) = 0 /\ q = <<>> /\ cs2.sq = Append(q, a)
      BY <2>3, <2>4, <2>5, <3>1
    <3>3. IsQueue(Append(q, a)) /\ Append(q, a) # <<>> /\ Head(Append(q, a)) = a
      BY <3>2, Grows
    <3>4. Len(Append(q, a)) = Len(q) + 1 /\ Append(q, a)[Len(q) + 1] = a
      BY <3>2, Grows
    <3> QED
      BY <3>2, <3>3, <3>4
  <2>7. a.kind = "ack" /\ a.path = 0 /\ a.body.max = cn - 1
    BY <2>1, <2>2 DEF Control
  <2>8. IsAnswer(a, cr2, cn2, r.msg.max)
    BY <2>3, <2>7 DEF IsAnswer, Agreed
  <2>9. Answers1(cs2.sq, cr2, cn2, r.msg.max) /\ Answers1(<<>>, cr2, cn2, r.msg.max)
    BY <2>5, <2>6, <2>8 DEF Answers1
  <2>10. AckFirst(cr2, cs2.sq, net[0])
    BY <1>0, <2>4, <2>6, <2>7 DEF AckFirst
  <2> QED
    BY <2>3, <2>4, <2>9, <2>10 DEF ToServer, AckToAsk, AckToCome, AckHasCome
<1>8. CASE SetsOut(cr, cs, cn, cr2, cs2)
  <2>1. /\ Phase(cr) = "told" /\ Phase(cr2) = "on" /\ cs2.sq = cs.sq
        /\ cr2.max = ClientRec!LastOf(cn - 1, cr.msg.max)
    BY <1>8 DEF SetsOut, SameRep
  <2>2. Answered(cr) /\ Answered(cr2) /\ cr.msg = r.msg /\ r.msg.max \in -1 .. TableLen - 1
    BY <2>1 DEF Answered, ToServer
  <2>3. cr2.max = ServerRec!LastOf(r.msg.max, cn - 1)
    BY <1>0, <2>1, <2>2, LastOfBoth
  <2>4. \A v : Agreed(v, cr2, cn2, r.msg.max) <=> Agreed(v, cr, cn, r.msg.max)
    BY <2>1, <2>3 DEF Agreed
  <2> QED
    BY <2>1, <2>2, <2>4 DEF ToServer, Answers1, IsAnswer, AckToAsk, AckToCome, AckHasCome, AckFirst
<1>9. CASE ClientWorks(cr, cs, cn, cr2, cs2)
  <2>1. Phase(cr) = "on" /\ Phase(cr2) = "on" /\ cr2.max = cr.max
    BY <1>9 DEF ClientWorks, SameRec
  <2>2. CASE cs2.sq = cs.sq
    BY <1>1, <2>1, <2>2
  <2>3. CASE \E item : item.kind = "data" /\ cs2.sq = Append(cs.sq, item)
    <3>1. PICK item : item.kind = "data" /\ cs2.sq = Append(cs.sq, item)
      BY <2>3
    <3>2. Answered(cr) /\ Answered(cr2) /\ \A v, R : Agreed(v, cr2, cn2, R) <=> Agreed(v, cr, cn, R)
      BY <2>1 DEF Answered, Agreed
    <3>3. /\ IsQueue(cs2.sq) /\ cs2.sq # <<>> /\ Len(cs.sq) \in Nat /\ Len(cs2.sq) = Len(cs.sq) + 1
          /\ \A j \in 1 .. Len(cs.sq) : cs2.sq[j] = cs.sq[j]
          /\ cs2.sq[Len(cs.sq) + 1] = item
          /\ cs.sq # <<>> => Head(cs2.sq) = Head(cs.sq)
      BY <3>1, Grows DEF ToServer, Answers1
    <3>4. Answers1(cs2.sq, cr2, cn2, r.msg.max)
      <4>1. ASSUME NEW j \in 1 .. Len(cs2.sq) PROVE IsAnswer(cs2.sq[j], cr2, cn2, r.msg.max)
        <5>1. CASE j \in 1 .. Len(cs.sq)
          BY <3>2, <3>3, <5>1 DEF ToServer, Answers1, IsAnswer
        <5>2. CASE j = Len(cs.sq) + 1
          BY <3>1, <3>3, <5>2 DEF IsAnswer
        <5> QED
          BY <3>3, <5>1, <5>2
      <4> QED
        BY <3>3, <4>1 DEF Answers1
    <3>5. \A p \in Survivors : Answers1(net[p], cr2, cn2, r.msg.max)
      BY <3>2 DEF ToServer, Answers1, IsAnswer
    <3>6. AckFirst(cr, cs.sq, net[0]) => AckFirst(cr2, cs2.sq, net[0])
      BY <3>2, <3>3 DEF AckFirst
    <3> QED
      BY <3>2, <3>4, <3>5, <3>6 DEF ToServer, AckToAsk, AckToCome, AckHasCome
  <2> QED
    BY <1>9, <2>2, <2>3 DEF ClientWorks
<1> QED
  BY <1>2, <1>3, <1>4, <1>5, <1>6, <1>7, <1>8, <1>9 DEF ClientMove

(* A packet of the client leaves. *)
LEMMA AnswerLeaves ==
  ASSUME NEW r, NEW s, NEW sn, NEW cr, NEW out, NEW net, NEW cn, NEW st,
         ToServer(r, s, sn, cr, out, net, cn, st), out # <<>>
  PROVE  ToServer(r, s, sn, cr, Tail(out), InFlight(net, Head(out)), cn, st)
<1>0. 0 \in Survivors
  BY FailoverAssumption, TransferAssumption DEF Survivors
<1>1. PICK R, a, o2, n2 : R = r.msg.max /\ a = Head(out) /\ o2 = Tail(out) /\ n2 = InFlight(net, a)
  OBVIOUS
<1>2. /\ IsQueue(out) /\ net = [p \in Survivors |-> net[p]] /\ Answered(cr)
      /\ \A j \in 1 .. Len(out) : IsAnswer(out[j], cr, cn, R)
      /\ \A p \in Survivors : Answers1(net[p], cr, cn, R)
  BY <1>1 DEF ToServer, Answers1
<1>3. /\ IsQueue(o2) /\ Len(out) \in Nat \ {0} /\ Len(o2) = Len(out) - 1
      /\ \A j \in 1 .. Len(o2) : o2[j] = out[j + 1]
      /\ a = out[1]
  BY <1>1, <1>2, Shrinks
<1>4. IsAnswer(a, cr, cn, R) /\ Answers1(o2, cr, cn, R)
  <2>1. \A j \in 1 .. Len(o2) : j + 1 \in 1 .. Len(out)
    BY <1>3
  <2> QED
    BY <1>2, <1>3, <2>1 DEF Answers1
<1>5. /\ n2 = [p \in Survivors |-> n2[p]]
      /\ \A p \in Survivors : n2[p] = IF p = a.path THEN Append(net[p], a) ELSE net[p]
  BY <1>1, <1>2 DEF InFlight
<1>6. ASSUME NEW p \in Survivors PROVE Answers1(n2[p], cr, cn, R)
  <2>1. CASE p # a.path
    BY <1>2, <1>5, <2>1
  <2>2. CASE p = a.path
    <3>1. PICK q, q2 : q = net[p] /\ q2 = n2[p]
      OBVIOUS
    <3>2. q2 = Append(q, a) /\ IsQueue(q) /\ \A j \in 1 .. Len(q) : IsAnswer(q[j], cr, cn, R)
      BY <1>2, <1>5, <2>2, <3>1 DEF Answers1
    <3>3. /\ IsQueue(q2) /\ Len(q) \in Nat /\ Len(q2) = Len(q) + 1
          /\ \A j \in 1 .. Len(q) : q2[j] = q[j]
          /\ q2[Len(q) + 1] = a
      BY <3>2, Grows
    <3>4. ASSUME NEW j \in 1 .. Len(q2) PROVE IsAnswer(q2[j], cr, cn, R)
      <4>1. CASE j \in 1 .. Len(q)
        BY <3>2, <3>3, <4>1
      <4>2. CASE j = Len(q) + 1
        BY <1>4, <3>3, <4>2
      <4> QED
        BY <3>3, <4>1, <4>2
    <3> QED
      BY <3>1, <3>3, <3>4 DEF Answers1
  <2> QED
    BY <2>1, <2>2
<1>7. ASSUME AckFirst(cr, out, net[0]) PROVE AckFirst(cr, o2, n2[0])
  <2>1. SUFFICES ASSUME NumPath = 2
                 PROVE  n2[0] # <<>> /\ Head(n2[0]).kind = "ack"
    BY DEF AckFirst
  <2>2. CASE net[0] # <<>>
    <3>1. Head(net[0]).kind = "ack" /\ IsQueue(net[0])
      BY <1>0, <1>2, <1>7, <2>1, <2>2 DEF AckFirst, Answers1
    <3>2. Append(net[0], a) # <<>> /\ Head(Append(net[0], a)) = Head(net[0])
      BY <2>2, <3>1, Grows
    <3> QED
      BY <1>0, <1>5, <2>2, <3>1, <3>2
  <2>3. CASE net[0] = <<>>
    <3>1. a.kind = "ack" /\ a.path = 0 /\ IsQueue(net[0])
      BY <1>0, <1>1, <1>2, <1>7, <2>1, <2>3 DEF AckFirst, Answers1
    <3>2. PICK q : q = net[0]
      OBVIOUS
    <3>3. Append(q, a) # <<>> /\ Head(Append(q, a)) = a
      BY <2>3, <3>1, <3>2, Grows
    <3> QED
      BY <1>0, <1>5, <3>1, <3>2, <3>3
  <2> QED
    BY <2>2, <2>3
<1>8. ToServer(r, s, sn, cr, o2, n2, cn, st)
  <2>1. AckToAsk(r, s, cr, out, net) => AckToAsk(r, s, cr, o2, n2)
    BY <1>7 DEF AckToAsk
  <2>2. AckToCome(r, s, cr, out, net) => AckToCome(r, s, cr, o2, n2)
    BY <1>7 DEF AckToCome
  <2> QED
    BY <1>1, <1>2, <1>4, <1>5, <1>6, <2>1, <2>2 DEF ToServer
<1> QED
  BY <1>1, <1>8

(* It arrives; st2 says whether anything has gone astray by then.           *)
LEMMA AnswerComes ==
  ASSUME NEW r, NEW s, NEW sn, NEW cr, NEW out, NEW net, NEW cn, NEW st, NEW st2,
         NEW path \in Survivors,
         RepShape(s), ToServer(r, s, sn, cr, out, net, cn, st),
         net[path] # <<>>, s.rq # <<>>,
         ~ st2 => ~ st /\ Head(net[path]).kind = Head(s.rq).kind
  PROVE  ToServer(r, Filled(s, Head(net[path])), sn, cr, out,
                  [net EXCEPT ![path] = Tail(@)], cn, st2)
<1>0. PICK s2, net2 : s2 = Filled(s, Head(net[path])) /\ net2 = [net EXCEPT ![path] = Tail(@)]
  OBVIOUS
<1>1. PICK R, a : R = r.msg.max /\ a = Head(net[path])
  OBVIOUS
<1>2. /\ net = [p \in Survivors |-> net[p]] /\ Answered(cr)
      /\ \A p \in Survivors : Answers1(net[p], cr, cn, R)
      /\ IsQueue(s.rq)
  BY <1>1 DEF ToServer
<1>3. PICK q, q2 : q = net[path] /\ q2 = Tail(q)
  OBVIOUS
<1>4. /\ IsQueue(q2) /\ Len(q) \in Nat \ {0} /\ Len(q2) = Len(q) - 1
      /\ \A j \in 1 .. Len(q2) : q2[j] = q[j + 1]
      /\ a = q[1]
  BY <1>1, <1>2, <1>3, Shrinks DEF Answers1
<1>5. IsAnswer(a, cr, cn, R) /\ Answers1(q2, cr, cn, R)
  <2>1. \A j \in 1 .. Len(q2) : j + 1 \in 1 .. Len(q)
    BY <1>4
  <2>2. \A j \in 1 .. Len(q) : IsAnswer(q[j], cr, cn, R)
    BY <1>2, <1>3 DEF Answers1
  <2> QED
    BY <1>4, <2>1, <2>2 DEF Answers1
<1>6. /\ net2 = [p \in Survivors |-> net2[p]]
      /\ \A p \in Survivors : Answers1(net2[p], cr, cn, R)
  BY <1>0, <1>2, <1>3, <1>5
<1>7. /\ s2.rq = Tail(s.rq) /\ IsQueue(s2.rq)
      /\ s2.buf = IF a.kind = "data" THEN s.buf ELSE a.body
  BY <1>0, <1>1, <1>2, Shrinks DEF Filled, RepShape
<1>8. ASSUME AckToCome(r, s, cr, out, net) PROVE AckHasCome(r, s2, cr, cn, st2)
  <2>1. SUFFICES ASSUME Straight(st2)
                 PROVE  Agreed(ServerRec!LastOf(R, s2.buf.max), cr, cn, R)
    BY <1>1, <1>2, <1>8 DEF AckHasCome, AckToCome
  <2>2. a.kind = "ack"
    <3>1. CASE NumPath = 2
      <4>1. path = 0
        BY <3>1 DEF Survivors
      <4> QED
        BY <1>1, <1>2, <1>8, <3>1, <4>1 DEF AckToCome, AckFirst
    <3>2. CASE ~ st2
      BY <1>1, <1>8, <3>2 DEF AckToCome
    <3> QED
      BY <2>1, <3>1, <3>2 DEF Straight
  <2> QED
    BY <1>5, <1>7, <2>2 DEF IsAnswer
<1>9. ASSUME AckHasCome(r, s, cr, cn, st) PROVE AckHasCome(r, s2, cr, cn, st2)
  <2>1. Straight(st2) => Straight(st)
    BY DEF Straight
  <2>2. Straight(st) => Agreed(ServerRec!LastOf(R, s2.buf.max), cr, cn, R)
    BY <1>1, <1>5, <1>7, <1>9 DEF IsAnswer, AckHasCome
  <2> QED
    BY <1>1, <1>9, <2>1, <2>2 DEF AckHasCome
<1>10. AckHasCome(r, s2, cr, cn, st2)
  BY <1>8, <1>9 DEF ToServer, AckToAsk
<1>11. ToServer(r, s2, sn, cr, out, net2, cn, st2)
  BY <1>1, <1>2, <1>6, <1>7, <1>10 DEF ToServer
<1> QED
  BY <1>0, <1>11

-----------------------------------------------------------------------------
(***************************************************************************)
(* The invariant of the control messages and of the paths.                 *)
(***************************************************************************)
ControlInv ==
  /\ Plane(cl_rec, cl_rep) /\ Plane(sv_rec, sv_rep)
  /\ OnPaths(cl_active, cl_stat, cl_rec.over, cl_call, cl_post_turn)
  /\ OnPaths(sv_active, sv_stat, sv_rec.over, sv_call, sv_post_turn)
  /\ TableShape(cl_table) /\ TableShape(sv_table)
  /\ to_client = [p \in Survivors |-> to_client[p]]
  /\ \A p \in Survivors \ {0} : to_client[p] = <<>>
  /\ ToClient(cl_rec, cl_rep, sv_rec, sv_rep.sq, to_client[0])
  /\ ToServer(sv_rec, sv_rep, sv_table.next, cl_rec, cl_rep.sq, to_server, cl_table.next, strayed)

(* The last path is given nothing in a step of either side after its end.   *)
DeadPathStep ==
  /\ cl_rec.over => cl_stat'[LastPath].posted = cl_stat[LastPath].posted
  /\ sv_rec.over => sv_stat'[LastPath].posted = sv_stat[LastPath].posted

(* What the two flows tell. *)
LEMMA FlowsTell ==
  ASSUME ControlInv
  PROVE  /\ Phase(cl_rec) = "over" /\ cl_rec.at = "out" => cl_rep.rcq = 0
         /\ Answered(cl_rec) => Phase(sv_rec) \in {"told", "on", "over"} /\ cl_rec.msg = sv_rec.msg
         /\ cl_table.next \in 0 .. TableLen - 1 /\ sv_table.next \in 0 .. TableLen - 1
         /\ PhaseAt(cl_rec) /\ PhaseAt(sv_rec) /\ RepShape(cl_rep) /\ RepShape(sv_rep)
<1>1. ToClient(cl_rec, cl_rep, sv_rec, sv_rep.sq, to_client[0])
  BY DEF ControlInv
<1>2. Phase(cl_rec) = "over" /\ cl_rec.at = "out" => cl_rep.rcq = 0
  BY <1>1 DEF ToClient, Untold, ToldOf, Released
<1>3. Answered(cl_rec) => Phase(sv_rec) \in {"told", "on", "over"} /\ cl_rec.msg = sv_rec.msg
  BY <1>1 DEF ToClient, Untold, ToldOf, Released, Answered
<1> QED
  BY <1>2, <1>3 DEF ControlInv, Plane, TableShape

(* It holds at first. *)
LEMMA ControlInit ==
  ASSUME FailoverInit
  PROVE  ControlInv
<1>0. /\ NumPath \in Nat /\ NumPath > 1 /\ TableLen \in Nat \ {0}
      /\ cl_rec = sv_rec /\ cl_rep = sv_rep /\ sv_rep.sq = <<>> /\ cl_rep.rq = <<>>
      /\ sv_rep.rcq = 0 /\ ~ sv_rec.got /\ ~ cl_rec.listening
  BY TransferAssumption, FailoverAssumption
     DEF FailoverInit, ClientRec!RecInit, ServerRec!RecInit, ClientRec!NoReport, ServerRec!NoReport
<1>1. Plane(cl_rec, cl_rep) /\ Phase(cl_rec) = "none"
  BY DEF FailoverInit, ClientRec!RecInit, Plane, RecShape, RepShape, PhaseAt, Phase
<1>2. Plane(sv_rec, sv_rep) /\ Phase(sv_rec) = "none"
  BY <1>0, <1>1
<1>3. /\ OnPaths(cl_active, cl_stat, cl_rec.over, cl_call, cl_post_turn)
      /\ TableShape(cl_table)
  BY <1>0 DEF FailoverInit, Init, Client!Init, ClientRec!RecInit, OnPaths, TableShape, StatShape,
              CallShape, Client!Paths, Paths
<1>4. /\ OnPaths(sv_active, sv_stat, sv_rec.over, sv_call, sv_post_turn)
      /\ TableShape(sv_table)
  BY <1>0 DEF FailoverInit, Init, Server!Init, ServerRec!RecInit, OnPaths, TableShape, StatShape,
              CallShape, Server!Paths, Paths
<1>5. /\ to_client = [p \in Survivors |-> <<>>] /\ to_server = [p \in Survivors |-> <<>>]
      /\ 0 \in Survivors
  BY <1>0 DEF FailoverInit, Survivors
<1>6. ToClient(cl_rec, cl_rep, sv_rec, sv_rep.sq, to_client[0])
  BY <1>0, <1>1, <1>2, <1>5 DEF ToClient, Untold, Flow0
<1>7. \A R : Answers1(<<>>, cl_rec, cl_table.next, R)
  BY DEF Answers1, IsQueue
<1>8. ToServer(sv_rec, sv_rep, sv_table.next, cl_rec, cl_rep.sq, to_server, cl_table.next, strayed)
  <2>1. AckToAsk(sv_rec, sv_rep, cl_rec, cl_rep.sq, to_server)
    BY <1>0, <1>1, <1>2 DEF AckToAsk, AckFirst, Answered
  <2>2. IsQueue(<<>>)
    BY DEF IsQueue
  <2> QED
    BY <1>0, <1>1, <1>2, <1>5, <1>7, <2>1, <2>2 DEF ToServer, Answered
<1> QED
  BY <1>1, <1>2, <1>3, <1>4, <1>5, <1>6, <1>8 DEF ControlInv

(* The client's steps. *)
LEMMA ControlClient ==
  ASSUME ControlInv, ClientNext
  PROVE  ControlInv' /\ DeadPathStep
<1>1. /\ sv_rec' = sv_rec /\ sv_rep' = sv_rep /\ sv_active' = sv_active /\ sv_stat' = sv_stat
      /\ sv_call' = sv_call /\ sv_post_turn' = sv_post_turn /\ sv_table' = sv_table
      /\ to_client' = to_client /\ to_server' = to_server /\ strayed' = strayed
  BY DEF ClientNext, ClientPost, ClientPostPacket, ClientCutShort, ClientPoll, ClientRecovers,
         ClientOnly, svVars, svRec, repNet
<1>2. /\ ClientMove(cl_rec, cl_rep, cl_table.next, cl_rec', cl_rep')
      /\ Plane(cl_rec', cl_rep')
  BY FlowsTell, ClientSteps DEF ControlInv
<1>3. /\ OnPaths(cl_active', cl_stat', cl_rec'.over, cl_call', cl_post_turn')
      /\ TableShape(cl_table')
      /\ cl_rec.at # "out" => cl_table'.next = cl_table.next
      /\ cl_rec.over => cl_stat'[LastPath].posted = cl_stat[LastPath].posted
  BY ClientPaths DEF ControlInv
<1>4. PhaseAt(cl_rec')
  BY <1>2 DEF Plane
<1>5. ToClient(cl_rec', cl_rep', sv_rec, sv_rep.sq, to_client[0])
  BY <1>2, <1>4, FlowsTell, ClientHears DEF ControlInv
<1>6. ToServer(sv_rec, sv_rep, sv_table.next, cl_rec', cl_rep'.sq, to_server, cl_table'.next, strayed)
  BY <1>2, <1>3, <1>4, FlowsTell, ClientSays DEF ControlInv
<1> QED
  BY <1>1, <1>2, <1>3, <1>5, <1>6 DEF ControlInv, DeadPathStep

(* The server's. *)
LEMMA ControlServer ==
  ASSUME ControlInv, ServerNext \/ Timeout
  PROVE  ControlInv' /\ DeadPathStep
<1>1. /\ cl_rec' = cl_rec /\ cl_rep' = cl_rep /\ cl_active' = cl_active /\ cl_stat' = cl_stat
      /\ cl_call' = cl_call /\ cl_post_turn' = cl_post_turn /\ cl_table' = cl_table
      /\ to_client' = to_client /\ to_server' = to_server /\ strayed' = strayed
  BY DEF ServerNext, ServerPost, ServerPostPacket, ServerCutShort, ServerPoll, ServerRecovers,
         Timeout, ServerOnly, clVars, clRec, repNet
<1>2. /\ ServerMove(sv_rec, sv_rep, sv_table.next, sv_rec', sv_rep')
      /\ Plane(sv_rec', sv_rep')
  BY ServerSteps DEF ControlInv
<1>3. /\ OnPaths(sv_active', sv_stat', sv_rec'.over, sv_call', sv_post_turn')
      /\ TableShape(sv_table')
      /\ sv_rec.at # "out" => sv_table'.next = sv_table.next
      /\ sv_rec.over => sv_stat'[LastPath].posted = sv_stat[LastPath].posted
  BY ServerPaths DEF ControlInv
<1>4. PhaseAt(sv_rec')
  BY <1>2 DEF Plane
<1>5. ToClient(cl_rec, cl_rep, sv_rec', sv_rep'.sq, to_client[0])
  BY <1>2, FlowsTell, ServerSays DEF ControlInv
<1>6. ToServer(sv_rec', sv_rep', sv_table'.next, cl_rec, cl_rep.sq, to_server, cl_table.next, strayed)
  BY <1>2, <1>3, <1>4, FlowsTell, ServerGets DEF ControlInv
<1> QED
  BY <1>1, <1>2, <1>3, <1>5, <1>6 DEF ControlInv, DeadPathStep

(* The steps of the cards on the paths of the transfer leave all this alone.*)
LEMMA ControlCards ==
  ASSUME ControlInv,
         PathFails \/ LeaveFailed \/ \E p \in Paths : PacketLeaves(p) \/ PacketArrives(p)
  PROVE  ControlInv' /\ DeadPathStep
<1>1. /\ UNCHANGED <<cl_rec, cl_rep, sv_rec, sv_rep, to_client, to_server, strayed>>
      /\ UNCHANGED <<cl_active, cl_stat, cl_call, cl_post_turn, cl_table>>
      /\ UNCHANGED <<sv_active, sv_stat, sv_call, sv_post_turn, sv_table>>
  BY DEF PathFails, LeaveFailed, PacketLeaves, PacketArrives, Leave, Arrive, Fill,
         Client!NicComplete, Server!NicComplete, clVars, svVars, clRec, svRec, repNet
<1> QED
  BY <1>1 DEF ControlInv, DeadPathStep

(* A packet of a report QP leaves. *)
LEMMA ControlLeaves ==
  ASSUME ControlInv, ReportLeavesClient \/ ReportLeavesServer
  PROVE  ControlInv' /\ DeadPathStep
<1>1. /\ UNCHANGED <<cl_rec, sv_rec, strayed>>
      /\ UNCHANGED <<cl_active, cl_stat, cl_call, cl_post_turn, cl_table>>
      /\ UNCHANGED <<sv_active, sv_stat, sv_call, sv_post_turn, sv_table>>
  BY DEF ReportLeavesClient, ReportLeavesServer, vars, clVars, svVars, clRec, svRec
<1>2. 0 \in Survivors
  BY FailoverAssumption, TransferAssumption DEF Survivors
<1>3. CASE ReportLeavesClient
  <2>1. /\ cl_rep.sq # <<>> /\ sv_rep' = sv_rep /\ to_client' = to_client
        /\ to_server' = InFlight(to_server, Head(cl_rep.sq))
        /\ cl_rep' = Sent(cl_rep)
    BY <1>3 DEF ReportLeavesClient, svRec
  <2>2. /\ RepShape(cl_rep') /\ cl_rep'.sq = Tail(cl_rep.sq)
        /\ cl_rep'.rq = cl_rep.rq /\ cl_rep'.rcq = cl_rep.rcq /\ cl_rep'.buf = cl_rep.buf
    BY <2>1, FlowsTell DEF Sent, RepShape
  <2>3. ToClient(cl_rec, cl_rep', sv_rec, sv_rep.sq, to_client[0])
    BY <2>2 DEF ControlInv, ToClient, Untold, ToldOf, Released
  <2>4. ToServer(sv_rec, sv_rep, sv_table.next, cl_rec, cl_rep'.sq, to_server', cl_table.next, strayed)
    BY <2>1, <2>2, AnswerLeaves DEF ControlInv
  <2> QED
    BY <1>1, <2>1, <2>2, <2>3, <2>4 DEF ControlInv, DeadPathStep, Plane
<1>4. CASE ReportLeavesServer
  <2>1. /\ sv_rep.sq # <<>> /\ cl_rep' = cl_rep /\ to_server' = to_server
        /\ to_client' = InFlight(to_client, Head(sv_rep.sq))
        /\ sv_rep' = Sent(sv_rep)
    BY <1>4 DEF ReportLeavesServer, clRec
  <2>2. /\ RepShape(sv_rep') /\ sv_rep'.sq = Tail(sv_rep.sq)
        /\ sv_rep'.rq = sv_rep.rq /\ sv_rep'.rcq = sv_rep.rcq /\ sv_rep'.buf = sv_rep.buf
    BY <2>1, FlowsTell DEF Sent, RepShape
  <2>3. /\ Head(sv_rep.sq).path = 0
        /\ ToClient(cl_rec, cl_rep, sv_rec, sv_rep'.sq, Append(to_client[0], Head(sv_rep.sq)))
    BY <2>1, <2>2, ReportLeaves DEF ControlInv
  <2>4. /\ to_client' = [p \in Survivors |-> to_client'[p]]
        /\ \A p \in Survivors \ {0} : to_client'[p] = <<>>
        /\ to_client'[0] = Append(to_client[0], Head(sv_rep.sq))
    BY <1>2, <2>1, <2>3 DEF ControlInv, InFlight
  <2>5. ToServer(sv_rec, sv_rep', sv_table.next, cl_rec, cl_rep.sq, to_server, cl_table.next, strayed)
    BY <2>2 DEF ControlInv, ToServer, AckToAsk, AckToCome, AckHasCome
  <2> QED
    BY <1>1, <2>1, <2>2, <2>3, <2>4, <2>5 DEF ControlInv, DeadPathStep, Plane
<1> QED
  BY <1>3, <1>4

(* One arrives. *)
LEMMA ControlArrives ==
  ASSUME ControlInv, NEW path \in Survivors, ReportArrives(path)
  PROVE  ControlInv' /\ DeadPathStep
<1>1. /\ UNCHANGED <<cl_rec, sv_rec>>
      /\ UNCHANGED <<cl_active, cl_stat, cl_call, cl_post_turn, cl_table>>
      /\ UNCHANGED <<sv_active, sv_stat, sv_call, sv_post_turn, sv_table>>
  BY DEF ReportArrives, vars, clVars, svVars
<1>3. CASE /\ to_server[path] # <<>> /\ sv_rep.rq # <<>>
           /\ sv_rep' = Filled(sv_rep, Head(to_server[path]))
           /\ strayed' = (strayed \/ ~Meant(sv_rep, Head(to_server[path])))
           /\ to_server' = [to_server EXCEPT ![path] = Tail(@)]
           /\ UNCHANGED <<to_client, cl_rep>>
  <2>1. RepShape(sv_rep') /\ sv_rep'.sq = sv_rep.sq
    BY <1>3, FlowsTell DEF Filled, RepShape
  <2>2. ~ strayed' => ~ strayed /\ Head(to_server[path]).kind = Head(sv_rep.rq).kind
    BY <1>3 DEF Meant
  <2>3. ToServer(sv_rec, sv_rep', sv_table.next, cl_rec, cl_rep.sq, to_server', cl_table.next, strayed')
    <3>1. PICK s, s2, net, net2, st, st2 :
            /\ s = sv_rep /\ s2 = sv_rep' /\ net = to_server /\ net2 = to_server'
            /\ st = strayed /\ st2 = strayed'
      OBVIOUS
    <3>2. /\ RepShape(s) /\ ToServer(sv_rec, s, sv_table.next, cl_rec, cl_rep.sq, net, cl_table.next, st)
          /\ net[path] # <<>> /\ s.rq # <<>> /\ s2 = Filled(s, Head(net[path]))
          /\ net2 = [net EXCEPT ![path] = Tail(@)]
          /\ ~ st2 => ~ st /\ Head(net[path]).kind = Head(s.rq).kind
      BY <1>3, <2>2, <3>1, FlowsTell DEF ControlInv
    <3>3. ToServer(sv_rec, s2, sv_table.next, cl_rec, cl_rep.sq, net2, cl_table.next, st2)
      BY <3>2, AnswerComes
    <3> QED
      BY <3>1, <3>3
  <2> QED
    BY <1>1, <1>3, <2>1, <2>3 DEF ControlInv, DeadPathStep, Plane
<1>4. CASE /\ to_client[path] # <<>> /\ cl_rep.rq # <<>>
           /\ cl_rep' = Filled(cl_rep, Head(to_client[path]))
           /\ strayed' = (strayed \/ ~Meant(cl_rep, Head(to_client[path])))
           /\ to_client' = [to_client EXCEPT ![path] = Tail(@)]
           /\ UNCHANGED <<to_server, sv_rep>>
  <2>1. path = 0
    BY <1>4 DEF ControlInv
  <2>2. /\ RepShape(cl_rep') /\ ToClient(cl_rec, cl_rep', sv_rec, sv_rep.sq, Tail(to_client[0]))
    BY <1>4, <2>1, FlowsTell, ReportComes DEF ControlInv
  <2>3. cl_rep'.sq = cl_rep.sq
    BY <1>4, FlowsTell DEF Filled, RepShape
  <2>4. /\ to_client' = [p \in Survivors |-> to_client'[p]]
        /\ \A p \in Survivors \ {0} : to_client'[p] = <<>>
        /\ to_client'[0] = Tail(to_client[0])
    BY <1>4, <2>1 DEF ControlInv
  <2>5. Straight(strayed') => Straight(strayed)
    BY <1>4 DEF Straight
  <2>6. ToServer(sv_rec, sv_rep, sv_table.next, cl_rec, cl_rep'.sq, to_server, cl_table.next, strayed')
    BY <2>3, <2>5 DEF ControlInv, ToServer, AckHasCome
  <2> QED
    BY <1>1, <1>4, <2>2, <2>3, <2>4, <2>6 DEF ControlInv, DeadPathStep, Plane
<1> QED
  BY <1>3, <1>4 DEF ReportArrives

(* Every step preserves it. *)
LEMMA ControlStep ==
  ASSUME ControlInv, [FailoverNext]_allVars
  PROVE  ControlInv' /\ DeadPathStep
<1>1. CASE UNCHANGED allVars
  BY <1>1 DEF allVars, vars, clVars, svVars, clRec, svRec, repNet, ControlInv, DeadPathStep
<1>2. CASE FailoverNext
  BY <1>2, ControlClient, ControlServer, ControlCards, ControlLeaves, ControlArrives DEF FailoverNext
<1> QED
  BY <1>1, <1>2

(***************************************************************************)
(* The inductive invariant holds in every reachable state.                 *)
(***************************************************************************)
THEOREM ControlIsInvariant == FailoverSpec => []ControlInv
<1>1. FailoverInit => ControlInv
  BY ControlInit
<1>2. ControlInv /\ [FailoverNext]_allVars => ControlInv'
  BY ControlStep
<1> QED
  BY <1>1, <1>2, PTL DEF FailoverSpec

(***************************************************************************)
(* A side that has finished its recovery gives the failed path nothing     *)
(* more (post_turn and active_num in mprud_post_send and mprud_post_recv), *)
(* whatever call the recovery took place in and whatever is lost.          *)
(***************************************************************************)
THEOREM DeadPathIsLeftAlone == FailoverSpec => DeadPathLeftAlone
<1>1. ControlInv /\ [FailoverNext]_allVars => [DeadPathStep]_allVars
  BY ControlStep
<1>2. FailoverSpec => [][DeadPathStep]_allVars
  BY <1>1, ControlIsInvariant, PTL DEF FailoverSpec
<1> QED
  BY <1>2 DEF DeadPathLeftAlone, DeadPathStep

(***************************************************************************)
(* Both sides recover the same range of WQEs.  With more than one path     *)
(* left the server can take a packet resent for the acknowledgement, and   *)
(* reads the range in a buffer that has not been written yet: then they    *)
(* need not agree.                                                         *)
(***************************************************************************)
LEMMA ControlAgrees == ControlInv /\ Straight(strayed) => RangesAgree
<1> SUFFICES ASSUME ControlInv, Straight(strayed), sv_rec.got, cl_rec.at \notin {"clear", "told"}
             PROVE  cl_rec.max = sv_rec.max /\ cl_rec.msg.loss = sv_rec.msg.loss
  BY DEF RangesAgree
<1>1. /\ Answered(cl_rec)
      /\ Agreed(sv_rec.max, cl_rec, cl_table.next, sv_rec.msg.max)
  BY DEF ControlInv, ToServer, AckToAsk, AckToCome, AckHasCome
<1>2. Phase(cl_rec) # "told"
  BY DEF Phase
<1> QED
  BY <1>1, <1>2, FlowsTell DEF Agreed

(* The range of a recovery (the maximum in mprud_recovery_server and in     *)
(* mprud_recovery_client) is agreed on whenever packets keep order.         *)
THEOREM RangesAgreeUnlessAstray == FailoverSpec => [](NumPath = 2 \/ ~ strayed => RangesAgree)
<1>1. ControlInv => (NumPath = 2 \/ ~ strayed => RangesAgree)
  BY ControlAgrees DEF Straight
<1> QED
  BY <1>1, ControlIsInvariant, PTL

-----------------------------------------------------------------------------
(***************************************************************************)
(* Until the server reports, the transfer is one over all paths, of which  *)
(* the last one may lose packets: what MprudTransferProofs says of the     *)
(* posting loops holds, and on every path no more has landed than the      *)
(* client has given it.                                                    *)
(***************************************************************************)
Unreported == Phase(sv_rec) \in {"none", "clear"}

(* The counters of one path: the packets completed and polled, those that   *)
(* wait in its CQ, and those posted.                                        *)
Held(s, c) ==
  /\ s.tot_pkt \in Nat /\ s.qlen \in Nat /\ s.wqe_idx \in 0 .. TableLen - 1
  /\ c \in Nat /\ c <= s.qlen

(* Their functions. *)
AllHeld(stat, cq) ==
  /\ cq = [p \in Paths |-> cq[p]]
  /\ \A p \in Paths : Held(stat[p], cq[p])

(* What a path has been given, by its counters. *)
PathPosted(stat, p) == stat[p].tot_pkt + stat[p].qlen

AreQueues(f) == f = [p \in Paths |-> f[p]] /\ \A p \in Paths : IsQueue(f[p])

BeforeReport ==
  /\ SidesInv
  /\ AllHeld(sv_stat, sv_cq) /\ sv_poll_turn \in Nat
  /\ AreQueues(sq) /\ AreQueues(wire) /\ AreQueues(landed)
  /\ \A p \in Paths :
       /\ Completed(sv_stat, sv_cq, p) = Len(landed[p])
       /\ PathPosted(sv_stat, p) = ServerGiven(p)
       /\ ClientGiven(p) >= Len(landed[p]) + Len(wire[p]) + Len(sq[p])

(* The endpoint of a recovery is the endpoint of a transfer. *)
LEMMA SameEndpoints ==
  /\ \A size : ClientRec!Post(size) => Client!Post(size)
  /\ ClientRec!DrainPoll => Client!DrainPoll
  /\ ClientRec!PollComplete => Client!PollComplete
  /\ ClientRec!PollProgress => Client!PollProgress
  /\ \A size : ServerRec!Post(size) => Server!Post(size)
  /\ ServerRec!InnerPoll => Server!InnerPoll
  /\ ServerRec!DrainPoll => Server!DrainPoll
  /\ ServerRec!PollComplete => Server!PollComplete
  /\ ServerRec!PollProgress => Server!PollProgress
<1>1. \A size : ClientRec!Post(size) => Client!Post(size)
  BY DEF ClientRec!Post, Client!Post, ClientRec!StoreWr, Client!StoreWr, ClientRec!Wrap, Client!Wrap,
         ClientRec!Iter, Client!Iter, ClientRec!IterEach, Client!IterEach,
         ClientRec!ChunkSize, Client!ChunkSize, ClientRec!Paths, Client!Paths
<1>2. ClientRec!InnerPoll => Client!InnerPoll
  BY DEF ClientRec!InnerPoll, Client!InnerPoll, ClientRec!Polled, Client!Polled,
         ClientRec!Outstanding, Client!Outstanding, ClientRec!Wrap, Client!Wrap
<1>3. ClientRec!DrainPoll => Client!DrainPoll
  BY <1>2 DEF ClientRec!DrainPoll, Client!DrainPoll, ClientRec!NextPacket, Client!NextPacket,
         ClientRec!QueueFull, Client!QueueFull, ClientRec!Outstanding, Client!Outstanding
<1>4. ClientRec!PollComplete => Client!PollComplete
  BY DEF ClientRec!PollComplete, Client!PollComplete, ClientRec!AppPolls, Client!AppPolls,
         ClientRec!HeadComplete, Client!HeadComplete, ClientRec!Wrap, Client!Wrap,
         ClientRec!Paths, Client!Paths
<1>5. ClientRec!PollProgress => Client!PollProgress
  BY <1>2 DEF ClientRec!PollProgress, Client!PollProgress, ClientRec!AppPolls, Client!AppPolls,
         ClientRec!HeadComplete, Client!HeadComplete
<1>6. \A size : ServerRec!Post(size) => Server!Post(size)
  BY DEF ServerRec!Post, Server!Post, ServerRec!StoreWr, Server!StoreWr, ServerRec!Wrap, Server!Wrap,
         ServerRec!Iter, Server!Iter, ServerRec!IterEach, Server!IterEach,
         ServerRec!ChunkSize, Server!ChunkSize, ServerRec!Paths, Server!Paths
<1>7. ServerRec!InnerPoll => Server!InnerPoll
  BY DEF ServerRec!InnerPoll, Server!InnerPoll, ServerRec!Polled, Server!Polled,
         ServerRec!Outstanding, Server!Outstanding, ServerRec!Wrap, Server!Wrap
<1>8. ServerRec!DrainPoll => Server!DrainPoll
  BY <1>7 DEF ServerRec!DrainPoll, Server!DrainPoll, ServerRec!NextPacket, Server!NextPacket,
         ServerRec!QueueFull, Server!QueueFull, ServerRec!Outstanding, Server!Outstanding
<1>9. ServerRec!PollComplete => Server!PollComplete
  BY DEF ServerRec!PollComplete, Server!PollComplete, ServerRec!AppPolls, Server!AppPolls,
         ServerRec!HeadComplete, Server!HeadComplete, ServerRec!Wrap, Server!Wrap,
         ServerRec!Paths, Server!Paths
<1>10. ServerRec!PollProgress => Server!PollProgress
  BY <1>7 DEF ServerRec!PollProgress, Server!PollProgress, ServerRec!AppPolls, Server!AppPolls,
         ServerRec!HeadComplete, Server!HeadComplete
<1> QED
  BY <1>1, <1>3, <1>4, <1>5, <1>6, <1>7, <1>8, <1>9, <1>10

(* Until the report the client knows nothing of a failure.                  *)
LEMMA ClientUntold ==
  ASSUME ControlInv, Unreported
  PROVE  /\ Phase(cl_rec) = "none" /\ cl_rec.at = "out" /\ ~ cl_rec.flag /\ ~ cl_rec.over
         /\ ~ ClientRecovers
<1>1. Phase(cl_rec) = "none" /\ cl_rep.rcq = 0
  BY DEF ControlInv, ToClient, Unreported, Untold
<1>2. cl_rec.at = "out" /\ ~ cl_rec.flag /\ ~ cl_rec.over
  BY <1>1 DEF ControlInv, Plane, PhaseAt, Phase
<1>3. ~ ClientRec!InPass
  BY <1>2 DEF ClientRec!InPass
<1>4. ~ ClientRecovers
  BY <1>1, <1>2, <1>3 DEF ClientRecovers, ClientRec!RecoveryStep, ClientRec!TakeReport, ClientRec!Clear,
     ClientRec!Told, ClientRec!AllResent, ClientRec!StartResend, ClientRec!ResendPacket,
     ClientRec!ResendDrain, ClientRec!Finish, ClientRec!Sync, ClientRec!PassReports, ClientRec!PassPolls
<1> QED
  BY <1>1, <1>2, <1>4

(* A completion is polled.                                                  *)
LEMMA HeldPolled ==
  ASSUME NEW s, NEW c, NEW t, StatShape(s), Held(s, c), c > 0
  PROVE  LET s2 == Server!Polled(s, t)
         IN  /\ Held(s2, c - 1)
             /\ s2.tot_pkt + (c - 1) = s.tot_pkt + c
             /\ s2.tot_pkt + s2.qlen = s.tot_pkt + s.qlen
<1> USE TransferAssumption
<1>1. PICK temp, idx : /\ idx \in 0 .. TableLen - 1
                       /\ Server!Polled(s, t) = [s EXCEPT !.polled = s.polled + 1,
                                                          !.tot_pkt = s.tot_pkt + 1,
                                                          !.qlen = s.qlen - 1,
                                                          !.comp_temp = temp, !.wqe_idx = idx]
  <2>1. Server!Wrap(s.wqe_idx + 1) \in 0 .. TableLen - 1 /\ s.wqe_idx \in 0 .. TableLen - 1
    BY DEF Held, Server!Wrap
  <2> QED
    BY <2>1 DEF Server!Polled
<1>2. PICK s2 : s2 = Server!Polled(s, t)
  OBVIOUS
<1>3. /\ s2.tot_pkt = s.tot_pkt + 1 /\ s2.qlen = s.qlen - 1 /\ s2.wqe_idx = idx
  BY <1>1, <1>2 DEF StatShape
<1> QED
  BY <1>1, <1>2, <1>3 DEF Held

(* The inner poll moves a completion, and no more.                          *)
LEMMA ServerHeldPoll ==
  ASSUME AllHeld(sv_stat, sv_cq), Server!InnerPoll, sv_active \in 1 .. NumPath,
         sv_stat = [p \in Paths |-> sv_stat[p]], \A p \in Paths : StatShape(sv_stat[p]),
         sv_poll_turn \in Nat
  PROVE  /\ AllHeld(sv_stat', sv_cq') /\ sv_poll_turn' \in Nat
         /\ \A p \in Paths : /\ Completed(sv_stat', sv_cq', p) = Completed(sv_stat, sv_cq, p)
                             /\ PathPosted(sv_stat', p) = PathPosted(sv_stat, p)
<1> USE TransferAssumption
<1>1. PICK t : t = sv_poll_turn % sv_active
  OBVIOUS
<1>5. sv_poll_turn' \in Nat
  <2>1. sv_active \in Nat \ {0} /\ sv_poll_turn + 1 \in Nat
    OBVIOUS
  <2>2. (sv_poll_turn + 1) % sv_active \in 0 .. sv_active - 1
    BY ONLY <2>1, DivMod
  <2> QED
    BY <2>2 DEF Server!InnerPoll
<1>2. t \in Paths
  <2>1. sv_active \in Nat \ {0} /\ sv_active <= NumPath
    OBVIOUS
  <2>2. t \in 0 .. sv_active - 1
    BY <1>1, <2>1, DivMod
  <2> QED
    BY <2>1, <2>2 DEF Paths
<1>3. CASE UNCHANGED <<sv_stat, sv_cq>>
  BY <1>3, <1>5 DEF Completed, PathPosted
<1>4. CASE /\ sv_cq[t] > 0
           /\ sv_stat' = [sv_stat EXCEPT ![t] = Server!Polled(sv_stat[t], t)]
           /\ sv_cq' = [sv_cq EXCEPT ![t] = sv_cq[t] - 1]
  <2>1. PICK s2 : s2 = Server!Polled(sv_stat[t], t)
    OBVIOUS
  <2>2. /\ Held(s2, sv_cq[t] - 1)
        /\ s2.tot_pkt + (sv_cq[t] - 1) = sv_stat[t].tot_pkt + sv_cq[t]
        /\ s2.tot_pkt + s2.qlen = sv_stat[t].tot_pkt + sv_stat[t].qlen
    BY <1>2, <1>4, <2>1, HeldPolled DEF AllHeld
  <2>3. \A p \in Paths : /\ sv_stat'[p] = IF p = t THEN s2 ELSE sv_stat[p]
                         /\ sv_cq'[p] = IF p = t THEN sv_cq[t] - 1 ELSE sv_cq[p]
    BY <1>2, <1>4, <2>1 DEF AllHeld
  <2>4. sv_cq' = [p \in Paths |-> sv_cq'[p]]
    BY <1>4 DEF AllHeld
  <2>5. \A p \in Paths : Held(sv_stat'[p], sv_cq'[p])
    BY <2>2, <2>3 DEF AllHeld
  <2>6. \A p \in Paths : /\ Completed(sv_stat', sv_cq', p) = Completed(sv_stat, sv_cq, p)
                         /\ PathPosted(sv_stat', p) = PathPosted(sv_stat, p)
    BY <2>2, <2>3 DEF Completed, PathPosted
  <2> QED
    BY <1>5, <2>4, <2>5, <2>6 DEF AllHeld
<1> QED
  BY <1>1, <1>3, <1>4, <1>5 DEF Server!InnerPoll

(* A message is reported: its packets stay counted.                         *)
LEMMA ServerHeldReport ==
  ASSUME AllHeld(sv_stat, sv_cq), Server!PollComplete,
         sv_stat = [p \in Paths |-> sv_stat[p]], \A p \in Paths : StatShape(sv_stat[p])
  PROVE  /\ AllHeld(sv_stat', sv_cq')
         /\ \A p \in Paths : /\ Completed(sv_stat', sv_cq', p) = Completed(sv_stat, sv_cq, p)
                             /\ PathPosted(sv_stat', p) = PathPosted(sv_stat, p)
<1>1. sv_cq' = sv_cq
  BY DEF Server!PollComplete
<1>2. ASSUME NEW p \in Paths
      PROVE  /\ sv_stat'[p].tot_pkt = sv_stat[p].tot_pkt /\ sv_stat'[p].qlen = sv_stat[p].qlen
             /\ sv_stat'[p].wqe_idx = sv_stat[p].wqe_idx
  <2>1. PICK n : sv_stat'[p] = IF p < sv_active THEN [sv_stat[p] EXCEPT !.polled = n] ELSE sv_stat[p]
    BY DEF Server!PollComplete, Server!Paths, Paths
  <2> QED
    BY <2>1 DEF StatShape
<1> QED
  BY <1>1, <1>2 DEF AllHeld, Held, Completed, PathPosted

(* A packet is posted.                                                      *)
LEMMA ServerHeldPacket ==
  ASSUME AllHeld(sv_stat, sv_cq), Server!PostPacket, sv_post_turn \in Paths,
         sv_stat = [p \in Paths |-> sv_stat[p]], \A p \in Paths : StatShape(sv_stat[p])
  PROVE  /\ AllHeld(sv_stat', sv_cq')
         /\ \A p \in Paths : /\ Completed(sv_stat', sv_cq', p) = Completed(sv_stat, sv_cq, p)
                             /\ PathPosted(sv_stat', p) = PathPosted(sv_stat, p)
                                                 + (IF p = sv_post_turn THEN 1 ELSE 0)
<1>1. PICK t, s2 : /\ t = sv_post_turn
                   /\ s2 = [sv_stat[t] EXCEPT !.posted = @ + 1, !.qlen = @ + 1]
  OBVIOUS
<1>2. sv_cq' = sv_cq /\ sv_stat' = [sv_stat EXCEPT ![t] = s2]
  BY <1>1 DEF Server!PostPacket
<1>3. s2.tot_pkt = sv_stat[t].tot_pkt /\ s2.qlen = sv_stat[t].qlen + 1 /\ s2.wqe_idx = sv_stat[t].wqe_idx
  BY <1>1 DEF StatShape
<1>4. \A p \in Paths : sv_stat'[p] = IF p = t THEN s2 ELSE sv_stat[p]
  BY <1>1, <1>2
<1> QED
  BY <1>1, <1>2, <1>3, <1>4 DEF AllHeld, Held, Completed, PathPosted

(* The card completes a receive of path p.                                  *)
LEMMA ServerHeldNic ==
  ASSUME AllHeld(sv_stat, sv_cq), NEW p \in Paths, Server!NicComplete(p)
  PROVE  /\ AllHeld(sv_stat', sv_cq')
         /\ \A q \in Paths : /\ Completed(sv_stat', sv_cq', q)
                                  = Completed(sv_stat, sv_cq, q) + (IF q = p THEN 1 ELSE 0)
                             /\ PathPosted(sv_stat', q) = PathPosted(sv_stat, q)
<1>1. /\ sv_stat' = sv_stat /\ sv_cq' = [sv_cq EXCEPT ![p] = @ + 1]
      /\ sv_cq[p] < sv_stat[p].qlen
  BY DEF Server!NicComplete
<1>2. \A q \in Paths : sv_cq'[q] = IF q = p THEN sv_cq[p] + 1 ELSE sv_cq[q]
  BY <1>1 DEF AllHeld
<1> QED
  BY <1>1, <1>2 DEF AllHeld, Held, Completed, PathPosted

(* The lengths of queues are numbers. *)
LEMMA QueuesHaveLength ==
  ASSUME NEW f, AreQueues(f)
  PROVE  \A p \in Paths : IsQueue(f[p]) /\ Len(f[p]) \in Nat
<1> SUFFICES ASSUME NEW p \in Paths PROVE IsQueue(f[p]) /\ Len(f[p]) \in Nat
  OBVIOUS
<1>1. IsQueue(f[p])
  BY DEF AreQueues
<1>2. PICK S, q : q = f[p] /\ q \in Seq(S)
  BY <1>1 DEF IsQueue
<1>3. Len(q) \in Nat
  BY ONLY <1>2
<1> QED
  BY <1>1, <1>2, <1>3

(* Neither side gives a path anything, and nothing moves in the network.    *)
LEMMA BeforeQuiet ==
  ASSUME BeforeReport, SidesInv', AllHeld(sv_stat', sv_cq'), sv_poll_turn' \in Nat,
         UNCHANGED netVars,
         \A p \in Paths : /\ ClientGiven(p)' = ClientGiven(p) /\ ServerGiven(p)' = ServerGiven(p)
                          /\ Completed(sv_stat', sv_cq', p) = Completed(sv_stat, sv_cq, p)
                          /\ PathPosted(sv_stat', p) = PathPosted(sv_stat, p)
  PROVE  BeforeReport'
<1>1. sq' = sq /\ wire' = wire /\ rq' = rq /\ landed' = landed
  BY DEF netVars
<1> QED
  BY <1>1 DEF BeforeReport, AreQueues, IsQueue

(* The client's steps. *)
LEMMA ClientBefore ==
  ASSUME ControlInv, BeforeReport, Unreported, ClientNext
  PROVE  BeforeReport'
<1>0. /\ SidesInv /\ AllHeld(sv_stat, sv_cq) /\ sv_poll_turn \in Nat
      /\ AreQueues(sq) /\ AreQueues(wire) /\ AreQueues(landed)
  BY DEF BeforeReport
<1>1. /\ UNCHANGED <<svVars, sizes>>
      /\ sv_stat' = sv_stat /\ sv_cq' = sv_cq /\ sv_poll_turn' = sv_poll_turn
      /\ \A p \in Paths : ServerGiven(p)' = ServerGiven(p)
  BY DEF ClientNext, ClientPost, ClientPostPacket, ClientCutShort, ClientPoll, ClientRecovers,
         ClientOnly, svVars, ServerGiven
<1>2. ASSUME \/ ClientPosts
             \/ Client!DrainPoll
             \/ Client!PollComplete
             \/ Client!PollProgress,
             UNCHANGED netVars
      PROVE  BeforeReport'
  <2>1. SidesInv' /\ \A p \in Paths : ClientGiven(p)' = ClientGiven(p)
    BY <1>0, <1>1, <1>2, ClientMoves
  <2> QED
    BY <1>0, <1>1, <1>2, <2>1, BeforeQuiet DEF Completed, PathPosted
<1>3. CASE ClientPost
  <2>1. ClientPosts /\ UNCHANGED netVars
    BY <1>3, SameEndpoints DEF ClientPost, ClientPosts, ClientRec!PostMessage
  <2> QED
    BY <1>2, <2>1
<1>4. CASE ClientPostPacket
  <2>1. ClientPacket
    BY <1>4 DEF ClientPostPacket
  <2>2. PICK t, packet : t = cl_post_turn /\ packet = Packet(cl_table.sqn - 1, cl_call.i)
    OBVIOUS
  <2>3. /\ SidesInv' /\ t \in Paths
        /\ \A p \in Paths : ClientGiven(p)' = ClientGiven(p) + (IF p = t THEN 1 ELSE 0)
    BY <1>0, <1>1, <2>1, <2>2, ClientGives DEF ClientPacket
  <2>4. /\ sq' = [sq EXCEPT ![t] = Append(sq[t], packet)]
        /\ wire' = wire /\ rq' = rq /\ landed' = landed
    BY <2>1, <2>2 DEF ClientPacket
  <2>5. /\ IsQueue(Append(sq[t], packet)) /\ Len(sq[t]) \in Nat
        /\ Len(Append(sq[t], packet)) = Len(sq[t]) + 1
    <3>1. IsQueue(sq[t])
      BY <1>0, <2>3 DEF AreQueues
    <3> QED
      BY <3>1, Grows
  <2>6. \A p \in Paths : sq'[p] = IF p = t THEN Append(sq[t], packet) ELSE sq[p]
    BY <1>0, <2>4 DEF AreQueues
  <2>7. AreQueues(sq')
    BY <1>0, <2>4, <2>5, <2>6 DEF AreQueues
  <2>8. ASSUME NEW p \in Paths
        PROVE  ClientGiven(p)' >= Len(landed[p]) + Len(wire[p]) + Len(sq'[p])
    <3>1. /\ ClientGiven(p) >= Len(landed[p]) + Len(wire[p]) + Len(sq[p])
          /\ ClientGiven(p) \in Nat
      BY <1>0, GivenNat DEF BeforeReport
    <3>2. Len(landed[p]) \in Nat /\ Len(wire[p]) \in Nat /\ Len(sq[p]) \in Nat
      BY <1>0, QueuesHaveLength
    <3>3. CASE p = t
      <4>1. ClientGiven(p)' = ClientGiven(p) + 1 /\ Len(sq'[p]) = Len(sq[p]) + 1
        BY <2>3, <2>5, <2>6, <3>3
      <4>2. PICK g, g2, l, w, s, s2 :
              /\ g = ClientGiven(p) /\ g2 = ClientGiven(p)' /\ l = Len(landed[p])
              /\ w = Len(wire[p]) /\ s = Len(sq[p]) /\ s2 = Len(sq'[p])
        OBVIOUS
      <4>3. /\ g \in Nat /\ l \in Nat /\ w \in Nat /\ s \in Nat
            /\ g >= l + w + s /\ g2 = g + 1 /\ s2 = s + 1
        BY ONLY <3>1, <3>2, <4>1, <4>2, Zenon
      <4>4. g2 >= l + w + s2
        BY ONLY <4>3
      <4> QED
        BY ONLY <4>2, <4>4, Zenon
    <3>4. CASE p # t
      <4>1. ClientGiven(p)' = ClientGiven(p) + 0 /\ sq'[p] = sq[p]
        BY <2>3, <2>6, <3>4
      <4>2. PICK g : g = ClientGiven(p)
        OBVIOUS
      <4>3. g \in Nat /\ ClientGiven(p)' = g + 0
        BY ONLY <3>1, <4>1, <4>2, Zenon
      <4>4. ClientGiven(p)' = g
        BY ONLY <4>3
      <4> QED
        BY ONLY <3>1, <4>1, <4>2, <4>4, Zenon
    <3> QED
      BY <3>3, <3>4
  <2> QED
    BY <1>0, <1>1, <2>3, <2>4, <2>7, <2>8 DEF BeforeReport, Completed, PathPosted, AreQueues
<1>5. CASE ClientCutShort
  BY <1>0, <1>5 DEF ClientCutShort, ClientRec!CutShort, SidesInv, Posting, CallType
<1>6. CASE ClientPoll
  <2>1. /\ Client!DrainPoll \/ Client!PollComplete \/ Client!PollProgress
        /\ UNCHANGED netVars
    BY <1>6, SameEndpoints DEF ClientPoll, ClientRec!PlainPoll
  <2> QED
    BY <1>2, <2>1
<1>7. ~ ClientRecovers
  BY ClientUntold
<1> QED
  BY <1>3, <1>4, <1>5, <1>6, <1>7 DEF ClientNext

(* The server's, until it reports. *)
LEMMA ServerBefore ==
  ASSUME ControlInv, BeforeReport, Unreported, ServerNext \/ Timeout
  PROVE  BeforeReport'
<1>0. /\ SidesInv /\ AllHeld(sv_stat, sv_cq) /\ sv_poll_turn \in Nat
      /\ AreQueues(sq) /\ AreQueues(wire) /\ AreQueues(landed)
      /\ sv_stat = [p \in Paths |-> sv_stat[p]] /\ \A p \in Paths : StatShape(sv_stat[p])
      /\ sv_active \in 1 .. NumPath /\ sv_post_turn \in Paths
  <2>1. sv_active = NumPath /\ NumPath \in 1 .. NumPath
    BY TransferAssumption DEF BeforeReport, SidesInv
  <2>2. sv_post_turn \in Paths
    BY DEF BeforeReport, SidesInv, Posting
  <2> QED
    BY <2>1, <2>2 DEF BeforeReport, ControlInv, OnPaths
<1>1. /\ UNCHANGED <<clVars, sizes>>
      /\ \A p \in Paths : ClientGiven(p)' = ClientGiven(p)
  BY DEF ServerNext, ServerPost, ServerPostPacket, ServerCutShort, ServerPoll, ServerRecovers, Timeout,
         ServerOnly, clVars, ClientGiven
<1>2. ASSUME \/ ServerPosts /\ UNCHANGED <<sv_stat, sv_cq, sv_poll_turn>>
             \/ Server!DrainPoll
             \/ Server!PollComplete
             \/ Server!PollProgress,
             UNCHANGED netVars
      PROVE  BeforeReport'
  <2>1. SidesInv' /\ \A p \in Paths : ServerGiven(p)' = ServerGiven(p)
    BY <1>0, <1>1, <1>2, ServerMoves
  <2>2. /\ AllHeld(sv_stat', sv_cq') /\ sv_poll_turn' \in Nat
        /\ \A p \in Paths : /\ Completed(sv_stat', sv_cq', p) = Completed(sv_stat, sv_cq, p)
                            /\ PathPosted(sv_stat', p) = PathPosted(sv_stat, p)
    <3>1. CASE UNCHANGED <<sv_stat, sv_cq, sv_poll_turn>>
      BY <1>0, <3>1 DEF Completed, PathPosted
    <3>2. CASE Server!DrainPoll \/ Server!PollProgress
      <4>1. Server!InnerPoll
        BY <3>2 DEF Server!DrainPoll, Server!PollProgress
      <4> QED
        BY <1>0, <4>1, ServerHeldPoll
    <3>3. CASE Server!PollComplete
      <4>1. sv_poll_turn' = sv_poll_turn
        BY <3>3 DEF Server!PollComplete
      <4> QED
        BY <1>0, <3>3, <4>1, ServerHeldReport
    <3> QED
      BY <1>2, <3>1, <3>2, <3>3
  <2> QED
    BY <1>1, <1>2, <2>1, <2>2, BeforeQuiet
<1>3. CASE ServerPost
  <2>1. /\ ServerPosts /\ UNCHANGED netVars
        /\ UNCHANGED <<sv_stat, sv_cq, sv_poll_turn>>
    BY <1>3, SameEndpoints DEF ServerPost, ServerPosts, ServerRec!PostMessage, ServerRec!Post
  <2> QED
    BY <1>2, <2>1
<1>4. CASE ServerPostPacket
  <2>1. ServerPacket
    BY <1>4 DEF ServerPostPacket
  <2>2. PICK t : t = sv_post_turn
    OBVIOUS
  <2>3. /\ SidesInv' /\ t \in Paths
        /\ \A p \in Paths : ServerGiven(p)' = ServerGiven(p) + (IF p = t THEN 1 ELSE 0)
    BY <1>0, <1>1, <2>1, <2>2, ServerGives DEF ServerPacket
  <2>4. sq' = sq /\ wire' = wire /\ landed' = landed /\ sv_poll_turn' = sv_poll_turn
    BY <2>1 DEF ServerPacket, Server!PostPacket
  <2>5. /\ AllHeld(sv_stat', sv_cq')
        /\ \A p \in Paths : /\ Completed(sv_stat', sv_cq', p) = Completed(sv_stat, sv_cq, p)
                            /\ PathPosted(sv_stat', p) = PathPosted(sv_stat, p)
                                                + (IF p = t THEN 1 ELSE 0)
    BY <1>0, <2>1, <2>2, ServerHeldPacket DEF ServerPacket
  <2> QED
    BY <1>0, <1>1, <2>3, <2>4, <2>5 DEF BeforeReport, AreQueues
<1>5. CASE ServerCutShort
  BY <1>0, <1>5 DEF ServerCutShort, ServerRec!CutShort, SidesInv, Posting, CallType
<1>6. CASE ServerPoll
  <2>1. /\ Server!DrainPoll \/ Server!PollComplete \/ Server!PollProgress
        /\ UNCHANGED netVars
    BY <1>6, SameEndpoints DEF ServerPoll, ServerRec!PlainPoll
  <2> QED
    BY <1>2, <2>1
<1>7. ASSUME UNCHANGED <<sv_active, sv_table, sv_post_turn, sv_call, sv_cum>>
      PROVE  SidesInv' /\ \A p \in Paths : ServerGiven(p)' = ServerGiven(p)
  BY <1>0, <1>1, <1>7, SidesUnchanged DEF clVars
<1>8. CASE ServerRecovers
  <2>1. /\ sv_rec.at \in {"out", "clear", "nokey"} /\ ~ sv_rec.over
        /\ sv_rec.flag => sv_rec.at \in {"clear", "nokey"}
    BY DEF Unreported, ControlInv, Plane, PhaseAt, Phase
  <2>2. ServerRec!Clear
    BY <1>8, <2>1 DEF ServerRecovers, ServerRec!RecoveryStep, ServerRec!TakeReport, ServerRec!Told,
     ServerRec!AllResent, ServerRec!StartResend, ServerRec!ResendPacket, ServerRec!InPass, ServerRec!Polls,
     ServerRec!ResendDrain, ServerRec!Finish, ServerRec!Sync, ServerRec!PassReports, ServerRec!PassPolls
  <2>3. /\ Server!InnerPoll /\ UNCHANGED <<sv_active, sv_table, sv_post_turn, sv_call, sv_cum>>
    BY <2>2, SameEndpoints DEF ServerRec!Clear
  <2>4. UNCHANGED netVars
    BY <1>8 DEF ServerRecovers
  <2> QED
    BY <1>0, <1>1, <1>7, <2>3, <2>4, ServerHeldPoll, BeforeQuiet
<1>9. CASE Timeout
  <2>1. UNCHANGED netVars /\ UNCHANGED svVars
    BY <1>9 DEF Timeout, ServerRec!Detect, ServerRec!vars, svVars
  <2> QED
    BY <1>0, <1>1, <1>7, <2>1, BeforeQuiet DEF svVars, Completed, PathPosted
<1> QED
  BY <1>3, <1>4, <1>5, <1>6, <1>8, <1>9 DEF ServerNext

(* The network moves packets on path p: gone of them leave the send queue,  *)
(* came land, and what is in flight does not grow by more than the rest.    *)
LEMMA BeforeNetwork ==
  ASSUME BeforeReport, NEW p \in Paths, NEW gone \in Nat, NEW came \in Nat,
         UNCHANGED <<cl_active, cl_table, cl_call, cl_post_turn, cl_cum>>,
         UNCHANGED <<sv_active, sv_table, sv_call, sv_post_turn, sv_cum, sv_poll_turn>>,
         UNCHANGED sizes,
         AreQueues(sq'), AreQueues(wire'), AreQueues(landed'),
         \A q \in Paths : q # p => /\ sq'[q] = sq[q] /\ wire'[q] = wire[q] /\ landed'[q] = landed[q],
         Len(sq'[p]) + gone = Len(sq[p]),
         Len(landed'[p]) = Len(landed[p]) + came,
         Len(wire'[p]) + came <= Len(wire[p]) + gone,
         AllHeld(sv_stat', sv_cq'),
         \A q \in Paths : /\ Completed(sv_stat', sv_cq', q)
                               = Completed(sv_stat, sv_cq, q) + (IF q = p THEN came ELSE 0)
                          /\ PathPosted(sv_stat', q) = PathPosted(sv_stat, q)
  PROVE  BeforeReport'
<1>1. /\ SidesInv' /\ sv_poll_turn' \in Nat
      /\ \A q \in Paths : ClientGiven(q)' = ClientGiven(q) /\ ServerGiven(q)' = ServerGiven(q)
  BY SidesUnchanged DEF BeforeReport
<1>2. ASSUME NEW q \in Paths
      PROVE  /\ Completed(sv_stat', sv_cq', q) = Len(landed'[q])
             /\ PathPosted(sv_stat', q) = ServerGiven(q)'
             /\ ClientGiven(q)' >= Len(landed'[q]) + Len(wire'[q]) + Len(sq'[q])
  <2>1. /\ Completed(sv_stat, sv_cq, q) = Len(landed[q])
        /\ PathPosted(sv_stat, q) = ServerGiven(q)
        /\ ClientGiven(q) >= Len(landed[q]) + Len(wire[q]) + Len(sq[q])
        /\ ClientGiven(q) \in Nat
    BY GivenNat DEF BeforeReport
  <2>2. /\ Len(landed[q]) \in Nat /\ Len(wire[q]) \in Nat /\ Len(sq[q]) \in Nat
        /\ Len(wire'[q]) \in Nat /\ Len(sq'[q]) \in Nat
    BY QueuesHaveLength DEF BeforeReport
  <2>3. CASE q = p
    <3>1. Completed(sv_stat', sv_cq', q) = Completed(sv_stat, sv_cq, q) + came
      BY <2>3
    <3>2. ClientGiven(q)' >= Len(landed'[q]) + Len(wire'[q]) + Len(sq'[q])
      <4>1. /\ Len(sq'[q]) + gone = Len(sq[q]) /\ Len(landed'[q]) = Len(landed[q]) + came
            /\ Len(wire'[q]) + came <= Len(wire[q]) + gone
            /\ ClientGiven(q)' = ClientGiven(q)
        BY <1>1, <2>3
      <4>2. PICK g, l, w, s, l2, w2, s2 :
              /\ g = ClientGiven(q) /\ l = Len(landed[q]) /\ w = Len(wire[q]) /\ s = Len(sq[q])
              /\ l2 = Len(landed'[q]) /\ w2 = Len(wire'[q]) /\ s2 = Len(sq'[q])
        OBVIOUS
      <4>3. /\ g \in Nat /\ l \in Nat /\ w \in Nat /\ s \in Nat
            /\ w2 \in Nat /\ s2 \in Nat /\ g >= l + w + s
            /\ s2 + gone = s /\ l2 = l + came /\ w2 + came <= w + gone
        BY ONLY <2>1, <2>2, <4>1, <4>2, Zenon
      <4>4. g >= l2 + w2 + s2
        BY ONLY <4>3, gone \in Nat, came \in Nat
      <4> QED
        BY ONLY <4>1, <4>2, <4>4, Zenon
    <3> QED
      BY <1>1, <2>1, <2>3, <3>1, <3>2
  <2>4. CASE q # p
    <3>1. Completed(sv_stat', sv_cq', q) = Completed(sv_stat, sv_cq, q) + 0
      BY <2>4
    <3>2. Completed(sv_stat', sv_cq', q) = Len(landed[q])
      BY ONLY <2>1, <2>2, <3>1
    <3> QED
      BY <1>1, <2>1, <2>4, <3>2
  <2> QED
    BY <2>3, <2>4
<1> QED
  BY <1>1, <1>2 DEF BeforeReport

(* The cards and the network, while a path fails and afterwards.            *)
LEMMA CardsBefore ==
  ASSUME BeforeReport,
         PathFails \/ LeaveFailed \/ \E p \in Paths : PacketLeaves(p) \/ PacketArrives(p)
  PROVE  BeforeReport'
<1>0. /\ AllHeld(sv_stat, sv_cq) /\ AreQueues(sq) /\ AreQueues(wire) /\ AreQueues(landed)
      /\ LastPath \in Paths
  BY TransferAssumption, FailoverAssumption DEF BeforeReport, LastPath, Paths
<1>1. CASE PathFails
  <2>1. /\ sq' = sq /\ landed' = landed /\ wire' = [wire EXCEPT ![LastPath] = <<>>]
        /\ UNCHANGED clVars /\ UNCHANGED svVars /\ UNCHANGED sizes
    BY <1>1 DEF PathFails
  <2>2. /\ AreQueues(wire') /\ \A q \in Paths : q # LastPath => wire'[q] = wire[q]
        /\ Len(wire'[LastPath]) = 0 /\ Len(wire[LastPath]) \in Nat
    <3>1. IsQueue(<<>>) /\ Len(<<>>) = 0
      BY DEF IsQueue
    <3>2. \A q \in Paths : wire'[q] = IF q = LastPath THEN <<>> ELSE wire[q]
      BY <1>0, <2>1 DEF AreQueues
    <3>3. wire' = [q \in Paths |-> wire'[q]]
      BY <1>0, <2>1 DEF AreQueues
    <3>4. Len(wire[LastPath]) \in Nat
      BY <1>0, QueuesHaveLength
    <3> QED
      BY <1>0, <3>1, <3>2, <3>3, <3>4 DEF AreQueues
  <2>3. BeforeReport'
    <3>1. 0 \in Nat
      OBVIOUS
    <3>2. \A q \in Paths : Len(sq[q]) \in Nat /\ Len(landed[q]) \in Nat
      BY <1>0, QueuesHaveLength
    <3>3. \A q \in Paths : /\ Completed(sv_stat', sv_cq', q)
                                = Completed(sv_stat, sv_cq, q) + (IF q = LastPath THEN 0 ELSE 0)
                           /\ PathPosted(sv_stat', q) = PathPosted(sv_stat, q)
      <4>1. sv_stat' = sv_stat /\ sv_cq' = sv_cq
        BY <2>1 DEF svVars
      <4>2. \A q \in Paths : Completed(sv_stat, sv_cq, q) \in Nat
        BY <1>0 DEF AllHeld, Held, Completed
      <4> QED
        BY <4>1, <4>2 DEF Completed, PathPosted
    <3>4. /\ Len(sq'[LastPath]) + 0 = Len(sq[LastPath])
          /\ Len(landed'[LastPath]) = Len(landed[LastPath]) + 0
          /\ Len(wire'[LastPath]) + 0 <= Len(wire[LastPath]) + 0
      BY <1>0, <2>1, <2>2, <3>2
    <3>5. /\ UNCHANGED <<cl_active, cl_table, cl_call, cl_post_turn, cl_cum>>
          /\ UNCHANGED <<sv_active, sv_table, sv_call, sv_post_turn, sv_cum, sv_poll_turn>>
          /\ UNCHANGED sizes
          /\ AllHeld(sv_stat', sv_cq')
      BY <1>0, <2>1 DEF clVars, svVars, AllHeld
    <3>6. /\ AreQueues(sq') /\ AreQueues(wire') /\ AreQueues(landed')
          /\ \A q \in Paths : q # LastPath =>
               sq'[q] = sq[q] /\ wire'[q] = wire[q] /\ landed'[q] = landed[q]
      BY <1>0, <2>1, <2>2
    <3> QED
      BY ONLY <1>0, BeforeReport, <3>1, <3>3, <3>4, <3>5, <3>6, BeforeNetwork
  <2> QED
    BY <2>3
<1>2. ASSUME NEW p \in Paths, sq[p] # <<>>, sq' = [sq EXCEPT ![p] = Tail(@)],
             Client!NicComplete(p), UNCHANGED <<svVars, sizes, landed>>,
             wire' = wire \/ wire' = [wire EXCEPT ![p] = Append(@, Head(sq[p]))]
      PROVE  BeforeReport'
  <2>1. /\ IsQueue(Tail(sq[p])) /\ Len(sq[p]) \in Nat \ {0} /\ Len(Tail(sq[p])) = Len(sq[p]) - 1
    BY <1>0, <1>2, Shrinks DEF AreQueues
  <2>2. /\ AreQueues(sq') /\ sq'[p] = Tail(sq[p]) /\ \A q \in Paths : q # p => sq'[q] = sq[q]
    BY <1>0, <1>2, <2>1 DEF AreQueues
  <2>3. /\ AreQueues(wire') /\ \A q \in Paths : q # p => wire'[q] = wire[q]
        /\ Len(wire[p]) \in Nat /\ (Len(wire'[p]) = Len(wire[p]) \/ Len(wire'[p]) = Len(wire[p]) + 1)
    <3>1. CASE wire' = wire
      BY <1>0, <3>1 DEF AreQueues, IsQueue
    <3>2. CASE wire' = [wire EXCEPT ![p] = Append(@, Head(sq[p]))]
      <4>1. PICK x : x = Append(wire[p], Head(sq[p]))
        OBVIOUS
      <4>2. IsQueue(x) /\ Len(wire[p]) \in Nat /\ Len(x) = Len(wire[p]) + 1
        BY <1>0, <4>1, Grows DEF AreQueues
      <4>3. wire' = [wire EXCEPT ![p] = x]
        BY <3>2, <4>1
      <4>4. \A q \in Paths : wire'[q] = IF q = p THEN x ELSE wire[q]
        BY <1>0, <4>3 DEF AreQueues
      <4>5. wire' = [q \in Paths |-> wire'[q]]
        BY <1>0, <4>3 DEF AreQueues
      <4> QED
        BY <1>0, <4>2, <4>4, <4>5 DEF AreQueues
    <3> QED
      BY <1>2, <3>1, <3>2
  <2>4. UNCHANGED <<cl_active, cl_table, cl_call, cl_post_turn, cl_cum>>
    BY <1>2 DEF Client!NicComplete
  <2>5. \A q \in Paths : /\ Completed(sv_stat', sv_cq', q)
                              = Completed(sv_stat, sv_cq, q) + (IF q = p THEN 0 ELSE 0)
                         /\ PathPosted(sv_stat', q) = PathPosted(sv_stat, q)
    BY <1>2 DEF svVars, Completed, PathPosted, BeforeReport, AllHeld, Held
  <2>6. /\ Len(sq'[p]) + 1 = Len(sq[p]) /\ Len(landed'[p]) = Len(landed[p]) + 0
        /\ Len(wire'[p]) + 0 <= Len(wire[p]) + 1
    <3>1. Len(landed[p]) \in Nat /\ landed' = landed
      BY <1>0, <1>2, QueuesHaveLength
    <3>2. Len(sq'[p]) + 1 = Len(sq[p])
      BY <2>1, <2>2
    <3>3. Len(wire'[p]) + 0 <= Len(wire[p]) + 1
      <4>1. PICK w, w2 : w = Len(wire[p]) /\ w2 = Len(wire'[p])
        OBVIOUS
      <4>2. w2 + 0 <= w + 1
        BY ONLY <2>3, <4>1
      <4> QED
        BY <4>1, <4>2
    <3> QED
      BY <3>1, <3>2, <3>3
  <2>7. 0 \in Nat /\ 1 \in Nat
    OBVIOUS
  <2>8. AreQueues(landed') /\ landed' = landed /\ AllHeld(sv_stat', sv_cq')
    BY <1>0, <1>2 DEF svVars
  <2>9. UNCHANGED <<sv_active, sv_table, sv_call, sv_post_turn, sv_cum, sv_poll_turn>> /\ UNCHANGED sizes
    BY <1>2 DEF svVars
  <2> QED
    BY <2>2, <2>3, <2>4, <2>5, <2>6, <2>7, <2>8, <2>9, BeforeNetwork
<1>3. CASE LeaveFailed
  BY <1>0, <1>2, <1>3 DEF LeaveFailed
<1>4. ASSUME NEW p \in Paths, PacketLeaves(p)
      PROVE  BeforeReport'
  BY <1>2, <1>4 DEF PacketLeaves, Leave
<1>5. ASSUME NEW p \in Paths, PacketArrives(p)
      PROVE  BeforeReport'
  <2>1. PICK y : /\ landed' = [landed EXCEPT ![p] = Append(@, y)]
                 /\ wire[p] # <<>> /\ wire' = [wire EXCEPT ![p] = Tail(@)]
                 /\ Server!NicComplete(p) /\ UNCHANGED <<clVars, sizes, sq>>
    BY <1>5 DEF PacketArrives, Arrive, Fill
  <2>2. /\ IsQueue(Tail(wire[p])) /\ Len(wire[p]) \in Nat \ {0} /\ Len(Tail(wire[p])) = Len(wire[p]) - 1
    BY <1>0, <2>1, Shrinks DEF AreQueues
  <2>3. /\ AreQueues(wire') /\ wire'[p] = Tail(wire[p]) /\ \A q \in Paths : q # p => wire'[q] = wire[q]
    BY <1>0, <2>1, <2>2 DEF AreQueues
  <2>4. PICK x : x = Append(landed[p], y)
    OBVIOUS
  <2>5. IsQueue(x) /\ Len(landed[p]) \in Nat /\ Len(x) = Len(landed[p]) + 1
    BY <1>0, <2>4, Grows DEF AreQueues
  <2>6. \A q \in Paths : landed'[q] = IF q = p THEN x ELSE landed[q]
    BY <1>0, <2>1, <2>4 DEF AreQueues
  <2>7. AreQueues(landed')
    <3>1. landed' = [q \in Paths |-> landed'[q]]
      BY <1>0, <2>1 DEF AreQueues
    <3> QED
      BY <1>0, <2>5, <2>6, <3>1 DEF AreQueues
  <2>8. /\ AllHeld(sv_stat', sv_cq')
        /\ \A q \in Paths : /\ Completed(sv_stat', sv_cq', q)
                                 = Completed(sv_stat, sv_cq, q) + (IF q = p THEN 1 ELSE 0)
                            /\ PathPosted(sv_stat', q) = PathPosted(sv_stat, q)
    BY <1>0, <2>1, ServerHeldNic
  <2>9. /\ Len(sq'[p]) + 0 = Len(sq[p]) /\ Len(landed'[p]) = Len(landed[p]) + 1
        /\ Len(wire'[p]) + 1 <= Len(wire[p]) + 0
    <3>1. Len(sq[p]) \in Nat /\ sq' = sq
      BY <1>0, <2>1, QueuesHaveLength
    <3>2. Len(wire'[p]) + 1 <= Len(wire[p]) + 0
      BY <2>2, <2>3
    <3>3. Len(landed'[p]) = Len(landed[p]) + 1
      BY <2>5, <2>6
    <3> QED
      BY <3>1, <3>2, <3>3
  <2>10. 0 \in Nat /\ 1 \in Nat /\ AreQueues(sq') /\ sq' = sq
    BY <1>0, <2>1
  <2>11. /\ UNCHANGED <<sv_active, sv_table, sv_call, sv_post_turn, sv_cum, sv_poll_turn>>
         /\ UNCHANGED <<cl_active, cl_table, cl_call, cl_post_turn, cl_cum>> /\ UNCHANGED sizes
    BY <2>1 DEF clVars, Server!NicComplete
  <2> QED
    BY <2>3, <2>6, <2>7, <2>8, <2>9, <2>10, <2>11, BeforeNetwork
<1> QED
  BY <1>1, <1>3, <1>4, <1>5

(* Nothing of the transfer changes. *)
LEMMA BeforeSame ==
  ASSUME BeforeReport, UNCHANGED vars
  PROVE  BeforeReport'
<1>1. SidesInv' /\ \A p \in Paths : ClientGiven(p)' = ClientGiven(p) /\ ServerGiven(p)' = ServerGiven(p)
  BY DEF BeforeReport, vars, clVars, svVars, SidesInv, SameCount, ClientGiven, ServerGiven
<1>2. AllHeld(sv_stat', sv_cq') /\ sv_poll_turn' \in Nat /\ UNCHANGED netVars
      /\ sv_stat' = sv_stat /\ sv_cq' = sv_cq
  BY DEF BeforeReport, vars, svVars
<1> QED
  BY <1>1, <1>2, BeforeQuiet

(* At first nothing has been posted. *)
LEMMA BeforeInit ==
  ASSUME FailoverInit
  PROVE  BeforeReport
<1>1. Init
  BY DEF FailoverInit
<1>2. SidesInv
  BY <1>1, InitInv DEF IndInv
<1>3. /\ AreQueues(sq) /\ AreQueues(wire) /\ AreQueues(landed)
      /\ \A p \in Paths : Len(sq[p]) = 0 /\ Len(wire[p]) = 0 /\ Len(landed[p]) = 0
  BY <1>1 DEF Init, AreQueues, IsQueue
<1>4. /\ AllHeld(sv_stat, sv_cq) /\ sv_poll_turn \in Nat
      /\ \A p \in Paths : sv_stat[p].tot_pkt = 0 /\ sv_stat[p].qlen = 0 /\ sv_cq[p] = 0
  BY <1>1, TransferAssumption DEF Init, Server!Init, AllHeld, Held, Server!Paths, Paths
<1>5. \A p \in Paths : ServerGiven(p) = 0
  BY <1>1 DEF Init, Server!Init, ServerGiven, Given
<1>6. ASSUME NEW p \in Paths
      PROVE  /\ Completed(sv_stat, sv_cq, p) = Len(landed[p])
             /\ PathPosted(sv_stat, p) = ServerGiven(p)
             /\ ClientGiven(p) >= Len(landed[p]) + Len(wire[p]) + Len(sq[p])
  <2>1. ClientGiven(p) \in Nat
    BY <1>2, GivenNat
  <2>2. Len(sq[p]) = 0 /\ Len(wire[p]) = 0 /\ Len(landed[p]) = 0
    BY ONLY <1>3, Zenon
  <2>3. Len(landed[p]) + Len(wire[p]) + Len(sq[p]) = 0
    BY ONLY <2>2
  <2>4. sv_stat[p].tot_pkt = 0 /\ sv_stat[p].qlen = 0 /\ sv_cq[p] = 0 /\ ServerGiven(p) = 0
    BY ONLY <1>4, <1>5, Zenon
  <2>5. sv_stat[p].tot_pkt + sv_cq[p] = 0 /\ sv_stat[p].tot_pkt + sv_stat[p].qlen = 0
    BY ONLY <2>4
  <2> QED
    BY <2>1, <2>2, <2>3, <2>4, <2>5 DEF Completed, PathPosted
<1> QED
  BY <1>2, <1>3, <1>4, <1>6 DEF BeforeReport

-----------------------------------------------------------------------------
(***************************************************************************)
(* The client never resends from a slot that was never used.  The server   *)
(* reports when nothing is left in the queues of the other paths: then all *)
(* that it posted has landed on path 0, so the client has posted as many   *)
(* messages, and the range of the recovery is one of slots it has filled.  *)
(***************************************************************************)

(* The next slot is one that was used or the first that was not.            *)
NextFits(t) == t.sqn \in Nat /\ t.next <= t.sqn

Filling(t) == NextFits(t) /\ (t.sqn < TableLen => t.next = t.sqn)

(* WQE k is resent, or will not be any more. *)
Passed(r, k) ==
  \/ Phase(r) = "over"
  \/ Phase(r) = "on" /\ \/ k < r.post
                        \/ k = r.post /\ r.at \in {"resend", "rdrain", "spin"}

SlotsUsed(r, sqn, slot) ==
  /\ slot = [k \in 0 .. TableLen - 1 |-> slot[k]]
  /\ \A k \in 0 .. TableLen - 1 :
       /\ slot[k] = [len |-> slot[k].len, need |-> slot[k].need]
       /\ k < sqn /\ ~ Passed(r, k) => slot[k].len # 0

(* A report is about WQEs the client has posted. *)
Known(msg, sqn) ==
  /\ msg.max \in -1 .. TableLen - 1 /\ msg.max < sqn
  /\ msg.loss \in 0 .. TableLen - 1

InRange(r, sqn) ==
  Phase(r) = "on" => /\ r.max \in -1 .. TableLen - 1 /\ r.max < sqn
                     /\ r.post \in Nat

BlindInv ==
  /\ ControlInv
  /\ sizes \in [1 .. MaxMsgs -> Sizes]
  /\ Filling(cl_table) /\ Filling(sv_table)
  /\ Unreported => BeforeReport
  /\ Phase(sv_rec) = "clear" => sv_call.pc \in {"idle", "drain"}
  /\ ~ Unreported => Known(sv_rec.msg, cl_table.sqn)
  /\ InRange(cl_rec, cl_table.sqn)
  /\ SlotsUsed(cl_rec, cl_table.sqn, cl_slot)
  /\ NeverBlind

(* A message is posted: its slot is filled, the others stay as they are.    *)
LEMMA SlotFilled ==
  ASSUME NEW r, NEW t, NEW t2, NEW slot, NEW size, size # 0,
         TableShape(t), Filling(t), SlotsUsed(r, t.sqn, slot),
         t2.sqn = t.sqn + 1, t2.next = IF t.next + 1 = TableLen THEN 0 ELSE t.next + 1
  PROVE  /\ Filling(t2)
         /\ SlotsUsed(r, t2.sqn, [slot EXCEPT ![t.next].len = size])
<1> USE TransferAssumption
<1> DEFINE slot2 == [slot EXCEPT ![t.next].len = size]
<1>1. PICK n, m : n = t.next /\ m = t.sqn
  OBVIOUS
<1>2. /\ n \in 0 .. TableLen - 1 /\ m \in Nat /\ n <= m /\ (m < TableLen => n = m)
      /\ t2.sqn = m + 1 /\ t2.next = IF n + 1 = TableLen THEN 0 ELSE n + 1
  BY <1>1 DEF TableShape, Filling, NextFits
<1>3. Filling(t2)
  BY ONLY <1>2, TransferAssumption DEF Filling, NextFits
<1>4. slot2 = [k \in 0 .. TableLen - 1 |-> slot2[k]]
  BY DEF SlotsUsed
<1>5. ASSUME NEW k \in 0 .. TableLen - 1
      PROVE  /\ slot2[k] = [len |-> slot2[k].len, need |-> slot2[k].need]
             /\ k < t2.sqn /\ ~ Passed(r, k) => slot2[k].len # 0
  <2>1. slot[k] = [len |-> slot[k].len, need |-> slot[k].need]
    BY DEF SlotsUsed
  <2>2. CASE k = n
    <3>1. slot2[k] = [slot[k] EXCEPT !.len = size]
      BY <1>1, <2>2 DEF SlotsUsed
    <3>2. slot2[k] = [len |-> size, need |-> slot[k].need]
      BY <2>1, <3>1
    <3> QED
      BY <3>2
  <2>3. CASE k # n
    <3>1. slot2[k] = slot[k]
      BY <1>1, <2>3 DEF SlotsUsed
    <3>2. k < t2.sqn => k < t.sqn
      BY <1>1, <1>2, <2>3
    <3> HIDE DEF slot2
    <3> QED
      BY <2>1, <3>1, <3>2 DEF SlotsUsed
  <2> QED
    BY <2>2, <2>3
<1> QED
  BY <1>3, <1>4, <1>5 DEF SlotsUsed

(* The client posts a message. *)
LEMMA BlindPost ==
  ASSUME BlindInv, ClientPost
  PROVE  /\ Filling(cl_table') /\ cl_table'.sqn = cl_table.sqn + 1
         /\ cl_rec' = cl_rec
         /\ SlotsUsed(cl_rec', cl_table'.sqn, cl_slot')
<1>1. PICK size : size = sizes[cl_table.sqn + 1]
  OBVIOUS
<1>2. size # 0
  <2>1. cl_table.sqn + 1 \in 1 .. MaxMsgs
    BY TransferAssumption DEF ClientPost, BlindInv, Filling, NextFits
  <2>2. size \in Sizes
    BY <1>1, <2>1 DEF BlindInv
  <2> QED
    BY <2>2, TransferAssumption, FailoverAssumption
<1>3. /\ ClientRec!PostMessage(size) /\ cl_rec' = cl_rec
      /\ cl_slot' = [cl_slot EXCEPT ![cl_table.next].len = size]
  BY <1>1 DEF ClientPost, ClientRec!PostMessage
<1>4. \E n : cl_table' = [cl_table EXCEPT !.next = ClientRec!Wrap(@ + 1), !.sqn = @ + 1,
                                          !.wqe[cl_table.next] = n]
  BY <1>3, Zenon DEF ClientRec!PostMessage, ClientRec!Post, ClientRec!StoreWr
<1>5. TableShape(cl_table) /\ Filling(cl_table) /\ SlotsUsed(cl_rec, cl_table.sqn, cl_slot)
  BY DEF BlindInv, ControlInv
<1>6. /\ cl_table'.sqn = cl_table.sqn + 1
      /\ cl_table'.next = IF cl_table.next + 1 = TableLen THEN 0 ELSE cl_table.next + 1
  BY <1>4, <1>5 DEF TableShape, ClientRec!Wrap
<1> QED
  BY <1>2, <1>3, <1>5, <1>6, SlotFilled

(* A step in which the client neither posts nor sets out: what is passed    *)
(* stays passed, and no slot but one that is passed changes.                *)
LEMMA SlotsStay ==
  ASSUME NEW r, NEW r2, NEW sqn, NEW slot, NEW slot2, SlotsUsed(r, sqn, slot),
         \A k \in 0 .. TableLen - 1 : Passed(r, k) => Passed(r2, k),
         \/ slot2 = slot
         \/ \E k, len, need : /\ slot2 = [slot EXCEPT ![k] = [len |-> len, need |-> need]]
                              /\ Passed(r2, k)
  PROVE  SlotsUsed(r2, sqn, slot2)
<1>1. CASE slot2 = slot
  BY <1>1 DEF SlotsUsed
<1>2. ASSUME NEW n, NEW len, NEW need, Passed(r2, n),
             slot2 = [slot EXCEPT ![n] = [len |-> len, need |-> need]]
      PROVE  SlotsUsed(r2, sqn, slot2)
  <2>1. slot2 = [k \in 0 .. TableLen - 1 |-> slot2[k]]
    BY <1>2 DEF SlotsUsed
  <2>2. ASSUME NEW k \in 0 .. TableLen - 1
        PROVE  /\ slot2[k] = [len |-> slot2[k].len, need |-> slot2[k].need]
               /\ k < sqn /\ ~ Passed(r2, k) => slot2[k].len # 0
    <3>1. CASE k = n
      <4>1. slot2[k] = [len |-> len, need |-> need]
        BY <1>2, <3>1 DEF SlotsUsed
      <4> QED
        BY <1>2, <3>1, <4>1
    <3>2. CASE k # n
      <4>1. slot2[k] = slot[k]
        BY <1>2, <3>2 DEF SlotsUsed
      <4> QED
        BY <4>1 DEF SlotsUsed
    <3> QED
      BY <3>1, <3>2
  <2> QED
    BY <2>1, <2>2 DEF SlotsUsed
<1> QED
  BY <1>1, <1>2

(* What the client resends.  r and r2 are its recovery before and after.    *)
StaysPassed(r, r2) ==
  /\ \A k \in 0 .. TableLen - 1 : Passed(r, k) => Passed(r2, k)
  /\ r2.at # "crash"

(* The client's steps outside a recovery. *)
LEMMA BlindPlain ==
  ASSUME BlindInv, ClientPostPacket \/ ClientCutShort \/ ClientPoll
  PROVE  /\ cl_table'.sqn = cl_table.sqn /\ cl_table'.next = cl_table.next
         /\ cl_slot' = cl_slot /\ StaysPassed(cl_rec, cl_rec')
         /\ Phase(cl_rec') = Phase(cl_rec)
         /\ cl_rec'.max = cl_rec.max /\ cl_rec'.post = cl_rec.post
<1>1. /\ RecShape(cl_rec) /\ TableShape(cl_table) /\ cl_rec.at # "crash"
  BY DEF BlindInv, ControlInv, Plane, NeverBlind
<1>2. CASE ClientPostPacket
  BY <1>1, <1>2 DEF ClientPostPacket, ClientPacket, Client!PostPacket, clRec, StaysPassed
<1>3. CASE ClientCutShort
  BY <1>1, <1>3 DEF ClientCutShort, ClientRec!CutShort, ClientRec!recVars, StaysPassed
<1>4. CASE ClientPoll
  <2>1. /\ cl_slot' = cl_slot
        /\ \E x : cl_rec' = [cl_rec EXCEPT !.listening = x]
        /\ \/ cl_table' = cl_table
           \/ \E n, h : cl_table' = [cl_table EXCEPT !.wqe[cl_table.head].valid = n, !.head = h]
    BY <1>4, Zenon DEF ClientPoll, ClientRec!PlainPoll, ClientRec!DrainPoll, ClientRec!PollComplete,
                ClientRec!PollProgress
  <2>2. cl_table'.sqn = cl_table.sqn /\ cl_table'.next = cl_table.next
    BY <1>1, <2>1 DEF TableShape
  <2>3. /\ cl_rec'.at = cl_rec.at /\ cl_rec'.flag = cl_rec.flag /\ cl_rec'.over = cl_rec.over
        /\ cl_rec'.max = cl_rec.max /\ cl_rec'.post = cl_rec.post
    BY <1>1, <2>1 DEF RecShape
  <2> QED
    BY <1>1, <2>1, <2>2, <2>3, Zenon DEF StaysPassed, Passed, Phase
<1> QED
  BY <1>2, <1>3, <1>4

(* Its steps at the start and at the end of one. *)
LEMMA BlindTurns ==
  ASSUME BlindInv,
         \/ ClientRec!TakeReport \/ ClientRec!Clear \/ ClientRec!Told
         \/ ClientRec!Finish \/ ClientRec!Sync \/ ClientRec!PassReports
  PROVE  /\ cl_table'.sqn = cl_table.sqn /\ cl_table'.next = cl_table.next
         /\ cl_slot' = cl_slot /\ StaysPassed(cl_rec, cl_rec')
         /\ InRange(cl_rec', cl_table.sqn)
<1>1. /\ RecShape(cl_rec) /\ TableShape(cl_table) /\ cl_rec.at # "crash" /\ PhaseAt(cl_rec)
      /\ Filling(cl_table) /\ InRange(cl_rec, cl_table.sqn)
  BY DEF BlindInv, ControlInv, Plane, NeverBlind
<1>2. CASE ClientRec!TakeReport
  <2>1. /\ ~ cl_rec.flag /\ cl_slot' = cl_slot /\ cl_table' = cl_table
        /\ \E m : cl_rec' = [cl_rec EXCEPT !.at = "clear", !.flag = TRUE, !.msg = m]
    BY <1>2 DEF ClientRec!TakeReport, ClientRec!vars
  <2>2. cl_rec'.at = "clear" /\ cl_rec'.flag = TRUE /\ cl_rec'.over = cl_rec.over
    BY <1>1, <2>1 DEF RecShape
  <2> QED
    BY <2>1, <2>2 DEF StaysPassed, Passed, Phase, InRange
<1>3. CASE ClientRec!Clear
  <2>1. /\ cl_rec.at = "clear" /\ cl_slot' = cl_slot /\ cl_table' = cl_table
        /\ \/ cl_rec' = cl_rec
           \/ \E m : cl_rec' = [cl_rec EXCEPT !.at = "told", !.msg = m]
    BY <1>3 DEF ClientRec!Clear
  <2>2. /\ cl_rec'.at \in {"clear", "told"} /\ cl_rec'.flag = cl_rec.flag
        /\ cl_rec'.over = cl_rec.over
    BY <1>1, <2>1 DEF RecShape
  <2>3. Phase(cl_rec) = "clear"
    BY <1>1, <2>1 DEF PhaseAt, Phase
  <2> QED
    BY <2>1, <2>2, <2>3 DEF StaysPassed, Passed, Phase, InRange
<1>4. CASE ClientRec!Told
  <2>1. /\ cl_rec.at = "told" /\ cl_slot' = cl_slot /\ cl_table' = cl_table
        /\ cl_rec' = [cl_rec EXCEPT !.at = "polls", !.post = cl_rec.msg.loss,
                        !.poll = cl_rec.msg.loss,
                        !.max = ClientRec!LastOf(cl_table.next - 1, cl_rec.msg.max)]
    BY <1>4 DEF ClientRec!Told, ClientRec!vars
  <2>2. /\ cl_rec'.at = "polls" /\ cl_rec'.flag = cl_rec.flag
        /\ cl_rec'.over = cl_rec.over /\ cl_rec'.post = cl_rec.msg.loss
        /\ cl_rec'.max = ClientRec!LastOf(cl_table.next - 1, cl_rec.msg.max)
    BY <1>1, <2>1 DEF RecShape
  <2>3. Phase(cl_rec) = "told"
    BY <1>1, <2>1 DEF PhaseAt, Phase
  <2>4. cl_rec.msg = sv_rec.msg /\ ~ Unreported
    BY <2>3, FlowsTell DEF BlindInv, Answered, Unreported
  <2>5. Known(cl_rec.msg, cl_table.sqn)
    BY <2>4 DEF BlindInv
  <2>6. /\ cl_table.next - 1 \in -1 .. TableLen - 1 /\ cl_table.next - 1 < cl_table.sqn
        /\ cl_table.sqn \in Nat
    BY <1>1, TransferAssumption DEF TableShape, Filling, NextFits
  <2>7. cl_rec'.max \in {cl_table.next - 1, cl_rec.msg.max}
    BY <2>2 DEF ClientRec!LastOf
  <2>8. /\ cl_rec'.max \in -1 .. TableLen - 1 /\ cl_rec'.max < cl_table.sqn
        /\ cl_rec'.post \in Nat
    BY <2>2, <2>5, <2>6, <2>7, TransferAssumption DEF Known
  <2> QED
    BY <2>1, <2>2, <2>3, <2>8 DEF StaysPassed, Passed, InRange
<1>5. CASE ClientRec!Finish
  <2>1. /\ cl_slot' = cl_slot /\ cl_table' = cl_table
        /\ cl_rec' = [cl_rec EXCEPT !.at = "sync", !.flag = FALSE, !.listening = FALSE,
                                    !.over = TRUE]
    BY <1>5 DEF ClientRec!Finish, ClientRec!Acked, ClientRec!AckHere
  <2>2. cl_rec'.at = "sync" /\ cl_rec'.over = TRUE
    BY <1>1, <2>1 DEF RecShape
  <2> QED
    BY <2>1, <2>2 DEF StaysPassed, Passed, Phase, InRange
<1>6. CASE ClientRec!Sync
  <2>1. /\ cl_rec.at = "sync" /\ cl_slot' = cl_slot /\ cl_table' = cl_table
        /\ cl_rec' = [cl_rec EXCEPT !.at = "polls"]
    BY <1>6 DEF ClientRec!Sync, ClientRec!vars
  <2>2. /\ cl_rec'.at = "polls" /\ cl_rec'.over = cl_rec.over
    BY <1>1, <2>1 DEF RecShape
  <2>3. Phase(cl_rec) = "over"
    BY <1>1, <2>1 DEF PhaseAt, Phase
  <2>4. Phase(cl_rec') = "over"
    BY <1>1, <2>2, <2>3 DEF PhaseAt, Phase
  <2> QED
    BY <2>1, <2>2, <2>4 DEF StaysPassed, Passed, InRange
<1>7. CASE ClientRec!PassReports
  <2>1. /\ cl_rec.at = "polls" /\ cl_slot' = cl_slot
        /\ cl_rec' = [cl_rec EXCEPT !.at = "out"]
        /\ \E n, h : cl_table' = [cl_table EXCEPT !.wqe[cl_table.head].valid = n, !.head = h]
    BY <1>7 DEF ClientRec!PassReports, ClientRec!PollComplete
  <2>2. /\ cl_rec'.at = "out" /\ cl_rec'.over = cl_rec.over /\ cl_rec'.flag = cl_rec.flag
        /\ cl_rec'.max = cl_rec.max /\ cl_rec'.post = cl_rec.post
    BY <1>1, <2>1 DEF RecShape
  <2>3. cl_table'.sqn = cl_table.sqn /\ cl_table'.next = cl_table.next
    BY <1>1, <2>1 DEF TableShape
  <2> QED
    BY <1>1, <2>1, <2>2, <2>3 DEF StaysPassed, Passed, Phase, InRange
<1> QED
  BY <1>2, <1>3, <1>4, <1>5, <1>6, <1>7

(* Its steps in the middle of one.  The WQE it resends next is one it has   *)
(* posted and not resent before.                                            *)
LEMMA BlindResends ==
  ASSUME BlindInv,
         \/ ClientRec!AllResent \/ ClientRec!StartResend \/ ClientRec!ResendPacket
         \/ ClientRec!ResendDrain \/ ClientRec!PassPolls
  PROVE  /\ cl_table'.sqn = cl_table.sqn /\ cl_table'.next = cl_table.next
         /\ SlotsUsed(cl_rec', cl_table.sqn, cl_slot')
         /\ cl_rec'.at # "crash"
         /\ InRange(cl_rec', cl_table.sqn)
<1> DEFINE r == cl_rec
           r2 == cl_rec'
           Same == r2.flag = r.flag /\ r2.over = r.over /\ r2.max = r.max
<1>1. /\ RecShape(r) /\ TableShape(cl_table) /\ r.at # "crash" /\ PhaseAt(r)
      /\ SlotsUsed(r, cl_table.sqn, cl_slot) /\ InRange(r, cl_table.sqn)
      /\ cl_table.sqn \in Nat
  BY DEF BlindInv, ControlInv, Plane, NeverBlind, Filling, NextFits
<1>2. ClientRec!Acked = r /\ ~ ClientRec!AckHere
  BY DEF ClientRec!Acked, ClientRec!AckHere
<1>3. ASSUME ClientRec!InPass
      PROVE  Phase(r) = "on" /\ r.at \in {"pass", "out"} /\ r.post \in Nat
  <2>1. r.flag /\ r.at \in {"pass", "out"}
    BY <1>3 DEF ClientRec!InPass, ClientRec!Polls
  <2> QED
    BY <1>1, <2>1 DEF PhaseAt, Phase, InRange
<1>5. CASE ClientRec!AllResent
  <2>1. /\ ClientRec!InPass /\ cl_slot' = cl_slot /\ cl_table' = cl_table
        /\ r2 = [r EXCEPT !.at = "polls"]
    BY <1>2, <1>5 DEF ClientRec!AllResent, ClientRec!vars
  <2>2. r2.at = "polls" /\ Same /\ r2.post = r.post
    BY <1>1, <2>1 DEF RecShape
  <2>3. /\ \A k \in 0 .. TableLen - 1 : Passed(r, k) => Passed(r2, k)
        /\ InRange(r2, cl_table.sqn)
    BY <1>1, <1>3, <2>1, <2>2 DEF Passed, Phase, InRange
  <2> QED
    BY <1>1, <2>1, <2>2, <2>3, SlotsStay
<1>6. CASE ClientRec!StartResend
  <2>1. PICK k : k = r.post
    OBVIOUS
  <2>2. ClientRec!InPass /\ cl_table' = cl_table /\ k <= r.max
    BY <1>2, <1>6, <2>1 DEF ClientRec!StartResend, ClientRec!vars
  <2>3. /\ Phase(r) = "on" /\ k \in Nat /\ r.at \in {"pass", "out"}
        /\ r.max \in -1 .. TableLen - 1 /\ r.max < cl_table.sqn
    BY <1>1, <1>3, <2>1, <2>2 DEF InRange
  <2>4. k \in 0 .. TableLen - 1 /\ k < cl_table.sqn
    BY <1>1, <2>2, <2>3, TransferAssumption
  <2>5. ~ Passed(r, k)
    BY <2>1, <2>3 DEF Passed
  <2>6. cl_slot[k].len # 0
    BY <1>1, <2>4, <2>5 DEF SlotsUsed
  <2>7. PICK len, iter, turn, at, post :
          /\ cl_slot' = [cl_slot EXCEPT ![k] = [len |-> len, need |-> iter]]
          /\ r2 = [r EXCEPT !.i = 0, !.iter = iter, !.turn = turn, !.at = at, !.post = post]
          /\ \/ at = "polls" /\ post = k + 1
             \/ at = "resend" /\ post = k
    <3>1. PICK len : len = ClientRec!Portion(k)
      OBVIOUS
    <3>2. PICK iter : iter = ClientRec!Iter(len, cl_active - 1)
      OBVIOUS
    <3>3. /\ cl_slot' = [cl_slot EXCEPT ![k] = [len |-> len, need |-> iter]]
          /\ r2 = [r EXCEPT
                         !.i = 0, !.iter = iter, !.turn = @ % (cl_active - 1),
                         !.at = IF iter = 0 THEN "polls" ELSE "resend",
                         !.post = IF iter = 0 THEN @ + 1 ELSE @]
      BY <1>2, <1>6, <2>1, <2>6, <3>1, <3>2 DEF ClientRec!StartResend
    <3>4. CASE iter = 0
      <4>1. r2 = [r EXCEPT !.i = 0, !.iter = iter, !.turn = r.turn % (cl_active - 1),
                           !.at = "polls", !.post = k + 1]
        BY <2>1, <3>3, <3>4
      <4> QED
        BY <3>3, <4>1
    <3>5. CASE iter # 0
      <4>1. r2 = [r EXCEPT !.i = 0, !.iter = iter, !.turn = r.turn % (cl_active - 1),
                           !.at = "resend", !.post = k]
        BY <2>1, <3>3, <3>5
      <4> QED
        BY <3>3, <4>1
    <3> QED
      BY <3>4, <3>5
  <2>8. r2.at = at /\ r2.post = post /\ Same
    BY <1>1, <2>7 DEF RecShape
  <2>9. Phase(r2) = "on" /\ post \in Nat
    BY <2>3, <2>7, <2>8 DEF Phase
  <2>10. \A j \in 0 .. TableLen - 1 : Passed(r, j) => Passed(r2, j)
    BY <2>1, <2>3, <2>7, <2>8, <2>9 DEF Passed
  <2>11. Passed(r2, k)
    BY <2>3, <2>7, <2>8, <2>9 DEF Passed
  <2>12. InRange(r2, cl_table.sqn)
    BY <2>3, <2>8, <2>9 DEF InRange
  <2>13. SlotsUsed(r2, cl_table.sqn, cl_slot')
    <3>1. \E n, l, need : /\ cl_slot' = [cl_slot EXCEPT ![n] = [len |-> l, need |-> need]]
                          /\ Passed(r2, n)
      BY <2>7, <2>11
    <3> QED
      BY ONLY <1>1, <2>10, <3>1, SlotsStay
  <2> QED
    BY <2>2, <2>7, <2>8, <2>12, <2>13
<1>7. ASSUME NEW x, RecShape(x), x.at \in {"rdrain", "spin"}, r.at \in {"resend", "rdrain"},
             x.flag = r.flag, x.over = r.over, x.max = r.max, x.post = r.post,
             r2 = ClientRec!NextResend(x)
      PROVE  /\ \A k \in 0 .. TableLen - 1 : Passed(r, k) => Passed(r2, k)
             /\ r2.at # "crash" /\ InRange(r2, cl_table.sqn)
  <2>1. Phase(r) = "on" /\ r.post \in Nat
    BY <1>1, <1>7 DEF PhaseAt, Phase, InRange
  <2>2. /\ \/ r2.at \in {"rdrain", "spin", "resend"} /\ r2.post = r.post
           \/ r2.at = "polls" /\ r2.post = r.post + 1
        /\ Same
    <3>1. CASE x.at = "spin" \/ x.out >= SendRecMax
      BY <1>7, <3>1 DEF ClientRec!NextResend
    <3>2. CASE ~ (x.at = "spin" \/ x.out >= SendRecMax)
      <4>1. PICK i, turn : r2 = [x EXCEPT !.at = IF x.i + 1 = x.iter THEN "polls" ELSE "resend",
                                   !.post = IF x.i + 1 = x.iter THEN @ + 1 ELSE @,
                                   !.i = i, !.turn = turn]
        BY <1>7, <3>2 DEF ClientRec!NextResend
      <4> QED
        BY <1>7, <4>1 DEF RecShape
    <3> QED
      BY <3>1, <3>2
  <2> QED
    BY <1>1, <2>1, <2>2 DEF Passed, Phase, InRange
<1>8. CASE ClientRec!ResendPacket
  <2>1. /\ r.at = "resend" /\ cl_slot' = cl_slot /\ cl_table' = cl_table
        /\ r2 = ClientRec!NextResend([r EXCEPT !.at = "rdrain", !.out = @ + 1])
    BY <1>8 DEF ClientRec!ResendPacket, ClientRec!vars
  <2>2. PICK x : x = [r EXCEPT !.at = "rdrain", !.out = @ + 1]
    OBVIOUS
  <2>3. /\ RecShape(x) /\ x.at = "rdrain" /\ x.flag = r.flag /\ x.over = r.over
        /\ x.max = r.max /\ x.post = r.post
    BY <1>1, <2>2 DEF RecShape
  <2>4. r2 = ClientRec!NextResend(x)
    BY <2>1, <2>2
  <2>5. /\ \A k \in 0 .. TableLen - 1 : Passed(r, k) => Passed(r2, k)
        /\ r2.at # "crash" /\ InRange(r2, cl_table.sqn)
    BY <1>7, <2>1, <2>3, <2>4
  <2> QED
    BY <1>1, <2>1, <2>5, SlotsStay
<1>9. ASSUME NEW x, RecShape(x)
      PROVE  LET y == ClientRec!Counted(x)
             IN  /\ RecShape(y) /\ y.at \in {x.at, "spin"} /\ y.flag = x.flag
                 /\ y.over = x.over /\ y.max = x.max /\ y.post = x.post
  <2>1. PICK y : y = ClientRec!Counted(x)
    OBVIOUS
  <2>2. \/ y = x
        \/ \E out : y = [x EXCEPT !.at = "spin", !.out = out]
        \/ \E out, pkt, poll : y = [x EXCEPT !.out = out, !.pkt = pkt, !.poll = poll]
    <3>1. PICK need : need = cl_slot[x.poll].need
      OBVIOUS
    <3> QED
      BY <2>1, <3>1 DEF ClientRec!Counted, ClientRec!CountPacket
  <2>3. /\ RecShape(y) /\ y.at \in {x.at, "spin"} /\ y.flag = x.flag
        /\ y.over = x.over /\ y.max = x.max /\ y.post = x.post
    BY <1>9, <2>2 DEF RecShape
  <2> QED
    BY <2>1, <2>3
<1>10. CASE ClientRec!ResendDrain
  <2>1. /\ r.at = "rdrain" /\ cl_slot' = cl_slot /\ cl_table' = cl_table
        /\ r2 = ClientRec!NextResend(ClientRec!Counted(r))
    BY <1>10 DEF ClientRec!ResendDrain, ClientRec!RecoveryPoll
  <2>2. PICK x : x = ClientRec!Counted(r)
    OBVIOUS
  <2>3. /\ RecShape(x) /\ x.at \in {"rdrain", "spin"} /\ x.flag = r.flag /\ x.over = r.over
        /\ x.max = r.max /\ x.post = r.post
    BY <1>1, <1>9, <2>1, <2>2
  <2>4. r2 = ClientRec!NextResend(x)
    BY <2>1, <2>2
  <2>5. /\ \A k \in 0 .. TableLen - 1 : Passed(r, k) => Passed(r2, k)
        /\ r2.at # "crash" /\ InRange(r2, cl_table.sqn)
    BY <1>7, <2>1, <2>3, <2>4
  <2> QED
    BY <1>1, <2>1, <2>5, SlotsStay
<1>11. CASE ClientRec!PassPolls
  <2>1. /\ r.at = "polls" /\ cl_slot' = cl_slot /\ cl_table' = cl_table
        /\ \/ r.flag /\ r2 = ClientRec!Counted([r EXCEPT !.at = "pass"])
           \/ r2 = [r EXCEPT !.at = "out"]
    BY <1>11 DEF ClientRec!PassPolls, ClientRec!RecoveryPoll
  <2>2. PICK x, y : x = [r EXCEPT !.at = "pass"] /\ y = [r EXCEPT !.at = "out"]
    OBVIOUS
  <2>3. /\ RecShape(x) /\ x.at = "pass" /\ x.flag = r.flag /\ x.over = r.over
        /\ x.max = r.max /\ x.post = r.post
        /\ RecShape(y) /\ y.at = "out" /\ y.flag = r.flag /\ y.over = r.over
        /\ y.max = r.max /\ y.post = r.post
    BY <1>1, <2>2 DEF RecShape
  <2>4. /\ r2.at \in {"pass", "spin", "out"} /\ Same /\ r2.post = r.post
    <3>1. CASE r2 = y
      BY <2>3, <3>1
    <3>2. CASE r2 = ClientRec!Counted(x)
      <4>1. PICK c : c = ClientRec!Counted(x)
        OBVIOUS
      <4>2. /\ c.at \in {x.at, "spin"} /\ c.flag = x.flag
            /\ c.over = x.over /\ c.max = x.max /\ c.post = x.post
        BY <1>9, <2>3, <4>1
      <4> QED
        BY <2>3, <3>2, <4>1, <4>2
    <3> QED
      BY <2>1, <2>2, <3>1, <3>2
  <2>5. Phase(r2) = Phase(r)
    BY <2>1, <2>4 DEF Phase
  <2>6. /\ \A k \in 0 .. TableLen - 1 : Passed(r, k) => Passed(r2, k)
        /\ InRange(r2, cl_table.sqn)
    BY <1>1, <2>1, <2>4, <2>5 DEF Passed, InRange
  <2> QED
    BY <1>1, <2>1, <2>4, <2>6, SlotsStay
<1> QED
  BY <1>5, <1>6, <1>8, <1>10, <1>11

(* The client's steps preserve the invariant. *)
LEMMA BlindClient ==
  ASSUME BlindInv, ClientNext
  PROVE  BlindInv'
<1>1. /\ sv_rec' = sv_rec /\ sv_table' = sv_table /\ sv_call' = sv_call /\ sizes' = sizes
  BY DEF ClientNext, ClientPost, ClientPostPacket, ClientCutShort, ClientPoll, ClientRecovers,
         ClientOnly, svVars, svRec
<1>2. /\ ControlInv /\ cl_rec.at # "crash" /\ Filling(cl_table)
      /\ SlotsUsed(cl_rec, cl_table.sqn, cl_slot) /\ InRange(cl_rec, cl_table.sqn)
  BY DEF BlindInv, NeverBlind
<1>3. ControlInv'
  BY <1>2, ControlClient
<1>4. Unreported' => BeforeReport'
  <2>1. Unreported' = Unreported
    BY <1>1 DEF Unreported, Phase
  <2> QED
    BY <1>2, <2>1, ClientBefore DEF BlindInv
<1>5. /\ Filling(cl_table') /\ cl_table'.sqn \in {cl_table.sqn, cl_table.sqn + 1}
      /\ SlotsUsed(cl_rec', cl_table'.sqn, cl_slot')
      /\ InRange(cl_rec', cl_table'.sqn) /\ cl_rec'.at # "crash"
  <2>1. CASE ClientPost
    <3>1. /\ Filling(cl_table') /\ cl_table'.sqn = cl_table.sqn + 1 /\ cl_rec' = cl_rec
          /\ SlotsUsed(cl_rec', cl_table'.sqn, cl_slot')
      BY <2>1, BlindPost
    <3>2. InRange(cl_rec', cl_table'.sqn)
      BY <1>2, <3>1 DEF InRange, Filling, NextFits
    <3> QED
      BY <1>2, <3>1, <3>2
  <2>2. CASE ClientPostPacket \/ ClientCutShort \/ ClientPoll
    <3>1. /\ cl_table'.sqn = cl_table.sqn /\ cl_table'.next = cl_table.next
          /\ cl_slot' = cl_slot /\ StaysPassed(cl_rec, cl_rec')
          /\ Phase(cl_rec') = Phase(cl_rec)
          /\ cl_rec'.max = cl_rec.max /\ cl_rec'.post = cl_rec.post
      BY <2>2, BlindPlain
    <3>2. SlotsUsed(cl_rec', cl_table.sqn, cl_slot')
      BY <1>2, <3>1, SlotsStay DEF StaysPassed
    <3> QED
      BY <1>2, <3>1, <3>2 DEF StaysPassed, InRange, Filling, NextFits
  <2>3. CASE \/ ClientRec!TakeReport \/ ClientRec!Clear \/ ClientRec!Told
             \/ ClientRec!Finish \/ ClientRec!Sync \/ ClientRec!PassReports
    <3>1. /\ cl_table'.sqn = cl_table.sqn /\ cl_table'.next = cl_table.next
          /\ cl_slot' = cl_slot /\ StaysPassed(cl_rec, cl_rec')
          /\ InRange(cl_rec', cl_table.sqn)
      BY <2>3, BlindTurns
    <3>2. SlotsUsed(cl_rec', cl_table.sqn, cl_slot')
      BY <1>2, <3>1, SlotsStay DEF StaysPassed
    <3> QED
      BY <1>2, <3>1, <3>2 DEF StaysPassed, InRange, Filling, NextFits
  <2>4. CASE \/ ClientRec!AllResent \/ ClientRec!StartResend \/ ClientRec!ResendPacket
             \/ ClientRec!ResendDrain \/ ClientRec!PassPolls
    <3>1. /\ cl_table'.sqn = cl_table.sqn /\ cl_table'.next = cl_table.next
          /\ SlotsUsed(cl_rec', cl_table.sqn, cl_slot')
          /\ cl_rec'.at # "crash"
          /\ InRange(cl_rec', cl_table.sqn)
      BY <2>4, BlindResends
    <3> QED
      BY <1>2, <3>1 DEF InRange, Filling, NextFits
  <2> QED
    BY <2>1, <2>2, <2>3, <2>4 DEF ClientNext, ClientRecovers, ClientRec!RecoveryStep
<1>6. ~ Unreported' => Known(sv_rec'.msg, cl_table'.sqn)
  <2>1. Unreported' = Unreported
    BY <1>1 DEF Unreported, Phase
  <2>2. cl_table.sqn \in Nat
    BY <1>2 DEF Filling, NextFits
  <2>3. ASSUME ~ Unreported
        PROVE  Known(sv_rec.msg, cl_table'.sqn)
    <3>1. Known(sv_rec.msg, cl_table.sqn)
      BY <2>3 DEF BlindInv
    <3> QED
      BY <1>5, <2>2, <3>1 DEF Known
  <2> QED
    BY <1>1, <2>1, <2>3
<1>7. Phase(sv_rec') = "clear" => sv_call'.pc \in {"idle", "drain"}
  BY <1>1 DEF BlindInv
<1> QED
  BY <1>1, <1>3, <1>4, <1>5, <1>6, <1>7 DEF BlindInv, NeverBlind, NextFits

(* The server reports: the client has posted as many messages. *)
LEMMA ServerBehind ==
  BeforeReport /\ sv_call.pc \in {"idle", "drain"} /\ sv_stat[0].qlen = 0
    => sv_table.sqn <= cl_table.sqn
<1> SUFFICES ASSUME BeforeReport, sv_call.pc \in {"idle", "drain"}, sv_stat[0].qlen = 0
             PROVE  sv_table.sqn <= cl_table.sqn
  OBVIOUS
<1> USE TransferAssumption
<1>1. 0 \in Paths
  BY DEF Paths
<1>2. /\ SidesInv /\ AreQueues(landed) /\ AreQueues(wire) /\ AreQueues(sq)
      /\ Completed(sv_stat, sv_cq, 0) = Len(landed[0])
      /\ PathPosted(sv_stat, 0) = ServerGiven(0)
      /\ ClientGiven(0) >= Len(landed[0]) + Len(wire[0]) + Len(sq[0])
      /\ Held(sv_stat[0], sv_cq[0])
  BY <1>1 DEF BeforeReport, AllHeld
<1>3. /\ ClientGiven(0) \in Nat /\ ServerGiven(0) \in Nat
      /\ Len(landed[0]) \in Nat /\ Len(wire[0]) \in Nat /\ Len(sq[0]) \in Nat
  BY <1>1, <1>2, GivenNat, QueuesHaveLength
<1>4. ServerGiven(0) <= ClientGiven(0)
  <2>1. PICK l, w, s, c, v, tot, cq :
          /\ l = Len(landed[0]) /\ w = Len(wire[0]) /\ s = Len(sq[0])
          /\ c = ClientGiven(0) /\ v = ServerGiven(0)
          /\ tot = sv_stat[0].tot_pkt /\ cq = sv_cq[0]
    OBVIOUS
  <2>2. /\ l \in Nat /\ w \in Nat /\ s \in Nat /\ c \in Nat /\ v \in Nat
        /\ c >= l + w + s
    BY ONLY <1>2, <1>3, <2>1, Zenon
  <2>3. /\ tot + cq = l /\ tot + sv_stat[0].qlen = v
    BY <1>2, <2>1 DEF Completed, PathPosted
  <2>4. tot \in Nat /\ cq \in Nat /\ cq <= 0
    BY <1>2, <2>1 DEF Held
  <2>5. v <= c
    BY ONLY <2>2, <2>3, <2>4, sv_stat[0].qlen = 0
  <2> QED
    BY ONLY <2>1, <2>5, Zenon
<1> DEFINE sn == sv_table.sqn
           cn == cl_table.sqn
<1>5. /\ Posting(sizes, cn, cl_call, cl_post_turn, cl_cum)
      /\ Posting(sizes, sn, sv_call, sv_post_turn, sv_cum) /\ SameCount
  BY <1>2 DEF SidesInv
<1>6. /\ cn \in 0 .. MaxMsgs /\ Len(cl_cum) = cn + 1 /\ sn \in 0 .. MaxMsgs /\ Len(sv_cum) = sn + 1
      /\ Counts(cl_cum) /\ Counts(sv_cum)
  BY <1>2, <1>5, CountsAgree DEF Posting
<1>7. ClientGiven(0) <= cl_cum[cn + 1] /\ cl_cum[cn + 1] \in Nat
  <2>1. cl_cum[cn + 1] \in Nat
    BY <1>6 DEF Counts
  <2>2. CASE cl_call.pc = "idle"
    BY <2>1, <2>2 DEF ClientGiven, Given
  <2>3. CASE cl_call.pc # "idle"
    <3>1. /\ cl_cum[cn] \in Nat /\ cl_call.i \div NumPath \in Nat
          /\ cl_cum[cn] + (cl_call.i \div NumPath) < cl_cum[cn + 1]
      BY <1>5, <2>3, PostingRound
    <3>2. PICK d : d = cl_call.i \div NumPath
      OBVIOUS
    <3>3. ClientGiven(0) \in {cl_cum[cn] + d, cl_cum[cn] + d + 1}
      BY <2>3, <3>1, <3>2 DEF ClientGiven, Given
    <3> QED
      BY <2>1, <3>1, <3>2, <3>3
  <2> QED
    BY <2>2, <2>3
<1>8. sn > 0 => sv_cum[sn] < ServerGiven(0) /\ sv_cum[sn] \in Nat
  <2> SUFFICES ASSUME sn > 0
               PROVE  sv_cum[sn] < ServerGiven(0) /\ sv_cum[sn] \in Nat
    OBVIOUS
  <2>1. CASE sv_call.pc = "idle"
    <3>1. sv_cum[sn] < sv_cum[sn + 1] /\ sv_cum[sn] \in Nat
      <4>1. sn \in 1 .. Len(sv_cum) /\ sn + 1 \in 1 .. Len(sv_cum) /\ sn < sn + 1
        BY <1>6
      <4>2. \A j, k \in 1 .. Len(sv_cum) : j < k => sv_cum[j] < sv_cum[k]
        BY <1>6 DEF Counts
      <4>3. sv_cum[sn] \in Nat
        BY <1>6, <4>1, CountsGrow
      <4> HIDE DEF sn
      <4> QED
        BY ONLY <4>1, <4>2, <4>3
    <3> QED
      BY <2>1, <3>1 DEF ServerGiven, Given
  <2>2. CASE sv_call.pc = "drain"
    <3>1. /\ sv_cum[sn] \in Nat /\ sv_call.i \div NumPath \in Nat
      BY <1>5, <2>2, PostingRound
    <3>2. sv_post_turn \in 0 .. NumPath - 1
      BY <1>5, PostingFacts
    <3>3. PICK d : d = sv_call.i \div NumPath
      OBVIOUS
    <3>4. 0 < sv_post_turn \/ 0 = sv_post_turn
      BY <3>2
    <3>5. ServerGiven(0) = sv_cum[sn] + d + 1
      BY <2>2, <3>3, <3>4 DEF ServerGiven, Given
    <3> QED
      BY <3>1, <3>3, <3>5
  <2> QED
    BY <2>1, <2>2
<1>9. ASSUME sn > cn
      PROVE  FALSE
  <2>1. sn > 0 /\ cn + 1 \in 1 .. sn /\ cn + 1 \in 1 .. MaxMsgs + 1
    BY <1>6, <1>9
  <2>2. cl_cum[cn + 1] = sv_cum[cn + 1]
    BY <1>5, <1>6, <2>1 DEF SameCount
  <2>3. sv_cum[cn + 1] <= sv_cum[sn]
    <3>1. cn + 1 \in 1 .. Len(sv_cum) /\ sn \in 1 .. Len(sv_cum) /\ cn + 1 <= sn
      BY <1>6, <2>1
    <3> QED
      BY <1>6, <3>1, CountsGrow
  <2>4. sv_cum[sn] < ServerGiven(0) /\ sv_cum[sn] \in Nat
    BY <1>8, <2>1
  <2>5. PICK a, b, c, d : /\ a = sv_cum[cn + 1] /\ b = sv_cum[sn]
                          /\ c = ServerGiven(0) /\ d = ClientGiven(0)
    OBVIOUS
  <2>6. /\ a \in Nat /\ b \in Nat /\ c \in Nat /\ d \in Nat
        /\ a <= b /\ b < c /\ c <= d /\ d <= a
    BY ONLY <1>3, <1>4, <1>7, <2>2, <2>3, <2>4, <2>5, Zenon
  <2> QED
    BY ONLY <2>6
<1> QED
  BY <1>6, <1>9

(* The server's steps preserve the invariant. *)
LEMMA BlindServer ==
  ASSUME BlindInv, ServerNext \/ Timeout
  PROVE  BlindInv'
<1>1. /\ cl_rec' = cl_rec /\ cl_table' = cl_table /\ cl_slot' = cl_slot /\ sizes' = sizes
  BY DEF ServerNext, ServerPost, ServerPostPacket, ServerCutShort, ServerPoll, ServerRecovers,
         Timeout, ServerOnly, clVars, clRec
<1>2. /\ ControlInv /\ Plane(sv_rec, sv_rep) /\ PhaseAt(sv_rec) /\ TableShape(sv_table)
      /\ Filling(sv_table) /\ RecShape(sv_rec) /\ RepShape(sv_rep)
  BY DEF BlindInv, ControlInv, Plane
<1>3. ControlInv'
  BY <1>2, ControlServer
<1>4. ServerMove(sv_rec, sv_rep, sv_table.next, sv_rec', sv_rep')
  BY <1>2, ServerSteps
<1>5. Unreported' => Unreported
  BY <1>4 DEF Unreported, ServerMove, ServerAlone, Detects, Reports, AwaitsAck, ServerWorks, ServerEnds
<1>6. Unreported => BeforeReport'
  BY <1>2, ServerBefore DEF BlindInv
<1>7. Filling(sv_table')
  <2>1. CASE ServerPost
    <3>1. PICK n : sv_table' = [sv_table EXCEPT !.next = ServerRec!Wrap(@ + 1), !.sqn = @ + 1,
                                                !.wqe[sv_table.next] = n]
      BY <2>1, Zenon DEF ServerPost, ServerRec!PostMessage, ServerRec!Post, ServerRec!StoreWr
    <3>2. sv_table'.sqn = sv_table.sqn + 1 /\ sv_table'.next = ServerRec!Wrap(sv_table.next + 1)
      BY <1>2, <3>1 DEF TableShape
    <3> QED
      <4>1. PICK x, y : x = sv_table.next /\ y = sv_table.sqn
        OBVIOUS
      <4>2. x \in 0 .. TableLen - 1 /\ y \in Nat /\ x <= y /\ (y < TableLen => x = y)
        BY <1>2, <4>1 DEF Filling, NextFits, TableShape
      <4>3. sv_table'.sqn = y + 1 /\ sv_table'.next = IF x + 1 = TableLen THEN 0 ELSE x + 1
        BY <3>2, <4>1 DEF ServerRec!Wrap
      <4> QED
        BY ONLY <4>2, <4>3, TransferAssumption DEF Filling, NextFits
  <2>2. CASE ~ ServerPost
    <3>1. \/ sv_table' = sv_table
          \/ \E n, h : sv_table' = [sv_table EXCEPT !.wqe[sv_table.head].valid = n, !.head = h]
          \/ \E k, p, n : sv_table' = [sv_table EXCEPT !.wqe[k].iter_each[p] = n]
      <4> DEFINE Kept == sv_table' = sv_table
                 Reported == \E n, h : sv_table' = [sv_table EXCEPT !.wqe[sv_table.head].valid = n,
                                                                    !.head = h]
                 Resent == \E k, p, n : sv_table' = [sv_table EXCEPT !.wqe[k].iter_each[p] = n]
      <4>1. ServerRec!PollComplete => Reported
        BY DEF ServerRec!PollComplete
      <4>2. ServerRec!DrainPoll \/ ServerRec!PollProgress => Kept
        BY DEF ServerRec!DrainPoll, ServerRec!PollProgress
      <4>3. \A r : ServerRec!RecoveryPoll(r) => Kept \/ Resent
        <5>1. TAKE r
        <5>2. PICK e, k, z : e = ServerRec!Err /\ k = sv_rec.poll /\ z = 0
          OBVIOUS
        <5>3. ServerRec!RecoveryPoll(r) =>
                Kept \/ sv_table' = [sv_table EXCEPT !.wqe[k].iter_each[e] = z]
          BY <5>2 DEF ServerRec!RecoveryPoll
        <5> QED
          BY <5>3
      <4>4. CASE ServerPostPacket \/ ServerCutShort \/ Timeout
        BY <4>4, Zenon DEF ServerPostPacket, ServerCutShort, Timeout, ServerPacket, Server!PostPacket,
           ServerRec!CutShort, ServerRec!Detect, ServerRec!vars
      <4>5. CASE ServerPoll
        <5> HIDE DEF Kept, Reported, Resent
        <5>1. Kept \/ Reported
          BY <4>1, <4>2, <4>5 DEF ServerPoll, ServerRec!PlainPoll
        <5> QED
          BY <5>1, Zenon DEF Kept, Reported
      <4>6. CASE ServerRec!PassReports \/ ServerRec!ResendDrain \/ ServerRec!PassPolls
        <5>1. Kept \/ Reported \/ Resent
          <6> HIDE DEF Kept, Reported, Resent
          <6>1. CASE ServerRec!PassReports
            BY <4>1, <6>1 DEF ServerRec!PassReports
          <6>2. CASE ServerRec!ResendDrain
            BY <4>3, <6>2 DEF ServerRec!ResendDrain
          <6>3. CASE ServerRec!PassPolls
            BY <4>3, <6>3 DEF ServerRec!PassPolls, Kept
          <6> QED
            BY <4>6, <6>1, <6>2, <6>3
        <5> QED
          BY <5>1, Zenon
      <4>7. CASE \/ ServerRec!TakeReport \/ ServerRec!Clear \/ ServerRec!Told
                 \/ ServerRec!AllResent \/ ServerRec!StartResend \/ ServerRec!ResendPacket
                 \/ ServerRec!Finish \/ ServerRec!Sync
        BY <4>7, Zenon DEF ServerRec!TakeReport, ServerRec!Clear, ServerRec!Told,
           ServerRec!AllResent, ServerRec!StartResend, ServerRec!ResendPacket,
           ServerRec!Finish, ServerRec!Sync, ServerRec!vars
      <4> HIDE DEF Kept, Reported, Resent
      <4> QED
        BY <2>2, <4>4, <4>5, <4>6, <4>7, Zenon
           DEF ServerNext, ServerRecovers, ServerRec!RecoveryStep
    <3>2. sv_table'.sqn = sv_table.sqn /\ sv_table'.next = sv_table.next
      BY <1>2, <3>1, Zenon DEF TableShape
    <3> QED
      BY <1>2, <3>2 DEF Filling, NextFits
  <2> QED
    BY <2>1, <2>2
<1>8. Phase(sv_rec') = "clear" => sv_call'.pc \in {"idle", "drain"}
  <2> SUFFICES ASSUME Phase(sv_rec') = "clear"
               PROVE  sv_call'.pc \in {"idle", "drain"}
    OBVIOUS
  <2>1. Phase(sv_rec) \in {"none", "clear"}
    BY <1>5 DEF Unreported
  <2>2. CASE Phase(sv_rec) = "clear"
    <3>1. sv_rec.at \in {"clear", "nokey"}
      BY <2>2 DEF Phase
    <3>2. sv_call' = sv_call
      BY <3>1 DEF ServerNext, ServerPost, ServerPostPacket, ServerCutShort, ServerPoll, ServerRecovers,
           Timeout, ServerRec!PostMessage, ServerRec!CutShort, ServerRec!PlainPoll, ServerRec!Polls,
           ServerRec!RecoveryStep, ServerRec!TakeReport, ServerRec!Clear, ServerRec!Told,
           ServerRec!AllResent, ServerRec!StartResend, ServerRec!ResendPacket, ServerRec!ResendDrain,
           ServerRec!Finish, ServerRec!Sync, ServerRec!PassReports, ServerRec!PassPolls,
           ServerRec!Detect, ServerRec!InPass
    <3> QED
      BY <2>2, <3>2 DEF BlindInv
  <2>3. CASE Phase(sv_rec) = "none"
    <3>1. sv_rec.at = "out" /\ ~ sv_rec.flag /\ ~ sv_rec.over
      BY <1>2, <2>3 DEF PhaseAt, Phase
    <3>2. sv_rec'.flag
      BY DEF Phase
    <3>3. CASE Timeout
      BY <3>3 DEF Timeout, ServerRec!Detect, ServerRec!Polls, ServerRec!AppPolls, ServerRec!vars
    <3>4. CASE ServerNext
      <4>1. sv_rec' = sv_rec \/ \E x : sv_rec' = [sv_rec EXCEPT !.listening = x]
        BY <3>1, <3>4 DEF ServerNext, ServerPost, ServerPostPacket, ServerCutShort, ServerPoll,
           ServerRecovers, svRec, ServerRec!recVars,
           ServerRec!PostMessage, ServerRec!CutShort, ServerRec!PlainPoll,
           ServerRec!RecoveryStep, ServerRec!TakeReport, ServerRec!Clear, ServerRec!Told,
           ServerRec!AllResent, ServerRec!StartResend, ServerRec!ResendPacket, ServerRec!ResendDrain,
           ServerRec!Finish, ServerRec!Sync, ServerRec!PassReports, ServerRec!PassPolls,
           ServerRec!InPass
      <4>2. sv_rec'.flag = sv_rec.flag
        BY <1>2, <4>1 DEF RecShape
      <4> QED
        BY <3>1, <3>2, <4>2
    <3> QED
      BY <3>3, <3>4
  <2> QED
    BY <2>1, <2>2, <2>3
<1>9. ~ Unreported' => Known(sv_rec'.msg, cl_table.sqn)
  <2>1. CASE ~ Unreported
    <3>1. sv_rec'.msg = sv_rec.msg
      BY <1>4, <2>1 DEF Unreported, ServerMove, ServerAlone, Detects, Reports, AwaitsAck, ServerWorks,
                        ServerEnds
    <3> QED
      BY <2>1, <3>1 DEF BlindInv
  <2>2. CASE Unreported
    <3> SUFFICES ASSUME ~ Unreported'
                 PROVE  Known(sv_rec'.msg, cl_table.sqn)
      OBVIOUS
    <3>1. /\ Phase(sv_rec) = "clear" /\ Phase(sv_rec') = "told"
          /\ sv_rec'.msg.max = sv_table.next - 1
      BY <1>4, <2>2 DEF Unreported, ServerMove, ServerAlone, Detects, Reports, AwaitsAck, ServerWorks,
                        ServerEnds
    <3>2. sv_rec.at \in {"clear", "nokey"} /\ sv_rec'.at = "told"
      BY <3>1 DEF Phase
    <3>3. ServerRec!Clear
      BY <3>2 DEF ServerNext, ServerPost, ServerPostPacket, ServerCutShort, ServerPoll, ServerRecovers,
           Timeout, ServerRec!PostMessage, ServerRec!CutShort, ServerRec!PlainPoll, ServerRec!Polls,
           ServerRec!RecoveryStep, ServerRec!TakeReport, ServerRec!Told,
           ServerRec!AllResent, ServerRec!StartResend, ServerRec!ResendPacket, ServerRec!ResendDrain,
           ServerRec!Finish, ServerRec!Sync, ServerRec!PassReports, ServerRec!PassPolls,
           ServerRec!Detect, ServerRec!InPass
    <3>4. /\ \A p \in Survivors : ~ (sv_stat'[p].qlen > 0)
          /\ sv_rec'.msg.loss = sv_stat'[LastPath].wqe_idx
          /\ sv_call' = sv_call /\ sv_table' = sv_table
      <4>1. /\ sv_call' = sv_call /\ sv_table' = sv_table
            /\ sv_rec' # sv_rec /\ sv_rec' # [sv_rec EXCEPT !.at = "nokey"]
        BY <1>2, <3>2, <3>3 DEF ServerRec!Clear, RecShape
      <4>2. PICK msg : msg = [loss |-> sv_stat'[ServerRec!Err].wqe_idx,
                              max |-> sv_table.next - 1,
                              completed |-> sv_stat'[ServerRec!Err].comp_temp]
        OBVIOUS
      <4>3. /\ \A p \in Survivors : ~ (sv_stat'[p].qlen > 0)
            /\ sv_rec' = [sv_rec EXCEPT !.at = "told", !.msg = msg]
        BY <3>3, <4>1, <4>2 DEF ServerRec!Clear, ServerRec!Survivors, Survivors
      <4>4. sv_rec'.msg = msg
        BY <1>2, <4>3 DEF RecShape
      <4> QED
        BY <4>1, <4>2, <4>3, <4>4 DEF ServerRec!Err, LastPath
    <3>5. BeforeReport'
      BY <1>6, <2>2
    <3>6. 0 \in Survivors /\ 0 \in Paths /\ LastPath \in Paths
      BY FailoverAssumption, TransferAssumption DEF Survivors, Paths, LastPath
    <3>7. Held(sv_stat'[0], sv_cq'[0]) /\ Held(sv_stat'[LastPath], sv_cq'[LastPath])
      BY <3>5, <3>6 DEF BeforeReport, AllHeld
    <3>8. sv_stat'[0].qlen = 0 /\ sv_stat'[LastPath].wqe_idx \in 0 .. TableLen - 1
      BY <3>4, <3>6, <3>7 DEF Held
    <3>9. sv_call'.pc \in {"idle", "drain"}
      BY <3>1, <3>4 DEF BlindInv
    <3>10. (sv_table.sqn <= cl_table.sqn)'
      <4>1. (BeforeReport /\ sv_call.pc \in {"idle", "drain"} /\ sv_stat[0].qlen = 0
               => sv_table.sqn <= cl_table.sqn)'
        BY ServerBehind, PTL
      <4> QED
        BY <3>5, <3>8, <3>9, <4>1
    <3>11. sv_table.next - 1 < cl_table.sqn /\ sv_table.next - 1 \in -1 .. TableLen - 1
      <4>1. PICK n, s, c : n = sv_table.next /\ s = sv_table.sqn /\ c = cl_table.sqn
        OBVIOUS
      <4>2. /\ n \in 0 .. TableLen - 1 /\ s \in Nat /\ c \in Nat /\ n <= s /\ s <= c
        BY <1>1, <1>2, <3>4, <3>10, <4>1 DEF TableShape, NextFits, BlindInv, Filling
      <4> QED
        BY ONLY <4>1, <4>2, TransferAssumption
    <3> QED
      BY <3>1, <3>4, <3>8, <3>11 DEF Known
  <2> QED
    BY <2>1, <2>2
<1>10. /\ InRange(cl_rec', cl_table'.sqn) /\ SlotsUsed(cl_rec', cl_table'.sqn, cl_slot')
       /\ Filling(cl_table') /\ cl_rec'.at # "crash" /\ sizes' \in [1 .. MaxMsgs -> Sizes]
  BY <1>1 DEF BlindInv, NeverBlind
<1> QED
  BY <1>1, <1>3, <1>5, <1>6, <1>7, <1>8, <1>9, <1>10 DEF BlindInv, NeverBlind

(* So do those of the cards and of the network. *)
LEMMA BlindCards ==
  ASSUME BlindInv,
         \/ PathFails \/ LeaveFailed \/ \E p \in Paths : PacketLeaves(p) \/ PacketArrives(p)
         \/ ReportLeavesClient \/ ReportLeavesServer
         \/ \E p \in Survivors : ReportArrives(p)
  PROVE  BlindInv'
<1>1. /\ cl_rec' = cl_rec /\ cl_slot' = cl_slot /\ cl_table' = cl_table
      /\ sv_rec' = sv_rec /\ sv_table' = sv_table /\ sv_call' = sv_call /\ sizes' = sizes
  BY DEF PathFails, LeaveFailed, PacketLeaves, PacketArrives, Leave, Arrive, Fill,
         Client!NicComplete, Server!NicComplete, clVars, svVars, clRec, svRec, repNet,
         ReportLeavesClient, ReportLeavesServer, ReportArrives, vars
<1>2. ControlInv'
  BY ControlCards, ControlLeaves, ControlArrives DEF BlindInv
<1>3. ASSUME Unreported
      PROVE  BeforeReport'
  <2>1. BeforeReport
    BY <1>3 DEF BlindInv
  <2>2. CASE PathFails \/ LeaveFailed \/ \E p \in Paths : PacketLeaves(p) \/ PacketArrives(p)
    BY <2>1, <2>2, CardsBefore
  <2>3. CASE \/ ReportLeavesClient \/ ReportLeavesServer \/ \E p \in Survivors : ReportArrives(p)
    <3>1. UNCHANGED vars
      BY <2>3 DEF ReportLeavesClient, ReportLeavesServer, ReportArrives
    <3> QED
      BY <2>1, <3>1, BeforeSame
  <2> QED
    BY <2>2, <2>3
<1> QED
  BY <1>1, <1>2, <1>3 DEF BlindInv, NeverBlind, Filling, NextFits, Unreported, Phase

(* The invariant holds at first, ... *)
LEMMA BlindInit == FailoverInit => BlindInv
<1> SUFFICES ASSUME FailoverInit
             PROVE  BlindInv
  OBVIOUS
<1>1. ControlInv
  BY ControlInit
<1>2. /\ Phase(cl_rec) = "none" /\ cl_rec.at = "out" /\ Phase(sv_rec) = "none"
      /\ cl_slot = [k \in 0 .. TableLen - 1 |-> [len |-> 0, need |-> 0]]
  BY DEF FailoverInit, ClientRec!RecInit, ServerRec!RecInit, Phase, ClientRec!Slots
<1>3. /\ cl_table.sqn = 0 /\ cl_table.next = 0 /\ sv_table.sqn = 0 /\ sv_table.next = 0
      /\ sizes \in [1 .. MaxMsgs -> Sizes]
  BY DEF FailoverInit, Init, Client!Init, Server!Init
<1>4. BeforeReport
  BY BeforeInit
<1>5. SlotsUsed(cl_rec, cl_table.sqn, cl_slot)
  BY <1>2, <1>3 DEF SlotsUsed
<1> QED
  BY <1>1, <1>2, <1>3, <1>4, <1>5, TransferAssumption
     DEF BlindInv, Filling, NextFits, InRange, Unreported, NeverBlind

(* ... every step preserves it, ... *)
LEMMA BlindStep ==
  ASSUME BlindInv, [FailoverNext]_allVars
  PROVE  BlindInv'
<1>1. CASE ClientNext
  BY <1>1, BlindClient
<1>2. CASE ServerNext \/ Timeout
  BY <1>2, BlindServer
<1>3. CASE \/ PathFails \/ LeaveFailed \/ \E p \in Paths : PacketLeaves(p) \/ PacketArrives(p)
           \/ ReportLeavesClient \/ ReportLeavesServer
           \/ \E p \in Survivors : ReportArrives(p)
  BY <1>3, BlindCards
<1>4. CASE UNCHANGED allVars
  <2>1. UNCHANGED vars /\ UNCHANGED clRec /\ UNCHANGED svRec
    BY <1>4 DEF allVars
  <2>2. ControlInv'
    BY <1>4, ControlStep DEF BlindInv
  <2>3. Unreported => BeforeReport'
    BY <2>1, BeforeSame DEF BlindInv
  <2> QED
    BY <2>1, <2>2, <2>3
       DEF BlindInv, NeverBlind, Filling, NextFits, Unreported, Phase, vars, clVars, svVars, clRec, svRec
<1> QED
  BY <1>1, <1>2, <1>3, <1>4 DEF FailoverNext

(***************************************************************************)
(* The client never resends from a slot it has not used (the scatter list  *)
(* in mprud_recovery_client), whatever the server has posted in advance.   *)
(***************************************************************************)
THEOREM ClientResendsWhatItHas == FailoverSpec => []NeverBlind
<1>1. FailoverInit => BlindInv
  BY BlindInit
<1>2. BlindInv /\ [FailoverNext]_allVars => BlindInv'
  BY BlindStep
<1>3. BlindInv => NeverBlind
  BY DEF BlindInv
<1> QED
  BY <1>1, <1>2, <1>3, PTL DEF FailoverSpec
-----------------------------------------------------------------------------
(***************************************************************************)
(* The counters of an endpoint whose call is given up, or path taken out.  *)
(***************************************************************************)
LEMMA ClientTurnTyped ==
  ASSUME ClientTyped,
         \/ ClientRec!CutShort
         \/ ClientRec!Finish /\ cl_active - 1 \in 1 .. NumPath
  PROVE  ClientTyped'
<1>1. CASE ClientRec!CutShort
  <2>1. cl_call' \in [pc : {"idle", "post", "drain"}, i : Nat, iter : Nat, active : 1 .. NumPath]
    <3>1. cl_call \in [pc : {"idle", "post", "drain"}, i : Nat, iter : Nat, active : 1 .. NumPath]
      BY DEF ClientTyped, Client!TypeOK
    <3>2. cl_call' = [cl_call EXCEPT !.pc = "idle"]
      BY <1>1 DEF ClientRec!CutShort
    <3> QED
      BY <3>1, <3>2
  <2>2. 0 \in Client!Paths
    BY TransferAssumption DEF Client!Paths
  <2>3. cl_table.sqn > 0
    BY <1>1 DEF ClientTyped, ClientRec!CutShort
  <2> QED
    BY <1>1, <2>1, <2>2, <2>3 DEF ClientTyped, Client!TypeOK, ClientRec!CutShort
<1>2. CASE ClientRec!Finish /\ cl_active - 1 \in 1 .. NumPath
  <2>1. cl_tot \in [posted : Nat, polled : Nat]
    BY DEF ClientTyped, Client!TypeOK
  <2>2. cl_tot' \in [posted : Nat, polled : Nat]
    <3>1. CASE cl_tot' = cl_tot
      BY <2>1, <3>1
    <3>2. CASE cl_tot' = [cl_tot EXCEPT !.polled = cl_tot.posted]
      <4>1. cl_tot.posted \in Nat
        BY <2>1
      <4> QED
        BY <2>1, <3>2, <4>1
    <3> QED
      BY <1>2, <3>1, <3>2 DEF ClientRec!Finish
  <2> QED
    BY <1>2, <2>2 DEF ClientTyped, Client!TypeOK, ClientRec!Finish
<1> QED
  BY <1>1, <1>2

(* The server's, in the same way. *)
LEMMA ServerTurnTyped ==
  ASSUME ServerTyped,
         \/ ServerRec!CutShort
         \/ ServerRec!Finish /\ sv_active - 1 \in 1 .. NumPath
  PROVE  ServerTyped'
<1>1. CASE ServerRec!CutShort
  <2>1. sv_call' \in [pc : {"idle", "post", "drain"}, i : Nat, iter : Nat, active : 1 .. NumPath]
    <3>1. sv_call \in [pc : {"idle", "post", "drain"}, i : Nat, iter : Nat, active : 1 .. NumPath]
      BY DEF ServerTyped, Server!TypeOK
    <3>2. sv_call' = [sv_call EXCEPT !.pc = "idle"]
      BY <1>1 DEF ServerRec!CutShort
    <3> QED
      BY <3>1, <3>2
  <2>2. 0 \in Server!Paths
    BY TransferAssumption DEF Server!Paths
  <2>3. sv_table.sqn > 0
    BY <1>1 DEF ServerTyped, ServerRec!CutShort
  <2> QED
    BY <1>1, <2>1, <2>2, <2>3 DEF ServerTyped, Server!TypeOK, ServerRec!CutShort
<1>2. CASE ServerRec!Finish /\ sv_active - 1 \in 1 .. NumPath
  <2>1. sv_tot \in [posted : Nat, polled : Nat]
    BY DEF ServerTyped, Server!TypeOK
  <2>2. sv_tot' \in [posted : Nat, polled : Nat]
    <3>1. CASE sv_tot' = sv_tot
      BY <2>1, <3>1
    <3>2. CASE sv_tot' = [sv_tot EXCEPT !.polled = sv_tot.posted]
      <4>1. sv_tot.posted \in Nat
        BY <2>1
      <4> QED
        BY <2>1, <3>2, <4>1
    <3> QED
      BY <1>2, <3>1, <3>2 DEF ServerRec!Finish
  <2> QED
    BY <1>2, <2>2 DEF ServerTyped, Server!TypeOK, ServerRec!Finish
<1> QED
  BY <1>1, <1>2

(***************************************************************************)
(* What mprud_recovery_poll counts: of the WQEs from loss on, packets are   *)
(* given to the report QP in order, last is the last WQE of which one is   *)
(* given, and begun is how many are of the one that is not resent in full. *)
(* need[k] is comp_need of WQE k, and c[k] the number of packets of the    *)
(* WQEs before k.                                                          *)
(***************************************************************************)
Resends(at) == at \in {"resend", "rdrain"}

LastBegun(at, post) == IF Resends(at) THEN post ELSE post - 1
Begun(at, i) == IF at = "resend" THEN i ELSE IF at = "rdrain" THEN i + 1 ELSE 0

Books(at, i, iter, out, pkt, post, poll, loss, need, c, limit) ==
  LET last == LastBegun(at, post)
  IN  /\ i \in Nat /\ iter \in Nat /\ pkt \in Nat /\ out \in 0 .. limit
      /\ post \in 0 .. TableLen /\ poll \in 0 .. TableLen /\ loss \in 0 .. TableLen
      /\ loss <= post /\ loss <= poll /\ poll <= last + 1
      /\ Resends(at) => post < TableLen /\ iter = need[post] /\ i < iter
      /\ at # "rdrain" => out < limit
      /\ \A k \in loss .. last : need[k] \in Nat \ {0} /\ c[k + 1] = c[k] + need[k]
      /\ IF poll <= last THEN pkt < need[poll] ELSE pkt = 0
      /\ c[poll] + pkt + out = c[post] + Begun(at, i)

(* A completion is counted. *)
LEMMA BooksCount ==
  ASSUME NEW at, NEW i, NEW iter, NEW out, NEW pkt, NEW post, NEW poll, NEW loss, NEW need,
         NEW c \in [0 .. TableLen -> Nat], NEW limit \in Nat \ {0},
         Books(at, i, iter, out, pkt, post, poll, loss, need, c, limit), out > 0
  PROVE  /\ need[poll] \in Nat \ {0} /\ poll <= LastBegun(at, post) /\ poll < TableLen
         /\ Books(at, i, iter, out - 1, (pkt + 1) % need[poll], post,
                  poll + (pkt + 1) \div need[poll], loss, need, c, limit)
<1> USE TransferAssumption
<1>1. PICK last, b : last = LastBegun(at, post) /\ b = Begun(at, i)
  OBVIOUS
<1>2. /\ i \in Nat /\ iter \in Nat /\ pkt \in Nat /\ out \in Nat /\ out <= limit
      /\ post \in Nat /\ post <= TableLen /\ poll \in Nat /\ poll <= TableLen /\ loss \in Nat
      /\ loss <= post /\ loss <= poll /\ poll <= last + 1
      /\ last \in Int /\ last < TableLen /\ b \in Nat
      /\ c[poll] \in Nat /\ c[post] \in Nat
  BY <1>1 DEF Books, LastBegun, Begun, Resends
<1>3. /\ IF poll <= last THEN pkt < need[poll] ELSE pkt = 0
      /\ c[poll] + pkt + out = c[post] + b
      /\ \A k \in loss .. last : need[k] \in Nat \ {0} /\ c[k + 1] = c[k] + need[k]
  BY <1>1 DEF Books
<1>4. \/ last = post - 1 /\ b = 0
      \/ last = post /\ post < TableLen /\ need[post] \in Nat /\ b <= need[post]
  BY <1>1 DEF Books, LastBegun, Begun, Resends
<1>5. poll <= last
  <2> SUFFICES ASSUME poll = last + 1
               PROVE  FALSE
    BY ONLY <1>2, poll <= last
  <2>1. pkt = 0
    BY ONLY <1>2, <1>3, poll = last + 1
  <2>2. CASE last = post - 1 /\ b = 0
    <3>1. poll = post
      BY ONLY <1>2, <2>2, poll = last + 1
    <3> QED
      BY ONLY <1>2, <1>3, <2>1, <2>2, <3>1, out > 0
  <2>3. CASE last = post /\ post < TableLen /\ need[post] \in Nat /\ b <= need[post]
    <3>1. poll = post + 1 /\ post \in loss .. last
      BY ONLY <1>2, <2>3, poll = last + 1
    <3>2. c[post + 1] = c[post] + need[post]
      BY ONLY <1>3, <3>1
    <3> QED
      BY ONLY <1>2, <1>3, <2>1, <2>3, <3>1, <3>2, out > 0
  <2> QED
    BY <1>4, <2>2, <2>3
<1>6. PICK n \in Nat \ {0} : n = need[poll] /\ c[poll + 1] = c[poll] + n /\ pkt < n
  <2>1. poll \in loss .. last
    BY ONLY <1>2, <1>5
  <2> QED
    BY <1>3, <1>5, <2>1
<1>7. PICK pkt2, poll2 : pkt2 = (pkt + 1) % n /\ poll2 = poll + (pkt + 1) \div n
  OBVIOUS
<1>8. \/ pkt + 1 < n /\ pkt2 = pkt + 1 /\ poll2 = poll
      \/ pkt + 1 = n /\ pkt2 = 0 /\ poll2 = poll + 1
  <2>1. CASE pkt + 1 < n
    <3>1. pkt + 1 = n * 0 + (pkt + 1) /\ pkt + 1 \in 0 .. n - 1 /\ pkt + 1 \in Nat
      BY ONLY <1>2, <2>1, n \in Nat \ {0}
    <3>2. (pkt + 1) % n = pkt + 1 /\ (pkt + 1) \div n = 0
      BY ONLY <3>1, DivModUnique, n \in Nat \ {0}
    <3> QED
      BY ONLY <1>2, <1>7, <2>1, <3>2
  <2>2. CASE pkt + 1 = n
    <3>1. n = n * 1 + 0 /\ 0 \in 0 .. n - 1
      BY ONLY n \in Nat \ {0}
    <3>2. n % n = 0 /\ n \div n = 1
      BY ONLY <3>1, DivModUnique, n \in Nat \ {0}
    <3> QED
      BY ONLY <1>2, <1>7, <2>2, <3>2
  <2> QED
    BY ONLY <1>2, <1>6, <2>1, <2>2, n \in Nat \ {0}
<1>9. /\ pkt2 \in Nat /\ out - 1 \in 0 .. limit /\ out - 1 < limit
      /\ poll2 \in 0 .. TableLen /\ loss <= poll2 /\ poll2 <= last + 1
  BY ONLY <1>2, <1>5, <1>8, out > 0, TransferAssumption, limit \in Nat \ {0}
<1>10. IF poll2 <= last THEN pkt2 < need[poll2] ELSE pkt2 = 0
  <2>1. CASE poll2 = poll
    BY ONLY <1>5, <1>6, <1>8, <1>2, <2>1, n \in Nat \ {0}
  <2>2. CASE poll2 = poll + 1 /\ pkt2 = 0
    <3>1. poll2 <= last => poll2 \in loss .. last
      BY ONLY <1>2, <1>9
    <3>2. poll2 <= last => need[poll2] \in Nat \ {0}
      BY ONLY <1>3, <3>1
    <3> QED
      BY ONLY <2>2, <3>2
  <2> QED
    BY ONLY <1>8, <2>1, <2>2
<1>11. c[poll2] + pkt2 + (out - 1) = c[post] + b
  <2>1. CASE pkt2 = pkt + 1 /\ poll2 = poll
    BY ONLY <1>2, <1>3, <2>1
  <2>2. CASE pkt + 1 = n /\ pkt2 = 0 /\ poll2 = poll + 1
    <3>1. PICK x, y, z : x = c[poll] /\ y = c[post] /\ z = c[poll2]
      OBVIOUS
    <3>2. x \in Nat /\ y \in Nat /\ z = x + n /\ x + pkt + out = y + b
      BY ONLY <1>2, <1>3, <1>6, <2>2, <3>1
    <3>3. z + 0 + (out - 1) = y + b
      BY ONLY <1>2, <2>2, <3>2, n \in Nat \ {0}
    <3> QED
      BY ONLY <2>2, <3>1, <3>3, Zenon
  <2> QED
    BY <1>8, <2>1, <2>2
<1>12. Books(at, i, iter, out - 1, pkt2, post, poll2, loss, need, c, limit)
  BY <1>1, <1>9, <1>10, <1>11 DEF Books
<1> QED
  BY <1>1, <1>2, <1>5, <1>6, <1>7, <1>12

(* A packet is given to the report QP. *)
LEMMA BooksGive ==
  ASSUME NEW i, NEW iter, NEW out, NEW pkt, NEW post, NEW poll, NEW loss, NEW need,
         NEW c \in [0 .. TableLen -> Nat], NEW limit \in Nat \ {0},
         Books("resend", i, iter, out, pkt, post, poll, loss, need, c, limit)
  PROVE  Books("rdrain", i, iter, out + 1, pkt, post, poll, loss, need, c, limit)
<1>1. /\ LastBegun("resend", post) = post /\ LastBegun("rdrain", post) = post
      /\ Begun("resend", i) = i /\ Begun("rdrain", i) = i + 1
      /\ Resends("resend") /\ Resends("rdrain")
  BY DEF LastBegun, Begun, Resends
<1>2. /\ c[poll] \in Nat /\ c[post] \in Nat /\ i \in Nat /\ pkt \in Nat /\ out \in Nat /\ out < limit
      /\ c[poll] + pkt + out = c[post] + i
  BY <1>1, TransferAssumption DEF Books
<1>3. c[poll] + pkt + (out + 1) = c[post] + (i + 1) /\ out + 1 \in 0 .. limit
  <2>1. PICK x \in Nat, y \in Nat : x = c[poll] /\ y = c[post]
    BY <1>2
  <2> QED
    <3>1. x + pkt + out = y + i /\ i \in Nat /\ pkt \in Nat /\ out \in Nat /\ out < limit
      BY ONLY <1>2, <2>1, Zenon
    <3>2. x + pkt + (out + 1) = y + (i + 1) /\ out + 1 \in 0 .. limit
      BY ONLY <3>1, x \in Nat, y \in Nat, limit \in Nat \ {0}
    <3> QED
      BY ONLY <2>1, <3>2, Zenon
<1> QED
  BY ONLY <1>1, <1>3, Books("resend", i, iter, out, pkt, post, poll, loss, need, c, limit) DEF Books

(* The loop goes on, in the WQE or after it.                                *)
LEMMA BooksNext ==
  ASSUME NEW i, NEW iter, NEW out, NEW pkt, NEW post, NEW poll, NEW loss, NEW need,
         NEW c \in [0 .. TableLen -> Nat], NEW limit \in Nat \ {0}, out < limit,
         Books("rdrain", i, iter, out, pkt, post, poll, loss, need, c, limit)
  PROVE  IF i + 1 = iter
           THEN Books("polls", i + 1, iter, out, pkt, post + 1, poll, loss, need, c, limit)
           ELSE Books("resend", i + 1, iter, out, pkt, post, poll, loss, need, c, limit)
<1>1. /\ c[poll] \in Nat /\ c[post] \in Nat /\ i \in Nat /\ iter \in Nat /\ i < iter
      /\ post \in Nat /\ post < TableLen /\ loss \in Nat /\ loss <= post /\ iter = need[post]
      /\ c[poll] + pkt + out = c[post] + (i + 1)
      /\ \A k \in loss .. post : need[k] \in Nat \ {0} /\ c[k + 1] = c[k] + need[k]
      /\ pkt \in Nat /\ out \in Nat
  <2>1. TableLen \in Nat
    BY TransferAssumption
  <2>2. LastBegun("rdrain", post) = post /\ Begun("rdrain", i) = i + 1 /\ Resends("rdrain")
    BY DEF LastBegun, Begun, Resends
  <2>3. /\ i \in Nat /\ iter \in Nat /\ pkt \in Nat /\ out \in 0 .. limit
        /\ post \in 0 .. TableLen /\ poll \in 0 .. TableLen /\ loss \in 0 .. TableLen
        /\ loss <= post /\ post < TableLen /\ iter = need[post] /\ i < iter
        /\ \A k \in loss .. post : need[k] \in Nat \ {0} /\ c[k + 1] = c[k] + need[k]
        /\ c[poll] + pkt + out = c[post] + (i + 1)
    BY <2>2 DEF Books
  <2>4. out \in Nat /\ post \in Nat /\ loss \in Nat
    BY <2>1, <2>3
  <2>5. c[poll] \in Nat /\ c[post] \in Nat
    BY <2>3
  <2> QED
    BY <2>3, <2>4, <2>5
<1>2. c[post + 1] = c[post] + iter
  BY <1>1
<1>3. CASE i + 1 = iter
  <2>1. c[poll] + pkt + out = c[post + 1] + 0
    <3>1. PICK x \in Nat, y \in Nat, z \in Nat : x = c[poll] /\ y = c[post] /\ z = c[post + 1]
      BY <1>1, TransferAssumption
    <3>2. z = y + iter /\ x + pkt + out = y + (i + 1)
      BY <1>1, <1>2, <3>1
    <3>3. x + pkt + out = z + 0
      <4>1. pkt \in Nat /\ out \in Nat /\ i \in Nat
        BY <1>1
      <4> QED
        BY ONLY <1>3, <3>2, <4>1, x \in Nat, y \in Nat
    <3> QED
      BY ONLY <3>1, <3>3, Zenon
  <2>2. /\ LastBegun("polls", post + 1) = post /\ LastBegun("rdrain", post) = post
        /\ Begun("polls", i + 1) = 0 /\ ~ Resends("polls")
    BY <1>1 DEF LastBegun, Begun, Resends
  <2>3. /\ i + 1 \in Nat /\ post + 1 \in 0 .. TableLen /\ loss <= post + 1
        /\ out \in 0 .. limit
    BY ONLY <1>1, TransferAssumption, out < limit,
            Books("rdrain", i, iter, out, pkt, post, poll, loss, need, c, limit) DEF Books
  <2>4. Books("polls", i + 1, iter, out, pkt, post + 1, poll, loss, need, c, limit)
    BY ONLY <2>1, <2>2, <2>3, out < limit,
            Books("rdrain", i, iter, out, pkt, post, poll, loss, need, c, limit) DEF Books
  <2> QED
    BY <1>3, <2>4
<1>4. CASE i + 1 # iter
  <2>1. LastBegun("resend", post) = post /\ LastBegun("rdrain", post) = post /\ Begun("resend", i + 1) = i + 1
    BY DEF LastBegun, Begun, Resends
  <2>2. /\ Resends("resend") /\ Resends("rdrain") /\ Begun("rdrain", i) = i + 1
        /\ i + 1 \in Nat /\ i + 1 < iter
    BY ONLY <1>1, <1>4 DEF Resends, Begun
  <2>3. Books("resend", i + 1, iter, out, pkt, post, poll, loss, need, c, limit)
    BY ONLY <2>1, <2>2, out < limit,
            Books("rdrain", i, iter, out, pkt, post, poll, loss, need, c, limit) DEF Books
  <2> QED
    BY <1>4, <2>3
<1> QED
  BY <1>3, <1>4

(* The resending of a WQE begins. *)
LEMMA BooksStart ==
  ASSUME NEW at, NEW i, NEW iter, NEW out, NEW pkt, NEW post, NEW poll, NEW loss, NEW need,
         NEW c \in [0 .. TableLen -> Nat], NEW limit \in Nat \ {0},
         Books(at, i, iter, out, pkt, post, poll, loss, need, c, limit), ~ Resends(at),
         post < TableLen, NEW n \in Nat \ {0}, need = [k \in 0 .. TableLen - 1 |-> need[k]]
  PROVE  \E c2 \in [0 .. TableLen -> Nat] :
           Books("resend", 0, n, out, pkt, post, poll, loss, [need EXCEPT ![post] = n], c2, limit)
<1> USE TransferAssumption
<1>1. /\ post \in Nat /\ poll \in Nat /\ loss \in Nat /\ loss <= post /\ loss <= poll /\ poll <= post
      /\ out \in Nat /\ out < limit /\ pkt \in Nat
      /\ c[poll] + pkt + out = c[post] + 0
      /\ IF poll <= post - 1 THEN pkt < need[poll] ELSE pkt = 0
      /\ \A k \in loss .. post - 1 : need[k] \in Nat \ {0} /\ c[k + 1] = c[k] + need[k]
      /\ poll <= TableLen
  <2>1. LastBegun(at, post) = post - 1 /\ Begun(at, i) = 0 /\ at # "rdrain"
    BY DEF LastBegun, Begun, Resends
  <2>2. /\ post \in Nat /\ poll \in Nat /\ loss \in Nat /\ loss <= post /\ loss <= poll
        /\ out \in Nat /\ out < limit /\ pkt \in Nat /\ poll <= TableLen
    BY ONLY <2>1, TransferAssumption, limit \in Nat \ {0},
            Books(at, i, iter, out, pkt, post, poll, loss, need, c, limit) DEF Books
  <2>3. poll <= post - 1 + 1
    BY ONLY <2>1, Books(at, i, iter, out, pkt, post, poll, loss, need, c, limit) DEF Books
  <2>4. poll <= post
    BY ONLY <2>2, <2>3
  <2>5. /\ c[poll] + pkt + out = c[post] + 0
        /\ IF poll <= post - 1 THEN pkt < need[poll] ELSE pkt = 0
        /\ \A k \in loss .. post - 1 : need[k] \in Nat \ {0} /\ c[k + 1] = c[k] + need[k]
    BY ONLY <2>1, Books(at, i, iter, out, pkt, post, poll, loss, need, c, limit), Zenon DEF Books
  <2> QED
    BY ONLY <2>2, <2>4, <2>5, Zenon
<1>2. PICK m \in Nat : m = c[post] + n
  <2>1. post \in 0 .. TableLen
    BY ONLY <1>1, TransferAssumption, post < TableLen
  <2>2. c[post] \in Nat
    BY ONLY <2>1, c \in [0 .. TableLen -> Nat]
  <2> QED
    BY ONLY <2>2, n \in Nat \ {0}
<1>3. PICK c2, need2 : c2 = [c EXCEPT ![post + 1] = m] /\ need2 = [need EXCEPT ![post] = n]
  OBVIOUS
<1>4. /\ c2 \in [0 .. TableLen -> Nat]
      /\ c2[post + 1] = m /\ \A k \in 0 .. post : c2[k] = c[k]
      /\ need2[post] = n /\ \A k \in 0 .. post - 1 : need2[k] = need[k]
  <2>1. post + 1 \in 0 .. TableLen /\ \A k \in 0 .. post : k \in 0 .. TableLen /\ k # post + 1
    BY ONLY <1>1, TransferAssumption, post < TableLen
  <2>2. c2 \in [0 .. TableLen -> Nat] /\ c2[post + 1] = m /\ \A k \in 0 .. post : c2[k] = c[k]
    BY ONLY <1>3, <2>1, m \in Nat, c \in [0 .. TableLen -> Nat]
  <2>3. post \in 0 .. TableLen - 1 /\ \A k \in 0 .. post - 1 : k \in 0 .. TableLen - 1 /\ k # post
    BY ONLY <1>1, TransferAssumption, post < TableLen
  <2>4. need2[post] = n /\ \A k \in 0 .. post - 1 : need2[k] = need[k]
    BY ONLY <1>3, <2>3, need = [k \in 0 .. TableLen - 1 |-> need[k]]
  <2> QED
    BY <2>2, <2>4
<1>5. ASSUME NEW k \in loss .. post
      PROVE  need2[k] \in Nat \ {0} /\ c2[k + 1] = c2[k] + need2[k]
  <2>1. CASE k = post
    <3>1. post \in 0 .. post
      BY ONLY <1>1
    <3>2. c2[k + 1] = c2[k] + n /\ need2[k] = n
      BY ONLY <1>2, <1>4, <2>1, <3>1
    <3> QED
      BY ONLY <3>2, n \in Nat \ {0}
  <2>2. CASE k # post
    <3>1. k \in loss .. post - 1 /\ k \in 0 .. post /\ k + 1 \in 0 .. post /\ k \in 0 .. post - 1
      BY ONLY <1>1, <2>2, k \in loss .. post
    <3> QED
      BY ONLY <1>1, <1>4, <3>1
  <2> QED
    BY <2>1, <2>2
<1>6. c2[poll] + pkt + out = c2[post] + 0 /\ pkt < need2[poll]
  <2>1. c2[poll] = c[poll] /\ c2[post] = c[post]
    BY <1>1, <1>4
  <2>2. pkt < need2[poll]
    <3>1. CASE poll = post
      BY <1>1, <1>4, <3>1
    <3>2. CASE poll # post
      <4>1. poll \in 0 .. post - 1 /\ poll <= post - 1
        BY ONLY <1>1, <3>2
      <4> QED
        BY ONLY <1>1, <1>4, <4>1
    <3> QED
      BY <3>1, <3>2
  <2> QED
    BY <1>1, <2>1, <2>2
<1>7. Books("resend", 0, n, out, pkt, post, poll, loss, need2, c2, limit)
  <2>1. LastBegun("resend", post) = post /\ Begun("resend", 0) = 0 /\ Resends("resend")
    BY DEF LastBegun, Begun, Resends
  <2>2. /\ 0 \in Nat /\ n \in Nat /\ pkt \in Nat /\ out \in 0 .. limit /\ out < limit
        /\ post \in 0 .. TableLen /\ poll \in 0 .. TableLen /\ loss \in 0 .. TableLen
        /\ loss <= post /\ loss <= poll /\ poll <= post + 1 /\ post < TableLen /\ 0 < n
        /\ poll <= post
    BY ONLY <1>1, TransferAssumption, post < TableLen, n \in Nat \ {0}, limit \in Nat \ {0}
  <2>3. n = need2[post]
    BY <1>4
  <2> QED
    BY ONLY <1>5, <1>6, <2>1, <2>2, <2>3, Zenon DEF Books
<1> QED
  BY <1>3, <1>4, <1>7

(* Nothing is resent. *)
LEMMA BooksRest ==
  ASSUME NEW at, NEW at2, NEW i, NEW iter, NEW out, NEW pkt, NEW post, NEW poll, NEW loss, NEW need,
         NEW c, NEW limit,
         Books(at, i, iter, out, pkt, post, poll, loss, need, c, limit),
         ~ Resends(at), ~ Resends(at2)
  PROVE  Books(at2, i, iter, out, pkt, post, poll, loss, need, c, limit)
BY DEF Books, LastBegun, Begun, Resends

(* The recovery begins. *)
LEMMA BooksBegin ==
  ASSUME NEW i \in Nat, NEW iter \in Nat, NEW loss \in 0 .. TableLen, NEW need, NEW limit \in Nat \ {0}
  PROVE  \E c \in [0 .. TableLen -> Nat] :
           Books("polls", i, iter, 0, 0, loss, loss, loss, need, c, limit)
<1>1. PICK c \in [0 .. TableLen -> Nat] : c = [k \in 0 .. TableLen |-> 0]
  OBVIOUS
<1>2. \A k \in loss .. loss - 1 : FALSE
  BY TransferAssumption
<1> QED
  BY <1>1, <1>2, TransferAssumption DEF Books, LastBegun, Begun, Resends

-----------------------------------------------------------------------------
(***************************************************************************)
(* One side: its recovery r, its slots, its table t.                       *)
(***************************************************************************)
Needs(slot) == [k \in 0 .. TableLen - 1 |-> slot[k].need]

SlotTyped(slot) == slot \in [0 .. TableLen - 1 -> [len : Nat, need : Nat]]

Working(r, slot, limit) ==
  \E c \in [0 .. TableLen -> Nat] :
    Books(r.at, r.i, r.iter, r.out, r.pkt, r.post, r.poll, r.msg.loss, Needs(slot), c, limit)

Numbers(r, limit) ==
  /\ r.i \in Nat /\ r.iter \in Nat /\ r.pkt \in Nat /\ r.out \in 0 .. limit
  /\ r.turn \in Survivors
  /\ r.post \in 0 .. TableLen /\ r.poll \in 0 .. TableLen

(* From here on the WQEs are as they were posted. *)
WholeFrom(r) ==
  IF Phase(r) = "over" THEN TableLen
  ELSE IF Phase(r) = "on" THEN LastBegun(r.at, r.post) + 1
  ELSE 0

(* What slot k can hold of a message. *)
Holds(k, len, iter) ==
  /\ len \in Sizes /\ iter = IterEach(len, NumPath)
  /\ MaxMsgs <= TableLen => k + 1 \in 1 .. MaxMsgs /\ len = sizes[k + 1]

EachOf(t, k) == t.wqe[k].iter_each[LastPath]

Whole(r, t, slot) ==
  \A k \in WholeFrom(r) .. TableLen - 1 :
    IF k < t.sqn THEN Holds(k, slot[k].len, EachOf(t, k)) ELSE slot[k].len = 0

Side(r, slot, t, limit) ==
  /\ Numbers(r, limit)
  /\ Phase(r) \in {"none", "clear", "told"} => r.out = 0 /\ r.pkt = 0
  /\ SlotTyped(slot)
  /\ Whole(r, t, slot)
  /\ Phase(r) = "on" => Working(r, slot, limit)
  /\ r.at # "spin"

(***************************************************************************)
(* What its steps do to that.                                              *)
(***************************************************************************)
SameNumbers(r, r2) ==
  /\ r2.i = r.i /\ r2.iter = r.iter /\ r2.turn = r.turn /\ r2.out = r.out /\ r2.pkt = r.pkt
  /\ r2.post = r.post /\ r2.poll = r.poll

SameWqes(t, t2) ==
  t2.sqn = t.sqn /\ \A k \in 0 .. TableLen - 1 : EachOf(t2, k) = EachOf(t, k)

WqesBut(t, t2, j) ==
  t2.sqn = t.sqn /\ \A k \in 0 .. TableLen - 1 : k # j => EachOf(t2, k) = EachOf(t, k)

Rests(r, slot, t, r2, slot2, t2) ==
  /\ SameNumbers(r, r2) /\ slot2 = slot /\ SameWqes(t, t2)
  /\ ~ Resends(r.at) /\ ~ Resends(r2.at) /\ r2.at # "spin"
  /\ \/ Phase(r2) = Phase(r) /\ r2.msg = r.msg
     \/ Phase(r) \in {"none", "clear"} /\ Phase(r2) \in {"clear", "told"}
     \/ Phase(r) = "on" /\ Phase(r2) = "over"

Posts(r, slot, t, r2, slot2, t2) ==
  \E size \in Sizes :
    /\ r2 = r
    /\ t.sqn < MaxMsgs /\ size = sizes[t.sqn + 1]
    /\ slot2 = [slot EXCEPT ![t.next].len = size]
    /\ t2.sqn = t.sqn + 1
    /\ \A k \in 0 .. TableLen - 1 : k # t.next => EachOf(t2, k) = EachOf(t, k)
    /\ Phase(r) # "over" => EachOf(t2, t.next) = IterEach(size, NumPath)

Begins(r, slot, t, r2, slot2, t2) ==
  /\ Phase(r) = "told" /\ Phase(r2) = "on" /\ r2.at = "polls"
  /\ r2.msg = r.msg /\ r2.post = r.msg.loss /\ r2.poll = r.msg.loss
  /\ r2.i = r.i /\ r2.iter = r.iter /\ r2.turn = r.turn /\ r2.out = r.out /\ r2.pkt = r.pkt
  /\ slot2 = slot /\ SameWqes(t, t2)

(* What a WQE still owes. *)
Owing(r, slot, t) ==
  LET chunk == slot[r.post].len \div NumPath
  IN  IF r.post = r.msg.loss
        THEN chunk - (chunk \div EachOf(t, r.post)) * r.msg.completed
        ELSE chunk

Starts(r, slot, t, r2, slot2, t2) ==
  LET len == Owing(r, slot, t)
      n   == Iter(len, NumPath - 1)
  IN  /\ Phase(r) = "on" /\ ~ Resends(r.at) /\ r.post < TableLen
      /\ slot[r.post].len # 0
      /\ slot2 = [slot EXCEPT ![r.post] = [len |-> len, need |-> n]]
      /\ SameWqes(t, t2)
      /\ n # 0 => /\ Phase(r2) = "on" /\ r2.at = "resend" /\ r2.msg = r.msg
                  /\ r2.i = 0 /\ r2.iter = n /\ r2.turn = r.turn % (NumPath - 1)
                  /\ r2.out = r.out /\ r2.pkt = r.pkt /\ r2.post = r.post /\ r2.poll = r.poll

(* The end of an iteration of the resending loop, ...                       *)
Next1(r, limit) ==
  IF r.at = "spin" \/ r.out >= limit THEN r
  ELSE LET last == r.i + 1 = r.iter
       IN  [r EXCEPT !.at = IF last THEN "polls" ELSE "resend",
                     !.post = IF last THEN @ + 1 ELSE @,
                     !.i = @ + 1,
                     !.turn = (@ + 1) % (NumPath - 1)]

(* ... and a completion counted. *)
Count1(r, need) ==
  IF need = 0 THEN [r EXCEPT !.at = "spin", !.out = @ - 1]
  ELSE [r EXCEPT !.out = @ - 1, !.pkt = (@ + 1) % need, !.poll = r.poll + (r.pkt + 1) \div need]

Gives(r, slot, t, r2, slot2, t2, limit) ==
  /\ r.at = "resend" /\ r2 = Next1([r EXCEPT !.at = "rdrain", !.out = @ + 1], limit)
  /\ slot2 = slot /\ SameWqes(t, t2)

Drains(r, slot, t, r2, slot2, t2, limit) ==
  /\ r.at = "rdrain" /\ slot2 = slot
  /\ \/ r2 = Next1(r, limit) /\ SameWqes(t, t2)
     \/ /\ r.out > 0 /\ r2 = Next1(Count1(r, slot[r.poll].need), limit)
        /\ WqesBut(t, t2, r.poll)

Counts1(r, slot, t, r2, slot2, t2) ==
  /\ Phase(r) = "on" /\ r.at = "polls" /\ slot2 = slot
  /\ r.out > 0 /\ r2 = Count1([r EXCEPT !.at = "pass"], slot[r.poll].need)
  /\ WqesBut(t, t2, r.poll)

SideMove(r, slot, t, r2, slot2, t2, limit) ==
  \/ Rests(r, slot, t, r2, slot2, t2)
  \/ Posts(r, slot, t, r2, slot2, t2)
  \/ Begins(r, slot, t, r2, slot2, t2)
  \/ Starts(r, slot, t, r2, slot2, t2)
  \/ Gives(r, slot, t, r2, slot2, t2, limit)
  \/ Drains(r, slot, t, r2, slot2, t2, limit)
  \/ Counts1(r, slot, t, r2, slot2, t2)

(* The WQEs that are whole stay whole. *)
LEMMA WholeStays ==
  ASSUME NEW r, NEW slot, NEW t, NEW r2, NEW slot2, NEW t2,
         Whole(r, t, slot), t2.sqn = t.sqn,
         \A k \in WholeFrom(r2) .. TableLen - 1 :
            /\ k \in WholeFrom(r) .. TableLen - 1
            /\ slot2[k].len = slot[k].len /\ EachOf(t2, k) = EachOf(t, k)
  PROVE  Whole(r2, t2, slot2)
<1> SUFFICES ASSUME NEW k \in WholeFrom(r2) .. TableLen - 1
             PROVE  IF k < t2.sqn THEN Holds(k, slot2[k].len, EachOf(t2, k)) ELSE slot2[k].len = 0
  BY DEF Whole
<1>1. IF k < t.sqn THEN Holds(k, slot[k].len, EachOf(t, k)) ELSE slot[k].len = 0
  BY DEF Whole
<1> QED
  BY <1>1

(* Nothing is resent in the step. *)
LEMMA SideRests ==
  ASSUME NEW r, NEW slot, NEW t, NEW r2, NEW slot2, NEW t2, NEW limit \in Nat \ {0},
         Side(r, slot, t, limit), Rests(r, slot, t, r2, slot2, t2)
  PROVE  Side(r2, slot2, t2, limit)
<1> USE TransferAssumption
<1>1. /\ SameNumbers(r, r2) /\ slot2 = slot /\ SameWqes(t, t2)
      /\ ~ Resends(r.at) /\ ~ Resends(r2.at) /\ r2.at # "spin"
  BY DEF Rests
<1>2. Numbers(r2, limit) /\ SlotTyped(slot2)
  BY <1>1 DEF Side, SameNumbers, Numbers
<1>3. Phase(r2) \in {"none", "clear", "told"} => r2.out = 0 /\ r2.pkt = 0
  BY <1>1 DEF Rests, Side, SameNumbers
<1>4. Phase(r2) = "on" => Working(r2, slot2, limit)
  <2> SUFFICES ASSUME Phase(r2) = "on"
               PROVE  Working(r2, slot2, limit)
    OBVIOUS
  <2>1. Phase(r) = "on" /\ r2.msg = r.msg
    BY DEF Rests
  <2>2. PICK c \in [0 .. TableLen -> Nat] :
          Books(r.at, r.i, r.iter, r.out, r.pkt, r.post, r.poll, r.msg.loss, Needs(slot), c, limit)
    BY <2>1 DEF Side, Working
  <2>3. Books(r2.at, r.i, r.iter, r.out, r.pkt, r.post, r.poll, r.msg.loss, Needs(slot), c, limit)
    BY <1>1, <2>2, BooksRest
  <2> QED
    BY <1>1, <2>1, <2>3 DEF Working, SameNumbers
<1>5. Whole(r2, t2, slot2)
  <2>1. r.post \in 0 .. TableLen /\ r2.post = r.post
    BY <1>1 DEF Side, Numbers, SameNumbers
  <2>2. LastBegun(r.at, r.post) = r.post - 1 /\ LastBegun(r2.at, r2.post) = r.post - 1
    BY <1>1, <2>1 DEF LastBegun
  <2>3. WholeFrom(r) \in Nat /\ WholeFrom(r2) \in Nat /\ WholeFrom(r) <= WholeFrom(r2)
    BY <2>1, <2>2 DEF Rests, WholeFrom
  <2>4. \A k \in WholeFrom(r2) .. TableLen - 1 : k \in WholeFrom(r) .. TableLen - 1 /\ k \in 0 .. TableLen - 1
    BY <2>3
  <2> QED
    BY <1>1, <2>4, WholeStays DEF Side, SameWqes
<1> QED
  BY <1>1, <1>2, <1>3, <1>4, <1>5 DEF Side

(* A message is posted. *)
LEMMA SidePosts ==
  ASSUME NEW r, NEW slot, NEW t, NEW r2, NEW slot2, NEW t2, NEW limit \in Nat \ {0},
         TableShape(t), Filling(t),
         Side(r, slot, t, limit), Posts(r, slot, t, r2, slot2, t2)
  PROVE  Side(r2, slot2, t2, limit)
<1> USE TransferAssumption
<1>1. PICK size \in Sizes :
        /\ r2 = r
        /\ t.sqn < MaxMsgs /\ size = sizes[t.sqn + 1]
        /\ slot2 = [slot EXCEPT ![t.next].len = size]
        /\ t2.sqn = t.sqn + 1
        /\ \A k \in 0 .. TableLen - 1 : k # t.next => EachOf(t2, k) = EachOf(t, k)
        /\ Phase(r) # "over" => EachOf(t2, t.next) = IterEach(size, NumPath)
  BY DEF Posts
<1>2. PICK n, m : n = t.next /\ m = t.sqn
  OBVIOUS
<1>3. n \in 0 .. TableLen - 1 /\ m \in Nat /\ n <= m /\ (m < TableLen => n = m) /\ m < MaxMsgs
  BY <1>1, <1>2 DEF TableShape, Filling, NextFits
<1>4. size \in Nat
  BY <1>1
<1>5. /\ SlotTyped(slot2) /\ Needs(slot2) = Needs(slot)
      /\ slot2[n].len = size /\ \A k \in 0 .. TableLen - 1 : k # n => slot2[k].len = slot[k].len
  <2>1. slot \in [0 .. TableLen - 1 -> [len : Nat, need : Nat]]
    BY DEF Side, SlotTyped
  <2>2. PICK s : s = [slot[n] EXCEPT !.len = size]
    OBVIOUS
  <2>3. s \in [len : Nat, need : Nat] /\ s.len = size /\ s.need = slot[n].need
    BY <1>3, <1>4, <2>1, <2>2
  <2>4. slot2 = [slot EXCEPT ![n] = s]
    BY <1>1, <1>2, <2>2
  <2>5. /\ slot2 \in [0 .. TableLen - 1 -> [len : Nat, need : Nat]]
        /\ slot2[n] = s /\ \A k \in 0 .. TableLen - 1 : k # n => slot2[k] = slot[k]
    BY <1>3, <2>1, <2>3, <2>4
  <2>6. \A k \in 0 .. TableLen - 1 : slot2[k].need = slot[k].need
    BY <2>3, <2>5
  <2> QED
    BY <2>3, <2>5, <2>6 DEF SlotTyped, Needs
<1>6. ASSUME NEW k \in WholeFrom(r2) .. TableLen - 1
      PROVE  IF k < t2.sqn THEN Holds(k, slot2[k].len, EachOf(t2, k)) ELSE slot2[k].len = 0
  <2>1. r.post \in 0 .. TableLen
    BY DEF Side, Numbers
  <2>2. WholeFrom(r) \in Nat /\ (Phase(r) = "over" => WholeFrom(r) = TableLen)
    BY <2>1 DEF WholeFrom, LastBegun
  <2>3. k \in 0 .. TableLen - 1 /\ k \in WholeFrom(r) .. TableLen - 1 /\ Phase(r) # "over"
    BY <1>1, <2>2
  <2>4. IF k < t.sqn THEN Holds(k, slot[k].len, EachOf(t, k)) ELSE slot[k].len = 0
    BY <2>3 DEF Side, Whole
  <2>5. CASE k = n
    <3>1. MaxMsgs <= TableLen => m = k /\ k + 1 \in 1 .. MaxMsgs
      BY ONLY <1>3, <2>5, TransferAssumption
    <3>2. k < t2.sqn
      BY <1>1, <1>2, <1>3, <2>5
    <3> QED
      BY <1>1, <1>2, <1>5, <2>3, <2>5, <3>1, <3>2 DEF Holds
  <2>6. CASE k # n
    <3>1. k < m + 1 <=> k < m
      BY ONLY <1>3, <2>3, <2>6, TransferAssumption
    <3> QED
      BY <1>1, <1>2, <1>5, <2>3, <2>4, <2>6, <3>1
  <2> QED
    BY <2>5, <2>6
<1>7. Whole(r2, t2, slot2)
  BY <1>6 DEF Whole
<1>8. Phase(r2) = "on" => Working(r2, slot2, limit)
  BY <1>1, <1>5 DEF Side, Working
<1> QED
  BY <1>1, <1>5, <1>7, <1>8 DEF Side

(* The recovery begins. *)
LEMMA SideBegins ==
  ASSUME NEW r, NEW slot, NEW t, NEW r2, NEW slot2, NEW t2, NEW limit \in Nat \ {0},
         Phase(r) = "told" => r.msg.loss \in 0 .. TableLen - 1,
         Side(r, slot, t, limit), Begins(r, slot, t, r2, slot2, t2)
  PROVE  Side(r2, slot2, t2, limit)
<1> USE TransferAssumption
<1>1. /\ Phase(r) = "told" /\ Phase(r2) = "on" /\ r2.at = "polls"
      /\ r2.msg = r.msg /\ r2.post = r.msg.loss /\ r2.poll = r.msg.loss
      /\ r2.i = r.i /\ r2.iter = r.iter /\ r2.turn = r.turn /\ r2.out = r.out /\ r2.pkt = r.pkt
      /\ slot2 = slot /\ SameWqes(t, t2)
  BY DEF Begins
<1>2. /\ r.out = 0 /\ r.pkt = 0 /\ r.i \in Nat /\ r.iter \in Nat /\ r.turn \in Survivors
      /\ r.msg.loss \in 0 .. TableLen
  BY <1>1 DEF Side, Numbers
<1>3. Numbers(r2, limit) /\ SlotTyped(slot2)
  BY <1>1, <1>2 DEF Side, Numbers
<1>4. Working(r2, slot2, limit)
  <2>1. \E c \in [0 .. TableLen -> Nat] :
          Books("polls", r.i, r.iter, 0, 0, r.msg.loss, r.msg.loss, r.msg.loss, Needs(slot), c, limit)
    BY <1>2, BooksBegin
  <2> QED
    BY <1>1, <1>2, <2>1 DEF Working
<1>5. Whole(r2, t2, slot2)
  <2>1. WholeFrom(r) = 0 /\ WholeFrom(r2) \in Nat
    BY <1>1, <1>2 DEF WholeFrom, LastBegun, Resends
  <2>2. \A k \in WholeFrom(r2) .. TableLen - 1 : k \in WholeFrom(r) .. TableLen - 1 /\ k \in 0 .. TableLen - 1
    BY <2>1
  <2> QED
    BY <1>1, <2>2, WholeStays DEF Side, SameWqes
<1> QED
  BY <1>1, <1>3, <1>4, <1>5 DEF Side

(***************************************************************************)
(* What is assumed of the sizes.  Every piece of a chunk is worth a byte   *)
(* for each path that is left, so that whatever part of a chunk is owed    *)
(* can be cut over them.  And two messages that can be in one slot are cut *)
(* alike: then what the server says to be complete of the WQE it is at is  *)
(* less than what the client has in that slot.                             *)
(***************************************************************************)
LongPieces ==
  \A s \in Sizes : ChunkSize(s, NumPath) \div IterEach(s, NumPath) >= NumPath - 1

SameCuts ==
  \/ MaxMsgs <= TableLen
  \/ \A s, t \in Sizes : IterEach(s, NumPath) = IterEach(t, NumPath)

(* What a report says to be complete is not all of the WQE.                 *)
Owed(msg) ==
  /\ msg.completed \in Nat
  /\ msg.completed # 0 =>
       \A len \in Sizes :
         (MaxMsgs <= TableLen => msg.loss + 1 \in 1 .. MaxMsgs /\ len = sizes[msg.loss + 1])
           => msg.completed < IterEach(len, NumPath)

(* Less pieces are less bytes. *)
LEMMA ProductsGrow ==
  ASSUME NEW p \in Nat, NEW a \in Nat, NEW b \in Nat, a < b
  PROVE  p * a + p <= p * b /\ p * a \in Nat
<1>1. PICK d \in Nat : b = a + 1 + d
  <2>1. b - a - 1 \in Nat /\ b = a + 1 + (b - a - 1)
    OBVIOUS
  <2> QED
    BY <2>1
<1>2. p * (a + 1 + d) = p * a + p + p * d /\ p * d \in Nat /\ p * a \in Nat
  OBVIOUS
<1> QED
  BY ONLY <1>1, <1>2, p \in Nat, a \in Nat

(* With two paths every piece will do. *)
LEMMA TwoPathsLongPieces == NumPath = 2 => LongPieces
<1> SUFFICES ASSUME NumPath = 2, NEW s \in Sizes
             PROVE  ChunkSize(s, 2) \div IterEach(s, 2) >= 1
  BY DEF LongPieces
<1>1. s \in Nat /\ s >= 2
  BY TransferAssumption
<1>2. IterEach(s, 2) \in Nat \ {0}
  BY <1>1, IterEachPositive
<1>3. PICK c, n, l : c = ChunkSize(s, 2) /\ n = IterEach(s, 2) /\ l = ChnkLast(s, 2)
  OBVIOUS
<1>4. c \in Nat /\ n \in Nat \ {0} /\ l \in 1 .. MTU /\ c = (n - 1) * MTU + l
  BY <1>1, <1>2, <1>3, ChunkIsPieces
<1>5. n - 1 <= (n - 1) * MTU
  <2>1. PICK d \in Nat : MTU = 1 + d
    <3>1. MTU - 1 \in Nat /\ MTU = 1 + (MTU - 1)
      BY MTUAssumption
    <3> QED
      BY <3>1
  <2>2. PICK k \in Nat : k = n - 1
    BY <1>4
  <2>3. k * (1 + d) = k + k * d /\ k * d \in Nat
    OBVIOUS
  <2> QED
    BY ONLY <2>1, <2>2, <2>3, k \in Nat, d \in Nat
<1>6. c >= n
  <2>1. (n - 1) * MTU \in Nat
    BY <1>4, MTUAssumption
  <2> QED
    BY ONLY <1>4, <1>5, <2>1, MTUAssumption
<1>7. c \div n >= 1
  <2>1. c = n * (c \div n) + (c % n) /\ c % n \in 0 .. n - 1 /\ c \div n \in Nat
    BY <1>4, DivMod
  <2>2. CASE c \div n = 0
    <3>1. c = n * 0 + (c % n)
      BY <2>1, <2>2
    <3> QED
      BY ONLY <1>4, <1>6, <2>1, <3>1
  <2> QED
    BY ONLY <2>1, <2>2, TRUE
<1> QED
  BY <1>3, <1>7

(* A WQE that is to be resent owes something to every path that is left.    *)
LEMMA OwesEnough ==
  ASSUME LongPieces, NEW r, NEW slot, NEW t, Owed(r.msg),
         Holds(r.post, slot[r.post].len, EachOf(t, r.post))
  PROVE  /\ Owing(r, slot, t) \in Nat
         /\ Iter(Owing(r, slot, t), NumPath - 1) \in Nat \ {0}
<1> USE TransferAssumption, FailoverAssumption
<1>1. PICK k, s, n, done : /\ k = r.post /\ s = slot[k].len /\ n = EachOf(t, k)
                           /\ done = r.msg.completed
  OBVIOUS
<1>2. /\ s \in Sizes /\ s \in Nat /\ s >= NumPath /\ n = IterEach(s, NumPath)
      /\ MaxMsgs <= TableLen => k + 1 \in 1 .. MaxMsgs /\ s = sizes[k + 1]
  BY <1>1 DEF Holds
<1>3. PICK chunk, piece : chunk = s \div NumPath /\ piece = chunk \div n
  OBVIOUS
<1>4. chunk \in Nat /\ n \in Nat \ {0}
  BY <1>2, <1>3, IterEachPositive, DivMod
<1>5. /\ piece \in Nat /\ piece >= NumPath - 1
      /\ n * piece <= chunk
  <2>1. chunk = n * (chunk \div n) + (chunk % n) /\ chunk % n \in 0 .. n - 1 /\ chunk \div n \in Nat
    BY <1>4, DivMod
  <2>5. piece \in Nat /\ n \in Nat
    BY <1>3, <1>4, <2>1
  <2>6. n * piece \in Nat
    BY ONLY <2>5
  <2>2. chunk = n * piece + (chunk % n) /\ n * piece \in Nat
    BY ONLY <1>3, <2>1, <2>6
  <2>3. n * piece <= chunk
    BY ONLY <1>4, <2>1, <2>2
  <2>4. piece >= NumPath - 1
    BY <1>2, <1>3 DEF LongPieces, ChunkSize
  <2> QED
    BY <1>3, <2>1, <2>3, <2>4
<1>6. Owing(r, slot, t) \in Nat /\ Owing(r, slot, t) >= NumPath - 1
  <2>1. CASE k # r.msg.loss
    <3>1. Owing(r, slot, t) = chunk
      BY <1>1, <1>3, <2>1 DEF Owing
    <3>2. piece <= n * piece
      <4>1. PICK d \in Nat : n = d + 1
        <5>1. n - 1 \in Nat /\ n = (n - 1) + 1
          BY <1>4
        <5> QED
          BY <5>1
      <4>2. (d + 1) * piece = d * piece + piece /\ d * piece \in Nat
        BY <1>5
      <4> QED
        BY ONLY <1>5, <4>1, <4>2
    <3>3. n * piece \in Nat
      BY <1>4, <1>5
    <3> QED
      BY ONLY <1>4, <1>5, <3>1, <3>2, <3>3, TransferAssumption
  <2>2. CASE k = r.msg.loss
    <3>1. Owing(r, slot, t) = chunk - piece * done
      BY <1>1, <1>3, <2>2 DEF Owing
    <3>2. done \in Nat /\ done < n
      BY <1>1, <1>2, <1>4, <2>2 DEF Owed
    <3>3. piece * done + piece <= piece * n /\ piece * done \in Nat
      BY <1>4, <1>5, <3>2, ProductsGrow
    <3>4. piece * n = n * piece
      BY <1>4, <1>5
    <3>5. PICK x, y : x = piece * done /\ y = piece * n
      OBVIOUS
    <3>6. x + piece <= y /\ x \in Nat /\ y <= chunk
      BY <1>5, <3>3, <3>4, <3>5
    <3>7. y \in Nat
      BY <1>4, <1>5, <3>5
    <3> QED
      BY ONLY <1>4, <1>5, <3>1, <3>5, <3>6, <3>7, TransferAssumption
  <2> QED
    BY <2>1, <2>2
<1>7. PICK o : o = Owing(r, slot, t)
  OBVIOUS
<1>8. NumPath - 1 \in Nat \ {0}
  OBVIOUS
<1>9. IterEach(o, NumPath - 1) \in Nat \ {0}
  BY <1>6, <1>7, <1>8, IterEachPositive
<1>10. IterEach(o, NumPath - 1) * (NumPath - 1) \in Nat \ {0}
  <2>1. PICK a \in Nat, b \in Nat : a = IterEach(o, NumPath - 1) /\ b = NumPath - 1 /\ a > 0 /\ b > 0
    BY <1>8, <1>9
  <2>2. PICK d \in Nat : a = d + 1
    <3>1. a - 1 \in Nat /\ a = (a - 1) + 1
      BY <2>1
    <3> QED
      BY <3>1
  <2>3. (d + 1) * b = d * b + b /\ d * b \in Nat
    OBVIOUS
  <2>4. a * b \in Nat \ {0}
    BY ONLY <2>1, <2>2, <2>3, b \in Nat
  <2> QED
    BY <2>1, <2>4
<1> QED
  BY <1>6, <1>7, <1>10 DEF Iter

(* A WQE is resent. *)
LEMMA SideStarts ==
  ASSUME NEW r, NEW slot, NEW t, NEW r2, NEW slot2, NEW t2, NEW limit \in Nat \ {0},
         LongPieces, Owed(r.msg),
         Side(r, slot, t, limit), Starts(r, slot, t, r2, slot2, t2)
  PROVE  Side(r2, slot2, t2, limit)
<1> USE TransferAssumption, FailoverAssumption
<1>1. PICK k, len, n : k = r.post /\ len = Owing(r, slot, t) /\ n = Iter(len, NumPath - 1)
  OBVIOUS
<1>2. /\ Phase(r) = "on" /\ ~ Resends(r.at) /\ k < TableLen /\ slot[k].len # 0
      /\ slot2 = [slot EXCEPT ![k] = [len |-> len, need |-> n]]
      /\ SameWqes(t, t2)
      /\ n # 0 => /\ Phase(r2) = "on" /\ r2.at = "resend" /\ r2.msg = r.msg
                  /\ r2.i = 0 /\ r2.iter = n /\ r2.turn = r.turn % (NumPath - 1)
                  /\ r2.out = r.out /\ r2.pkt = r.pkt /\ r2.post = k /\ r2.poll = r.poll
  BY <1>1 DEF Starts
<1>3. k \in 0 .. TableLen - 1
  BY <1>1, <1>2 DEF Side, Numbers
<1>4. WholeFrom(r) = k
  BY <1>1, <1>2, <1>3 DEF WholeFrom, LastBegun
<1>5. Holds(k, slot[k].len, EachOf(t, k))
  BY <1>2, <1>3, <1>4 DEF Side, Whole
<1>6. len \in Nat /\ n \in Nat \ {0}
  BY <1>1, <1>5, OwesEnough
<1>7. /\ Phase(r2) = "on" /\ r2.at = "resend" /\ r2.msg = r.msg
      /\ r2.i = 0 /\ r2.iter = n /\ r2.turn = r.turn % (NumPath - 1)
      /\ r2.out = r.out /\ r2.pkt = r.pkt /\ r2.post = k /\ r2.poll = r.poll
  BY <1>2, <1>6
<1>8. Numbers(r2, limit)
  <2>1. r.turn % (NumPath - 1) \in Survivors
    <3>1. r.turn \in Nat /\ NumPath - 1 \in Nat \ {0}
      BY DEF Side, Numbers, Survivors
    <3>2. r.turn % (NumPath - 1) \in 0 .. (NumPath - 1) - 1
      BY ONLY <3>1, DivMod
    <3> QED
      BY <3>2 DEF Survivors
  <2> QED
    BY <1>6, <1>7, <2>1, <1>3 DEF Side, Numbers
<1>9. /\ SlotTyped(slot2) /\ Needs(slot2) = [Needs(slot) EXCEPT ![k] = n]
      /\ \A j \in 0 .. TableLen - 1 : j # k => slot2[j] = slot[j]
  <2>1. slot \in [0 .. TableLen - 1 -> [len : Nat, need : Nat]]
    BY DEF Side, SlotTyped
  <2>2. PICK s : s = [len |-> len, need |-> n]
    OBVIOUS
  <2>3. s \in [len : Nat, need : Nat] /\ s.need = n
    BY <1>6, <2>2
  <2>4. /\ slot2 \in [0 .. TableLen - 1 -> [len : Nat, need : Nat]]
        /\ slot2[k] = s /\ \A j \in 0 .. TableLen - 1 : j # k => slot2[j] = slot[j]
    BY <1>2, <1>3, <2>1, <2>2, <2>3
  <2>5. Needs(slot2) = [Needs(slot) EXCEPT ![k] = n]
    BY <1>3, <2>3, <2>4 DEF Needs
  <2> QED
    BY <2>4, <2>5 DEF SlotTyped
<1>10. Working(r2, slot2, limit)
  <2>1. PICK c \in [0 .. TableLen -> Nat] :
          Books(r.at, r.i, r.iter, r.out, r.pkt, k, r.poll, r.msg.loss, Needs(slot), c, limit)
    BY <1>1, <1>2 DEF Side, Working
  <2>2. Needs(slot) = [j \in 0 .. TableLen - 1 |-> Needs(slot)[j]]
    BY DEF Needs
  <2>3. \E c2 \in [0 .. TableLen -> Nat] :
          Books("resend", 0, n, r.out, r.pkt, k, r.poll, r.msg.loss, [Needs(slot) EXCEPT ![k] = n], c2, limit)
    BY <1>2, <1>6, <2>1, <2>2, BooksStart
  <2> QED
    BY <1>7, <1>9, <2>3 DEF Working
<1>11. Whole(r2, t2, slot2)
  <2>1. WholeFrom(r2) = k + 1
    BY <1>7 DEF WholeFrom, LastBegun, Resends
  <2>2. \A j \in k + 1 .. TableLen - 1 : j \in k .. TableLen - 1 /\ j \in 0 .. TableLen - 1 /\ j # k
    BY <1>3
  <2>3. \A j \in WholeFrom(r2) .. TableLen - 1 :
          /\ j \in WholeFrom(r) .. TableLen - 1
          /\ slot2[j].len = slot[j].len /\ EachOf(t2, j) = EachOf(t, j)
    BY <1>2, <1>4, <1>9, <2>1, <2>2 DEF SameWqes
  <2>4. Whole(r, t, slot) /\ t2.sqn = t.sqn
    BY <1>2 DEF Side, SameWqes
  <2> QED
    BY ONLY <2>3, <2>4, WholeStays
<1> QED
  BY <1>7, <1>8, <1>9, <1>10, <1>11 DEF Side

(* An iteration of the resending loop ends. *)
LEMMA SideGoesOn ==
  ASSUME NEW r, NEW slot, NEW t, NEW limit \in Nat \ {0},
         RecShape(r), Phase(r) = "on", r.at = "rdrain", Side(r, slot, t, limit)
  PROVE  Side(Next1(r, limit), slot, t, limit)
<1> USE TransferAssumption, FailoverAssumption
<1>1. PICK r2 : r2 = Next1(r, limit)
  OBVIOUS
<1>2. CASE r.out >= limit
  BY <1>1, <1>2 DEF Next1
<1>3. CASE ~ (r.out >= limit)
  <2>1. PICK at2, post2 : /\ at2 = IF r.i + 1 = r.iter THEN "polls" ELSE "resend"
                          /\ post2 = IF r.i + 1 = r.iter THEN r.post + 1 ELSE r.post
    OBVIOUS
  <2>2. r2 = [r EXCEPT !.at = at2, !.post = post2, !.i = @ + 1, !.turn = (@ + 1) % (NumPath - 1)]
    BY <1>1, <1>3, <2>1 DEF Next1
  <2>3. /\ r2.at = at2 /\ r2.post = post2 /\ r2.i = r.i + 1 /\ r2.turn = (r.turn + 1) % (NumPath - 1)
        /\ r2.iter = r.iter /\ r2.out = r.out /\ r2.pkt = r.pkt /\ r2.poll = r.poll /\ r2.msg = r.msg
        /\ r2.flag = r.flag /\ r2.over = r.over
    BY <2>2 DEF RecShape
  <2>4. Phase(r2) = "on"
    BY <2>1, <2>3 DEF Phase
  <2>5. PICK c \in [0 .. TableLen -> Nat] :
          Books("rdrain", r.i, r.iter, r.out, r.pkt, r.post, r.poll, r.msg.loss, Needs(slot), c, limit)
    BY DEF Side, Working
  <2>6. r.out < limit
    BY <1>3 DEF Side, Numbers
  <2>7. Books(at2, r.i + 1, r.iter, r.out, r.pkt, post2, r.poll, r.msg.loss, Needs(slot), c, limit)
    BY <2>1, <2>5, <2>6, BooksNext
  <2>8. Working(r2, slot, limit)
    BY <2>3, <2>7 DEF Working
  <2>9. Numbers(r2, limit)
    <3>3. /\ r.turn \in Survivors /\ r.i \in Nat /\ r.iter \in Nat /\ r.pkt \in Nat
          /\ r.out \in 0 .. limit /\ r.poll \in 0 .. TableLen
      BY DEF Side, Numbers
    <3>1. (r.turn + 1) % (NumPath - 1) \in Survivors
      <4>1. r.turn + 1 \in Nat /\ NumPath - 1 \in Nat \ {0}
        BY <3>3 DEF Survivors
      <4>2. (r.turn + 1) % (NumPath - 1) \in 0 .. (NumPath - 1) - 1
        BY ONLY <4>1, DivMod
      <4> QED
        BY <4>2 DEF Survivors
    <3>2. post2 \in 0 .. TableLen
      BY <2>7 DEF Books
    <3>4. r.i + 1 \in Nat
      BY <3>3
    <3> QED
      BY <2>3, <3>1, <3>2, <3>3, <3>4 DEF Numbers
  <2>10. Whole(r2, t, slot)
    <3>1. WholeFrom(r2) = WholeFrom(r)
      <4>1. r.post \in Nat
        BY DEF Side, Numbers
      <4> QED
        BY <2>1, <2>3, <2>4, <4>1 DEF WholeFrom, LastBegun, Resends
    <3> QED
      BY <3>1 DEF Side, Whole
  <2>11. r2.at # "spin"
    BY <2>1, <2>3
  <2> QED
    BY <1>1, <2>4, <2>8, <2>9, <2>10, <2>11 DEF Side
<1> QED
  BY <1>2, <1>3

(* A packet, or the receive for it, is given to the report QP. *)
LEMMA SideGives ==
  ASSUME NEW r, NEW slot, NEW t, NEW r2, NEW slot2, NEW t2, NEW limit \in Nat \ {0},
         RecShape(r), Phase(r) = "on",
         Side(r, slot, t, limit), Gives(r, slot, t, r2, slot2, t2, limit)
  PROVE  Side(r2, slot2, t2, limit)
<1> USE TransferAssumption
<1>1. /\ r.at = "resend" /\ r2 = Next1([r EXCEPT !.at = "rdrain", !.out = @ + 1], limit)
      /\ slot2 = slot /\ SameWqes(t, t2)
  BY DEF Gives
<1>2. PICK x : x = [r EXCEPT !.at = "rdrain", !.out = r.out + 1]
  OBVIOUS
<1>3. /\ x.at = "rdrain" /\ x.out = r.out + 1 /\ x.i = r.i /\ x.iter = r.iter /\ x.turn = r.turn
      /\ x.pkt = r.pkt /\ x.post = r.post /\ x.poll = r.poll /\ x.msg = r.msg
      /\ x.flag = r.flag /\ x.over = r.over
  BY <1>2 DEF RecShape
<1>4. RecShape(x)
  BY <1>2, <1>3 DEF RecShape
<1>5. Phase(x) = "on"
  BY <1>3 DEF Phase
<1>6. PICK c \in [0 .. TableLen -> Nat] :
        Books("resend", r.i, r.iter, r.out, r.pkt, r.post, r.poll, r.msg.loss, Needs(slot), c, limit)
  BY <1>1 DEF Side, Working
<1>7. Books("rdrain", r.i, r.iter, r.out + 1, r.pkt, r.post, r.poll, r.msg.loss, Needs(slot), c, limit)
  BY <1>6, BooksGive
<1>8. Working(x, slot, limit)
  BY <1>3, <1>7 DEF Working
<1>9. Numbers(x, limit)
  <2>1. r.out + 1 \in 0 .. limit
    BY <1>7 DEF Books
  <2> QED
    BY <1>3, <2>1 DEF Side, Numbers
<1>10. Whole(x, t2, slot)
  <2>1. WholeFrom(x) = WholeFrom(r) /\ WholeFrom(r) \in Nat
    <3>1. r.post \in Nat
      BY DEF Side, Numbers
    <3> QED
      BY <1>1, <1>3, <1>5, <3>1 DEF WholeFrom, LastBegun, Resends
  <2>2. \A j \in WholeFrom(x) .. TableLen - 1 :
          /\ j \in WholeFrom(r) .. TableLen - 1
          /\ slot[j].len = slot[j].len /\ EachOf(t2, j) = EachOf(t, j)
    <3> SUFFICES ASSUME NEW j \in WholeFrom(x) .. TableLen - 1
                 PROVE  j \in WholeFrom(r) .. TableLen - 1 /\ EachOf(t2, j) = EachOf(t, j)
      OBVIOUS
    <3>1. j \in 0 .. TableLen - 1
      BY <2>1
    <3> QED
      BY <1>1, <2>1, <3>1 DEF SameWqes
  <2>3. Whole(r, t, slot) /\ t2.sqn = t.sqn
    BY <1>1 DEF Side, SameWqes
  <2> QED
    BY ONLY <2>2, <2>3, WholeStays
<1>11. Side(x, slot, t2, limit)
  BY <1>3, <1>5, <1>8, <1>9, <1>10 DEF Side
<1> QED
  BY <1>1, <1>2, <1>3, <1>4, <1>5, <1>11, SideGoesOn

(* A completion is counted; the server clears what its WQE needs. *)
LEMMA SideCounted ==
  ASSUME NEW r, NEW slot, NEW t, NEW t2, NEW limit \in Nat \ {0},
         RecShape(r), Phase(r) = "on", r.out > 0, Side(r, slot, t, limit),
         WqesBut(t, t2, r.poll)
  PROVE  LET x == Count1(r, slot[r.poll].need)
         IN  RecShape(x) /\ Phase(x) = "on" /\ x.at = r.at /\ Side(x, slot, t2, limit)
<1> USE TransferAssumption
<1>1. PICK c \in [0 .. TableLen -> Nat] :
        Books(r.at, r.i, r.iter, r.out, r.pkt, r.post, r.poll, r.msg.loss, Needs(slot), c, limit)
  BY DEF Side, Working
<1>2. PICK n : n = Needs(slot)[r.poll]
  OBVIOUS
<1>3. PICK pkt2, poll2 : pkt2 = (r.pkt + 1) % n /\ poll2 = r.poll + (r.pkt + 1) \div n
  OBVIOUS
<1>4. /\ n \in Nat \ {0} /\ r.poll <= LastBegun(r.at, r.post) /\ r.poll < TableLen
      /\ Books(r.at, r.i, r.iter, r.out - 1, pkt2, r.post, poll2, r.msg.loss, Needs(slot), c, limit)
  BY <1>1, <1>2, <1>3, BooksCount
<1>5. r.poll \in 0 .. TableLen - 1
  BY <1>4 DEF Side, Numbers
<1>6. n = slot[r.poll].need
  BY <1>2, <1>5 DEF Needs
<1>7. PICK x : x = Count1(r, slot[r.poll].need)
  OBVIOUS
<1>8. x = [r EXCEPT !.out = r.out - 1, !.pkt = pkt2, !.poll = poll2]
  BY <1>3, <1>4, <1>6, <1>7 DEF Count1
<1>9. /\ x.at = r.at /\ x.out = r.out - 1 /\ x.pkt = pkt2 /\ x.poll = poll2
      /\ x.i = r.i /\ x.iter = r.iter /\ x.turn = r.turn /\ x.post = r.post /\ x.msg = r.msg
      /\ x.flag = r.flag /\ x.over = r.over
  BY <1>8 DEF RecShape
<1>10. RecShape(x)
  BY <1>8, <1>9 DEF RecShape
<1>11. Phase(x) = "on"
  BY <1>9 DEF Phase
<1>12. Working(x, slot, limit)
  BY <1>4, <1>9 DEF Working
<1>13. Numbers(x, limit)
  <2>1. r.out - 1 \in 0 .. limit /\ pkt2 \in Nat /\ poll2 \in 0 .. TableLen
    BY <1>4 DEF Books
  <2> QED
    BY <1>9, <2>1 DEF Side, Numbers
<1>14. Whole(x, t2, slot)
  <2>1. /\ WholeFrom(x) = WholeFrom(r) /\ WholeFrom(r) \in Nat /\ r.poll < WholeFrom(r)
        /\ r.poll \in Nat
    <3>1. r.post \in Nat /\ r.poll \in Nat
      BY DEF Side, Numbers
    <3>2. WholeFrom(r) = LastBegun(r.at, r.post) + 1 /\ WholeFrom(x) = LastBegun(r.at, r.post) + 1
      BY <1>9, <1>11 DEF WholeFrom
    <3>3. LastBegun(r.at, r.post) \in Int
      BY <3>1 DEF LastBegun
    <3> QED
      BY ONLY <1>4, <3>1, <3>2, <3>3
  <2>2. \A j \in WholeFrom(x) .. TableLen - 1 :
          /\ j \in WholeFrom(r) .. TableLen - 1
          /\ slot[j].len = slot[j].len /\ EachOf(t2, j) = EachOf(t, j)
    <3> SUFFICES ASSUME NEW j \in WholeFrom(x) .. TableLen - 1
                 PROVE  j \in WholeFrom(r) .. TableLen - 1 /\ EachOf(t2, j) = EachOf(t, j)
      OBVIOUS
    <3>1. j \in 0 .. TableLen - 1 /\ j # r.poll
      BY <2>1
    <3> QED
      BY <2>1, <3>1 DEF WqesBut
  <2>3. Whole(r, t, slot) /\ t2.sqn = t.sqn
    BY DEF Side, WqesBut
  <2> QED
    BY ONLY <2>2, <2>3, WholeStays
<1>15. r.at # "spin"
  BY DEF Side
<1>16. Side(x, slot, t2, limit)
  BY <1>9, <1>11, <1>12, <1>13, <1>14, <1>15 DEF Side
<1> QED
  BY <1>7, <1>9, <1>10, <1>11, <1>16

(* The loop polls. *)
LEMMA SideDrains ==
  ASSUME NEW r, NEW slot, NEW t, NEW r2, NEW slot2, NEW t2, NEW limit \in Nat \ {0},
         RecShape(r), Phase(r) = "on",
         Side(r, slot, t, limit), Drains(r, slot, t, r2, slot2, t2, limit)
  PROVE  Side(r2, slot2, t2, limit)
<1>1. r.at = "rdrain" /\ slot2 = slot
  BY DEF Drains
<1>2. CASE r2 = Next1(r, limit) /\ SameWqes(t, t2)
  <2>1. Rests(r, slot, t, r, slot, t2) => FALSE
    BY <1>1 DEF Rests, Resends
  <2>2. r.post \in Nat
    BY TransferAssumption DEF Side, Numbers
  <2>3. Whole(r, t2, slot)
    <3>1. WholeFrom(r) \in Nat
      BY <1>1, <2>2 DEF WholeFrom, LastBegun, Resends
    <3>2. \A j \in WholeFrom(r) .. TableLen - 1 :
            /\ j \in WholeFrom(r) .. TableLen - 1
            /\ slot[j].len = slot[j].len /\ EachOf(t2, j) = EachOf(t, j)
      <4> SUFFICES ASSUME NEW j \in WholeFrom(r) .. TableLen - 1
                   PROVE  EachOf(t2, j) = EachOf(t, j)
        OBVIOUS
      <4>1. j \in 0 .. TableLen - 1
        BY <3>1, TransferAssumption
      <4> QED
        BY <1>2, <4>1 DEF SameWqes
    <3>3. Whole(r, t, slot) /\ t2.sqn = t.sqn
      BY <1>2 DEF Side, SameWqes
    <3> QED
      BY ONLY <3>2, <3>3, WholeStays
  <2>4. Side(r, slot, t2, limit)
    BY <2>3 DEF Side
  <2> QED
    BY <1>1, <1>2, <2>4, SideGoesOn
<1>3. CASE r.out > 0 /\ r2 = Next1(Count1(r, slot[r.poll].need), limit) /\ WqesBut(t, t2, r.poll)
  <2>1. PICK x : x = Count1(r, slot[r.poll].need)
    OBVIOUS
  <2>2. RecShape(x) /\ Phase(x) = "on" /\ x.at = "rdrain" /\ Side(x, slot, t2, limit)
    BY <1>1, <1>3, <2>1, SideCounted
  <2> QED
    BY <1>1, <1>3, <2>1, <2>2, SideGoesOn
<1> QED
  BY <1>2, <1>3 DEF Drains

(* A pass polls. *)
LEMMA SideCounts1 ==
  ASSUME NEW r, NEW slot, NEW t, NEW r2, NEW slot2, NEW t2, NEW limit \in Nat \ {0},
         RecShape(r), Phase(r) = "on",
         Side(r, slot, t, limit), Counts1(r, slot, t, r2, slot2, t2)
  PROVE  Side(r2, slot2, t2, limit)
<1>1. /\ r.at = "polls" /\ slot2 = slot /\ r.out > 0
      /\ r2 = Count1([r EXCEPT !.at = "pass"], slot[r.poll].need)
      /\ WqesBut(t, t2, r.poll)
  BY DEF Counts1
<1>2. PICK x : x = [r EXCEPT !.at = "pass"]
  OBVIOUS
<1>3. /\ x.at = "pass" /\ SameNumbers(r, x) /\ x.msg = r.msg /\ x.flag = r.flag /\ x.over = r.over
      /\ x.out = r.out /\ x.poll = r.poll
  BY <1>2 DEF RecShape, SameNumbers
<1>4. RecShape(x)
  BY <1>2, <1>3 DEF RecShape, SameNumbers
<1>5. Phase(x) = "on"
  BY <1>3 DEF Phase
<1>6. Rests(r, slot, t, x, slot, t)
  BY <1>1, <1>3, <1>5 DEF Rests, SameWqes, Resends
<1>7. Side(x, slot, t, limit)
  BY <1>6, SideRests
<1>8. Side(Count1(x, slot[x.poll].need), slot, t2, limit)
  BY <1>1, <1>3, <1>4, <1>5, <1>7, SideCounted
<1> QED
  BY <1>1, <1>2, <1>3, <1>8

(* Every move of a side. *)
LEMMA SideKeeps ==
  ASSUME NEW r, NEW slot, NEW t, NEW r2, NEW slot2, NEW t2, NEW limit \in Nat \ {0},
         LongPieces, RecShape(r), PhaseAt(r), TableShape(t), Filling(t),
         Phase(r) = "told" => r.msg.loss \in 0 .. TableLen - 1,
         Phase(r) = "on" => Owed(r.msg),
         Side(r, slot, t, limit), SideMove(r, slot, t, r2, slot2, t2, limit)
  PROVE  Side(r2, slot2, t2, limit)
<1>1. Resends(r.at) => Phase(r) = "on"
  BY DEF Resends, PhaseAt, Phase
<1>2. CASE Rests(r, slot, t, r2, slot2, t2)
  BY <1>2, SideRests
<1>3. CASE Posts(r, slot, t, r2, slot2, t2)
  BY <1>3, SidePosts
<1>4. CASE Begins(r, slot, t, r2, slot2, t2)
  BY <1>4, SideBegins
<1>5. CASE Starts(r, slot, t, r2, slot2, t2)
  <2>1. Phase(r) = "on"
    BY <1>5 DEF Starts
  <2> QED
    BY <1>5, <2>1, SideStarts
<1>6. CASE Gives(r, slot, t, r2, slot2, t2, limit)
  <2>1. Phase(r) = "on"
    BY <1>1, <1>6 DEF Gives, Resends
  <2> QED
    BY <1>6, <2>1, SideGives
<1>7. CASE Drains(r, slot, t, r2, slot2, t2, limit)
  <2>1. Phase(r) = "on"
    BY <1>1, <1>7 DEF Drains, Resends
  <2> QED
    BY <1>7, <2>1, SideDrains
<1>8. CASE Counts1(r, slot, t, r2, slot2, t2)
  <2>1. Phase(r) = "on"
    BY <1>8 DEF Counts1
  <2> QED
    BY <1>8, <2>1, SideCounts1
<1> QED
  BY <1>2, <1>3, <1>4, <1>5, <1>6, <1>7, <1>8 DEF SideMove

-----------------------------------------------------------------------------
(***************************************************************************)
(* What a side is told and tells: reports, and the work requests of the    *)
(* report QP.                                                              *)
(***************************************************************************)
Report == [loss : 0 .. TableLen - 1, max : -1 .. TableLen - 1, completed : Nat]

Items ==
  [kind : {"report", "ack", "done"}, path : {0}, body : Report]
    \cup [kind : {"data"}, path : Survivors, body : [k : 0 .. TableLen - 1, i : Nat]]

RepTyped(s) == s \in [sq : Seq(Items), scq : Nat, rq : Seq(Items), rcq : Nat, buf : Report]

Reads(r, s) == r.msg \in Report /\ r.max \in -1 .. TableLen - 1 /\ RepTyped(s)

ReadsMove(r, s, r2, s2) ==
  /\ r2.msg \in Report /\ r2.max \in -1 .. TableLen - 1
  /\ s2.sq = s.sq \/ \E item \in Items : s2.sq = Append(s.sq, item)
  /\ s2.rq = s.rq \/ \E item \in Items : s2.rq = Append(s.rq, item)
  /\ s2.scq = s.scq \/ (s.scq > 0 /\ s2.scq = s.scq - 1)
  /\ s2.rcq = s.rcq \/ (s.rcq > 0 /\ s2.rcq = s.rcq - 1)
  /\ s2.buf = s.buf

(* What these reads of the report QP keep.                                  *)
LEMMA ReadsKeeps ==
  ASSUME NEW r, NEW s, NEW r2, NEW s2, Reads(r, s), RepShape(s2), ReadsMove(r, s, r2, s2)
  PROVE  Reads(r2, s2)
<1>1. s.sq \in Seq(Items) /\ s.rq \in Seq(Items) /\ s.scq \in Nat /\ s.rcq \in Nat /\ s.buf \in Report
  BY DEF Reads, RepTyped
<1>2. s2.sq \in Seq(Items) /\ s2.rq \in Seq(Items)
  <2>1. ASSUME NEW S, NEW q \in Seq(S), NEW x \in S
        PROVE  Append(q, x) \in Seq(S)
    BY <2>1, AppendProperties
  <2>2. \A item \in Items : Append(s.sq, item) \in Seq(Items) /\ Append(s.rq, item) \in Seq(Items)
    BY <1>1, <2>1
  <2> QED
    BY <1>1, <2>2, Zenon DEF ReadsMove
<1>3. s2.scq \in Nat /\ s2.rcq \in Nat /\ s2.buf \in Report
  BY <1>1 DEF ReadsMove
<1>4. RepTyped(s2)
  BY <1>2, <1>3 DEF RepShape, RepTyped
<1> QED
  BY <1>4 DEF Reads, ReadsMove

(* What a table keeps when a message is reported, a WQE recovered, or a     *)
(* message posted.                                                          *)
Tables == [head : 0 .. TableLen - 1, next : 0 .. TableLen - 1, sqn : Nat,
           wqe : [0 .. TableLen - 1 -> [valid : {0, 1}, iter_each : [Paths -> Nat]]]]

(* Reporting a message leaves what its slot says, ...                       *)
LEMMA TableReports ==
  ASSUME NEW t \in Tables, NEW t2, NEW k, NEW h, t2 = [t EXCEPT !.wqe[k].valid = 0, !.head = h]
  PROVE  SameWqes(t, t2)
<1>2. PICK w : w = [t.wqe[k] EXCEPT !.valid = 0]
  OBVIOUS
<1>3. t2 = [t EXCEPT !.wqe = [t.wqe EXCEPT ![k] = w], !.head = h]
  BY <1>2
<1>4. t2.wqe = [t.wqe EXCEPT ![k] = w] /\ t2.sqn = t.sqn
  BY <1>3 DEF Tables
<1>5. ASSUME NEW j \in 0 .. TableLen - 1 PROVE t2.wqe[j].iter_each = t.wqe[j].iter_each
  <2>1. CASE j = k
    <3>1. t2.wqe[j] = w
      BY <1>4, <2>1 DEF Tables
    <3>2. t.wqe[j] \in [valid : {0, 1}, iter_each : [Paths -> Nat]]
      BY DEF Tables
    <3> QED
      BY <1>2, <2>1, <3>1, <3>2
  <2>2. CASE j # k
    BY <1>4, <2>2 DEF Tables
  <2> QED
    BY <2>1, <2>2
<1> QED
  BY <1>4, <1>5 DEF SameWqes, EachOf

(* ... the server clears a slot it has recovered, ...                       *)
LEMMA TableClears ==
  ASSUME NEW t \in Tables, NEW t2, NEW k, NEW p, t2 = [t EXCEPT !.wqe[k].iter_each[p] = 0]
  PROVE  WqesBut(t, t2, k)
<1>2. PICK w : w = [t.wqe[k] EXCEPT !.iter_each[p] = 0]
  OBVIOUS
<1>3. t2 = [t EXCEPT !.wqe = [t.wqe EXCEPT ![k] = w]]
  BY <1>2
<1>4. t2.wqe = [t.wqe EXCEPT ![k] = w] /\ t2.sqn = t.sqn
  BY <1>3 DEF Tables
<1>5. \A j \in 0 .. TableLen - 1 : j # k => t2.wqe[j] = t.wqe[j]
  BY <1>4 DEF Tables
<1> QED
  BY <1>4, <1>5 DEF WqesBut, EachOf

(* ... and a post fills the next one.                                       *)
LEMMA TableStores ==
  ASSUME NEW t \in Tables, NEW t2, NEW w, t2.wqe = [t.wqe EXCEPT ![t.next] = w]
  PROVE  /\ \A k \in 0 .. TableLen - 1 : k # t.next => EachOf(t2, k) = EachOf(t, k)
         /\ EachOf(t2, t.next) = w.iter_each[LastPath]
<1>3. /\ t2.wqe[t.next] = w
      /\ \A j \in 0 .. TableLen - 1 : j # t.next => t2.wqe[j] = t.wqe[j]
  BY DEF Tables
<1> QED
  BY <1>3 DEF EachOf

(* What a pass of the loop reads of the acknowledgement. *)
AckMove(r, s, a, s2) ==
  /\ RecShape(a) /\ SameNumbers(r, a)
  /\ a.at = r.at /\ a.flag = r.flag /\ a.over = r.over /\ a.msg = r.msg
  /\ a.listening = r.listening /\ a.max \in -1 .. TableLen - 1
  /\ RepShape(s2)
  /\ s2.sq = s.sq /\ s2.rq = s.rq /\ s2.scq = s.scq /\ s2.buf = s.buf
  /\ s2.rcq = s.rcq \/ (s.rcq > 0 /\ s2.rcq = s.rcq - 1)

(* A step of the recovery that resends nothing and counts nothing.          *)
LEMMA RestMove ==
  ASSUME NEW r, NEW slot, NEW t, NEW r2, NEW t2, NEW limit,
         SameNumbers(r, r2), SameWqes(t, t2),
         ~ Resends(r.at), ~ Resends(r2.at), r2.at # "spin",
         \/ Phase(r2) = Phase(r) /\ r2.msg = r.msg
         \/ Phase(r) \in {"none", "clear"} /\ Phase(r2) \in {"clear", "told"}
         \/ Phase(r) = "on" /\ Phase(r2) = "over"
  PROVE  SideMove(r, slot, t, r2, slot, t2, limit)
BY DEF SideMove, Rests

(* The ends of the loops leave the report alone. *)
LEMMA Next1Told ==
  ASSUME NEW x, NEW limit, RecShape(x)
  PROVE  Next1(x, limit).msg = x.msg /\ Next1(x, limit).max = x.max
<1>1. PICK r2 : r2 = Next1(x, limit)
  OBVIOUS
<1>2. CASE r2 = x
  BY <1>1, <1>2
<1>3. ASSUME NEW at, NEW post, NEW turn,
             r2 = [x EXCEPT !.at = at, !.post = post, !.i = @ + 1, !.turn = turn]
      PROVE  r2.msg = x.msg /\ r2.max = x.max
  BY <1>3 DEF RecShape
<1> QED
  BY <1>1, <1>2, <1>3 DEF Next1

(* A completion counted leaves the range alone.                             *)
LEMMA Count1Told ==
  ASSUME NEW x, NEW need, RecShape(x)
  PROVE  LET y == Count1(x, need) IN RecShape(y) /\ y.msg = x.msg /\ y.max = x.max
<1>1. PICK y : y = Count1(x, need)
  OBVIOUS
<1>3. CASE need = 0
  <2>1. PICK out : y = [x EXCEPT !.at = "spin", !.out = out]
    BY <1>1, <1>3 DEF Count1
  <2>2. RecShape(y) /\ y.msg = x.msg /\ y.max = x.max
    BY <2>1 DEF RecShape
  <2> QED
    BY <1>1, <2>2
<1>4. CASE need # 0
  <2>1. PICK out, pkt, poll : y = [x EXCEPT !.out = out, !.pkt = pkt, !.poll = poll]
    BY <1>1, <1>4 DEF Count1
  <2>2. RecShape(y) /\ y.msg = x.msg /\ y.max = x.max
    BY <2>1 DEF RecShape
  <2> QED
    BY <1>1, <2>2
<1> QED
  BY <1>3, <1>4

-----------------------------------------------------------------------------
(***************************************************************************)
(* The server's steps are such moves.                                      *)
(***************************************************************************)
ServerKnown ==
  /\ Plane(sv_rec, sv_rep) /\ TableShape(sv_table)
  /\ sv_active = IF sv_rec.over THEN NumPath - 1 ELSE NumPath
  /\ sv_table \in Tables
  /\ sizes \in [1 .. MaxMsgs -> Sizes]
  /\ Reads(sv_rec, sv_rep)
  /\ Side(sv_rec, sv_slot, sv_table, RecvRecMax)

ServerMoved ==
  /\ SideMove(sv_rec, sv_slot, sv_table, sv_rec', sv_slot', sv_table', RecvRecMax)
  /\ ReadsMove(sv_rec, sv_rep, sv_rec', sv_rep')

(* Nothing of the recovery changes but whether the side listens.            *)
LEMMA ServerRests ==
  ASSUME ServerKnown, sv_rec.at = "out",
         sv_slot' = sv_slot, SameWqes(sv_table, sv_table'),
         \E x : sv_rec' = [sv_rec EXCEPT !.listening = x],
         \/ sv_rep' = sv_rep
         \/ sv_rep' = [sv_rep EXCEPT !.rq = Append(@, ServerRec!Item("report", 0, ServerRec!NoReport))]
  PROVE  ServerMoved
<1>1. RecShape(sv_rec) /\ RepShape(sv_rep) /\ Reads(sv_rec, sv_rep)
  BY DEF ServerKnown, Plane
<1>2. /\ sv_rec'.at = "out" /\ sv_rec'.flag = sv_rec.flag /\ sv_rec'.over = sv_rec.over
      /\ SameNumbers(sv_rec, sv_rec') /\ sv_rec'.msg = sv_rec.msg /\ sv_rec'.max = sv_rec.max
  BY <1>1 DEF RecShape, SameNumbers
<1>3. Rests(sv_rec, sv_slot, sv_table, sv_rec', sv_slot', sv_table')
  BY <1>2 DEF Rests, Resends, Phase
<1>4. ServerRec!Item("report", 0, ServerRec!NoReport) \in Items
  BY TransferAssumption DEF ServerRec!Item, ServerRec!NoReport, Items, Report
<1>5. /\ sv_rep'.sq = sv_rep.sq /\ sv_rep'.scq = sv_rep.scq /\ sv_rep'.rcq = sv_rep.rcq
      /\ sv_rep'.buf = sv_rep.buf
      /\ sv_rep'.rq = sv_rep.rq \/ \E item \in Items : sv_rep'.rq = Append(sv_rep.rq, item)
  BY <1>1, <1>4 DEF RepShape
<1>6. ReadsMove(sv_rec, sv_rep, sv_rec', sv_rep')
  BY <1>1, <1>2, <1>5 DEF ReadsMove, Reads
<1> QED
  BY <1>3, <1>6 DEF ServerMoved, SideMove

(* A message is posted. *)
LEMMA ServerPostMoves ==
  ASSUME ServerKnown, ServerPost
  PROVE  ServerMoved
<1>1. PICK size : size = sizes[sv_table.sqn + 1]
  OBVIOUS
<1>2. /\ sv_table.sqn < MaxMsgs /\ sv_table.sqn \in Nat /\ sv_table \in Tables
      /\ sv_table.next \in 0 .. TableLen - 1
  BY DEF ServerPost, ServerKnown, Tables
<1>3. size \in Sizes
  <2>1. sv_table.sqn + 1 \in 1 .. MaxMsgs
    BY <1>2, TransferAssumption
  <2> QED
    BY <1>1, <2>1 DEF ServerKnown
<1>4. /\ ServerRec!PostMessage(size) /\ sv_rec' = sv_rec /\ sv_rep' = sv_rep
      /\ sv_slot' = [sv_slot EXCEPT ![sv_table.next].len = size]
  BY <1>1 DEF ServerPost, ServerRec!PostMessage
<1>5. PICK w : w = [valid |-> 1,
                    iter_each |-> [p \in ServerRec!Paths |->
                       IF p < sv_active THEN ServerRec!IterEach(size, sv_active) ELSE 0]]
  OBVIOUS
<1>6. PICK n, s : n = ServerRec!Wrap(sv_table.next + 1) /\ s = sv_table.sqn + 1
  OBVIOUS
<1>7. sv_table' = [sv_table EXCEPT !.next = n, !.sqn = s, !.wqe[sv_table.next] = w]
  <2>1. sv_table' = [sv_table EXCEPT !.next = ServerRec!Wrap(@ + 1), !.sqn = @ + 1,
                                     !.wqe[sv_table.next] = w]
    BY <1>4, <1>5 DEF ServerRec!PostMessage, ServerRec!Post, ServerRec!StoreWr
  <2> QED
    BY <1>6, <2>1
<1>8. /\ sv_table'.sqn = sv_table.sqn + 1
      /\ \A k \in 0 .. TableLen - 1 : k # sv_table.next => EachOf(sv_table', k) = EachOf(sv_table, k)
      /\ EachOf(sv_table', sv_table.next) = w.iter_each[LastPath]
  <2>1. PICK t, t2, c : t = sv_table /\ t2 = sv_table' /\ c = sv_table.next
    OBVIOUS
  <2>2. t \in Tables /\ t2.wqe = [t.wqe EXCEPT ![t.next] = w] /\ t2.sqn = s
    BY <1>2, <1>7, <2>1 DEF Tables
  <2>3. /\ \A k \in 0 .. TableLen - 1 : k # t.next => EachOf(t2, k) = EachOf(t, k)
        /\ EachOf(t2, t.next) = w.iter_each[LastPath]
    BY ONLY <2>2, TableStores
  <2> QED
    BY <1>6, <2>1, <2>2, <2>3
<1>9. Phase(sv_rec) # "over" => w.iter_each[LastPath] = IterEach(size, NumPath)
  <2> SUFFICES ASSUME Phase(sv_rec) # "over"
               PROVE  w.iter_each[LastPath] = IterEach(size, NumPath)
    OBVIOUS
  <2>1. sv_active = NumPath
    BY DEF ServerKnown, Phase
  <2>2. LastPath \in ServerRec!Paths /\ LastPath < NumPath
    BY TransferAssumption DEF LastPath, ServerRec!Paths
  <2>3. ServerRec!IterEach(size, NumPath) = IterEach(size, NumPath)
    BY DEF ServerRec!IterEach, IterEach, ServerRec!ChunkSize, ChunkSize
  <2> QED
    BY <1>5, <2>1, <2>2, <2>3
<1>10. Posts(sv_rec, sv_slot, sv_table, sv_rec', sv_slot', sv_table')
  BY <1>1, <1>2, <1>3, <1>4, <1>8, <1>9 DEF Posts
<1>11. ReadsMove(sv_rec, sv_rep, sv_rec', sv_rep')
  BY <1>4 DEF ServerKnown, Reads, ReadsMove
<1> QED
  BY <1>10, <1>11 DEF ServerMoved, SideMove

(* The other steps outside a recovery. *)
LEMMA ServerPlainMoves ==
  ASSUME ServerKnown, ServerPostPacket \/ ServerCutShort \/ ServerPoll
  PROVE  ServerMoved
<1>1. RecShape(sv_rec) /\ sv_table \in Tables
  BY DEF ServerKnown, Plane
<1>2. sv_rec = [sv_rec EXCEPT !.listening = sv_rec.listening]
  BY <1>1 DEF RecShape
<1>3. SameWqes(sv_table, sv_table)
  BY DEF SameWqes
<1>4. CASE ServerPostPacket
  BY <1>2, <1>3, <1>4, ServerRests DEF ServerPostPacket, ServerPacket, Server!PostPacket, svRec
<1>5. CASE ServerCutShort
  BY <1>2, <1>3, <1>5, ServerRests DEF ServerCutShort, ServerRec!CutShort, ServerRec!recVars
<1>6. CASE ServerPoll
  <2>1. /\ sv_slot' = sv_slot /\ sv_rec.at = "out"
        /\ \E x : sv_rec' = [sv_rec EXCEPT !.listening = x]
        /\ \/ sv_rep' = sv_rep
           \/ sv_rep' = [sv_rep EXCEPT !.rq = Append(@, ServerRec!Item("report", 0, ServerRec!NoReport))]
    BY <1>6 DEF ServerPoll, ServerRec!PlainPoll, ServerRec!Polls
  <2>2. \/ sv_table' = sv_table
        \/ \E h : sv_table' = [sv_table EXCEPT !.wqe[sv_table.head].valid = 0, !.head = h]
    BY <1>6, Zenon DEF ServerPoll, ServerRec!PlainPoll, ServerRec!DrainPoll, ServerRec!PollComplete,
                ServerRec!PollProgress
  <2>3. SameWqes(sv_table, sv_table')
    <3>1. CASE sv_table' = sv_table
      BY <1>3, <3>1
    <3>2. ASSUME NEW h, sv_table' = [sv_table EXCEPT !.wqe[sv_table.head].valid = 0, !.head = h]
          PROVE  SameWqes(sv_table, sv_table')
      <4>1. PICK t, t2, k : t = sv_table /\ t2 = sv_table' /\ k = sv_table.head
        OBVIOUS
      <4>2. t \in Tables /\ t2 = [t EXCEPT !.wqe[k].valid = 0, !.head = h]
        BY <1>1, <3>2, <4>1
      <4>3. SameWqes(t, t2)
        BY ONLY <4>2, TableReports
      <4> QED
        BY <4>1, <4>3
    <3> QED
      BY <2>2, <3>1, <3>2
  <2> QED
    BY <2>1, <2>3, ServerRests
<1> QED
  BY <1>4, <1>5, <1>6

(* The acknowledgement is read, or not. *)
LEMMA ServerAcks ==
  ASSUME ServerKnown
  PROVE  AckMove(sv_rec, sv_rep, ServerRec!Acked, ServerRec!Read)
<1>1. /\ RecShape(sv_rec) /\ RepShape(sv_rep) /\ sv_rec.max \in -1 .. TableLen - 1
      /\ sv_rep.buf.max \in -1 .. TableLen - 1
  BY DEF ServerKnown, Plane, Reads, RepTyped, Report
<1>2. PICK a, s : a = ServerRec!Acked /\ s = ServerRec!Read
  OBVIOUS
<1>3. CASE ServerRec!AckHere
  <2>1. PICK m : m = ServerRec!LastOf(sv_rec.max, sv_rep.buf.max)
    OBVIOUS
  <2>2. m \in -1 .. TableLen - 1
    BY <1>1, <2>1 DEF ServerRec!LastOf
  <2>3. /\ a = [sv_rec EXCEPT !.got = TRUE, !.max = m] /\ s = [sv_rep EXCEPT !.rcq = sv_rep.rcq - 1]
        /\ sv_rep.rcq > 0
    BY <1>2, <1>3, <2>1 DEF ServerRec!Acked, ServerRec!Read, ServerRec!AckHere
  <2>4. /\ SameNumbers(sv_rec, a)
        /\ a.at = sv_rec.at /\ a.flag = sv_rec.flag /\ a.over = sv_rec.over /\ a.msg = sv_rec.msg
        /\ a.listening = sv_rec.listening /\ a.max = m /\ a.got = TRUE
    BY <1>1, <2>3 DEF RecShape, SameNumbers
  <2>5. RecShape(a)
    BY <1>1, <2>3, <2>4 DEF RecShape, SameNumbers
  <2>6. /\ s.sq = sv_rep.sq /\ s.rq = sv_rep.rq /\ s.scq = sv_rep.scq /\ s.buf = sv_rep.buf
        /\ s.rcq = sv_rep.rcq - 1
    BY <1>1, <2>3 DEF RepShape
  <2>7. RepShape(s)
    BY <1>1, <2>3, <2>6 DEF RepShape
  <2> QED
    BY <1>2, <2>2, <2>3, <2>4, <2>5, <2>6, <2>7 DEF AckMove
<1>4. CASE ~ ServerRec!AckHere
  <2>1. a = sv_rec /\ s = sv_rep
    BY <1>2, <1>4 DEF ServerRec!Acked, ServerRec!Read
  <2> QED
    BY <1>1, <1>2, <2>1 DEF AckMove, SameNumbers
<1> QED
  BY <1>3, <1>4

(* The recovery begins. *)
LEMMA ServerBeginMoves ==
  ASSUME ServerKnown, sv_stat' \in [Server!Paths -> Server!QpStatus],
         ServerRec!TakeReport \/ ServerRec!Clear \/ ServerRec!Told,
         ServerRec!TakeReport => Phase(sv_rec) = "none"
  PROVE  ServerMoved
<1>1. /\ RecShape(sv_rec) /\ RepShape(sv_rep) /\ PhaseAt(sv_rec)
      /\ sv_rec.msg \in Report /\ sv_rec.max \in -1 .. TableLen - 1
      /\ sv_rep.buf \in Report /\ TableShape(sv_table)
  BY DEF ServerKnown, Plane, Reads, RepTyped
<1>2. SameWqes(sv_table, sv_table)
  BY DEF SameWqes
<1>3. CASE ServerRec!TakeReport
  <2>1. /\ sv_rec.at = "out" /\ ~ sv_rec.flag /\ sv_rep.rcq > 0
        /\ sv_rep' = [sv_rep EXCEPT !.rcq = sv_rep.rcq - 1]
        /\ sv_rec' = [sv_rec EXCEPT !.at = "clear", !.flag = TRUE, !.msg = sv_rep.buf]
        /\ sv_slot' = sv_slot /\ sv_table' = sv_table
    BY <1>3 DEF ServerRec!TakeReport, ServerRec!Polls, ServerRec!vars
  <2>2. /\ SameNumbers(sv_rec, sv_rec') /\ sv_rec'.at = "clear" /\ sv_rec'.flag = TRUE
        /\ sv_rec'.over = sv_rec.over /\ sv_rec'.msg = sv_rep.buf /\ sv_rec'.max = sv_rec.max
    BY <1>1, <2>1 DEF RecShape, SameNumbers
  <2>3. /\ sv_rep'.sq = sv_rep.sq /\ sv_rep'.rq = sv_rep.rq /\ sv_rep'.scq = sv_rep.scq
        /\ sv_rep'.rcq = sv_rep.rcq - 1 /\ sv_rep'.buf = sv_rep.buf
    BY <1>1, <2>1 DEF RepShape
  <2>4. ReadsMove(sv_rec, sv_rep, sv_rec', sv_rep')
    BY <1>1, <2>1, <2>2, <2>3 DEF ReadsMove
  <2>5. Phase(sv_rec) = "none" /\ Phase(sv_rec') = "clear"
    BY <1>3, <2>1, <2>2 DEF Phase
  <2>6. SideMove(sv_rec, sv_slot, sv_table, sv_rec', sv_slot, sv_table', RecvRecMax)
    BY <1>2, <2>1, <2>2, <2>5, RestMove DEF Resends
  <2> QED
    BY <2>1, <2>4, <2>6 DEF ServerMoved
<1>4. CASE ServerRec!Clear
  <2>1. /\ sv_rec.at = "clear" /\ sv_slot' = sv_slot /\ sv_table' = sv_table
    BY <1>4 DEF ServerRec!Clear
  <2>2. Phase(sv_rec) = "clear"
    BY <1>1, <2>1 DEF PhaseAt, Phase
  <2>3. CASE sv_rec' = sv_rec /\ sv_rep' = sv_rep
    <3>1. ReadsMove(sv_rec, sv_rep, sv_rec', sv_rep')
      BY <1>1, <2>3 DEF ReadsMove
    <3>2. SideMove(sv_rec, sv_slot, sv_table, sv_rec', sv_slot, sv_table', RecvRecMax)
      BY <1>2, <2>1, <2>3, RestMove DEF Resends, SameNumbers
    <3> QED
      BY <2>1, <3>1, <3>2 DEF ServerMoved
  <2>5. CASE sv_rec' = [sv_rec EXCEPT !.at = "nokey"] /\ sv_rep' = sv_rep
    <3>1. /\ SameNumbers(sv_rec, sv_rec') /\ sv_rec'.at = "nokey" /\ sv_rec'.flag = sv_rec.flag
          /\ sv_rec'.over = sv_rec.over /\ sv_rec'.msg = sv_rec.msg /\ sv_rec'.max = sv_rec.max
      BY <1>1, <2>5 DEF RecShape, SameNumbers
    <3>2. ReadsMove(sv_rec, sv_rep, sv_rec', sv_rep')
      BY <1>1, <2>5, <3>1 DEF ReadsMove
    <3>3. Phase(sv_rec') = "clear"
      BY <1>1, <2>1, <3>1 DEF PhaseAt, Phase
    <3>4. SideMove(sv_rec, sv_slot, sv_table, sv_rec', sv_slot, sv_table', RecvRecMax)
      BY <1>2, <2>1, <2>2, <3>1, <3>3, RestMove DEF Resends
    <3> QED
      BY <2>1, <3>2, <3>4 DEF ServerMoved
  <2>4. CASE /\ ~ (sv_rec' = sv_rec /\ sv_rep' = sv_rep)
             /\ ~ (sv_rec' = [sv_rec EXCEPT !.at = "nokey"] /\ sv_rep' = sv_rep)
    <3>1. PICK msg : msg = [loss |-> sv_stat'[ServerRec!Err].wqe_idx,
                            max |-> sv_table.next - 1,
                            completed |-> sv_stat'[ServerRec!Err].comp_temp]
      OBVIOUS
    <3>2. msg \in Report
      <4>1. ServerRec!Err \in Server!Paths
        BY TransferAssumption DEF ServerRec!Err, Server!Paths
      <4>2. PICK s : s = sv_stat'[ServerRec!Err] /\ s \in Server!QpStatus
        BY <4>1
      <4>3. s.wqe_idx \in 0 .. TableLen - 1 /\ s.comp_temp \in Nat
        BY <4>2 DEF Server!QpStatus, Server!Slots
      <4>4. sv_table.next - 1 \in -1 .. TableLen - 1
        BY <1>1, TransferAssumption DEF TableShape
      <4> QED
        BY <3>1, <4>2, <4>3, <4>4 DEF Report
    <3>4. PICK item \in Items : sv_rep' = [sv_rep EXCEPT !.sq = Append(@, item)]
      <4>1. PICK kind \in {"report", "ack"} :
              sv_rep' = [sv_rep EXCEPT !.sq = Append(@, ServerRec!Item(kind, 0, msg))]
        BY <1>4, <2>4, <3>1 DEF ServerRec!Clear
      <4>2. ServerRec!Item(kind, 0, msg) \in Items
        BY <3>2 DEF ServerRec!Item, Items
      <4> QED
        BY <4>1, <4>2
    <3>5. PICK msg2 \in Report : sv_rec' = [sv_rec EXCEPT !.at = "told", !.msg = msg2]
      <4>2. \/ sv_rec' = [sv_rec EXCEPT !.at = "told", !.msg = msg]
            \/ sv_rec' = [sv_rec EXCEPT !.at = "told", !.msg = sv_rec.msg]
        BY <1>4, <2>4, <3>1 DEF ServerRec!Clear
      <4> QED
        BY <1>1, <3>2, <4>2
    <3>6. /\ SameNumbers(sv_rec, sv_rec') /\ sv_rec'.at = "told" /\ sv_rec'.flag = sv_rec.flag
          /\ sv_rec'.over = sv_rec.over /\ sv_rec'.msg = msg2 /\ sv_rec'.max = sv_rec.max
      BY <1>1, <3>5 DEF RecShape, SameNumbers
    <3>7. /\ sv_rep'.sq = Append(sv_rep.sq, item) /\ sv_rep'.rq = sv_rep.rq
          /\ sv_rep'.scq = sv_rep.scq /\ sv_rep'.rcq = sv_rep.rcq /\ sv_rep'.buf = sv_rep.buf
      BY <1>1, <3>4 DEF RepShape
    <3>8. ReadsMove(sv_rec, sv_rep, sv_rec', sv_rep')
      BY <1>1, <3>4, <3>5, <3>6, <3>7 DEF ReadsMove
    <3>9. Phase(sv_rec') = "told"
      BY <2>2, <3>6 DEF Phase
    <3>10. SideMove(sv_rec, sv_slot, sv_table, sv_rec', sv_slot, sv_table', RecvRecMax)
      BY <1>2, <2>1, <2>2, <3>6, <3>9, RestMove DEF Resends
    <3> QED
      BY <2>1, <3>8, <3>10 DEF ServerMoved
  <2> QED
    BY <2>3, <2>4, <2>5
<1>5. CASE ServerRec!Told
  <2>11. PICK rq2 : /\ rq2 \in {sv_rep.rq, Append(sv_rep.rq, ServerRec!Item("ack", 0, ServerRec!NoReport))}
                    /\ sv_rep' = [sv_rep EXCEPT !.scq = @ - 1, !.rq = rq2]
    BY <1>5 DEF ServerRec!Told
  <2>12. sv_table.next - 1 \in -1 .. TableLen - 1 /\ sv_rec.msg.max \in -1 .. TableLen - 1
    BY <1>1, TransferAssumption DEF TableShape, Report
  <2>13. PICK m : /\ m \in {sv_table.next - 1, ServerRec!LastOf(sv_table.next - 1, sv_rec.msg.max)}
                  /\ sv_rec' = [sv_rec EXCEPT !.at = "polls", !.post = sv_rec.msg.loss,
                                              !.poll = sv_rec.msg.loss, !.max = m]
    BY <1>5 DEF ServerRec!Told
  <2>1. m \in -1 .. TableLen - 1
    BY <2>12, <2>13 DEF ServerRec!LastOf
  <2>2. sv_rec.at = "told" /\ sv_rep.scq > 0 /\ sv_slot' = sv_slot /\ sv_table' = sv_table
    BY <1>5 DEF ServerRec!Told, ServerRec!vars
  <2>3. /\ sv_rec'.at = "polls" /\ sv_rec'.flag = sv_rec.flag
        /\ sv_rec'.over = sv_rec.over /\ sv_rec'.msg = sv_rec.msg /\ sv_rec'.max = m
        /\ sv_rec'.post = sv_rec.msg.loss /\ sv_rec'.poll = sv_rec.msg.loss
        /\ sv_rec'.i = sv_rec.i /\ sv_rec'.iter = sv_rec.iter /\ sv_rec'.turn = sv_rec.turn
        /\ sv_rec'.out = sv_rec.out /\ sv_rec'.pkt = sv_rec.pkt
    BY <1>1, <2>13 DEF RecShape
  <2>4. /\ sv_rep'.sq = sv_rep.sq /\ sv_rep'.rq = rq2
        /\ sv_rep'.scq = sv_rep.scq - 1 /\ sv_rep'.rcq = sv_rep.rcq /\ sv_rep'.buf = sv_rep.buf
    BY <1>1, <2>11 DEF RepShape
  <2>5. ServerRec!Item("ack", 0, ServerRec!NoReport) \in Items
    BY TransferAssumption DEF ServerRec!Item, ServerRec!NoReport, Items, Report
  <2>6. rq2 = sv_rep.rq \/ \E item \in Items : rq2 = Append(sv_rep.rq, item)
    BY <2>5, <2>11
  <2>7. ReadsMove(sv_rec, sv_rep, sv_rec', sv_rep')
    BY <1>1, <2>1, <2>2, <2>3, <2>4, <2>6 DEF ReadsMove
  <2>8. Phase(sv_rec) = "told" /\ Phase(sv_rec') = "on"
    BY <1>1, <2>2, <2>3 DEF PhaseAt, Phase
  <2>9. Begins(sv_rec, sv_slot, sv_table, sv_rec', sv_slot', sv_table')
    BY <1>2, <2>2, <2>3, <2>8 DEF Begins
  <2> QED
    BY <2>7, <2>9 DEF ServerMoved, SideMove
<1> QED
  BY <1>3, <1>4, <1>5

(* The server's loops are those of a side. *)
LEMMA ServerLoops ==
  /\ sv_active = NumPath => \A x : ServerRec!NextResend(x) = Next1(x, RecvRecMax)
  /\ \A x : ServerRec!CountPacket(x) = Count1(x, sv_slot[x.poll].need)
<1>1. ASSUME sv_active = NumPath, NEW x
      PROVE  ServerRec!NextResend(x) = Next1(x, RecvRecMax)
  BY <1>1 DEF ServerRec!NextResend, Next1
<1>2. ASSUME NEW x
      PROVE  ServerRec!CountPacket(x) = Count1(x, sv_slot[x.poll].need)
  <2>1. PICK need : need = sv_slot[x.poll].need
    OBVIOUS
  <2> QED
    BY <2>1 DEF ServerRec!CountPacket, Count1
<1> QED
  BY <1>1, <1>2

(* What mprud_recovery_poll does to the report QP and to the table.         *)
LEMMA ServerPollsReport ==
  ASSUME ServerKnown, NEW r, ServerRec!RecoveryPoll(r)
  PROVE  /\ sv_rec' = r
         /\ sv_rep'.sq = sv_rep.sq /\ sv_rep'.rq = sv_rep.rq /\ sv_rep'.buf = sv_rep.buf
         /\ sv_rep'.scq = sv_rep.scq \/ (sv_rep.scq > 0 /\ sv_rep'.scq = sv_rep.scq - 1)
         /\ sv_rep'.rcq = sv_rep.rcq \/ (sv_rep.rcq > 0 /\ sv_rep'.rcq = sv_rep.rcq - 1)
         /\ IF ServerRec!RecoveryTakes THEN WqesBut(sv_table, sv_table', sv_rec.poll) /\ sv_rec.out > 0
            ELSE SameWqes(sv_table, sv_table')
<1>1. RepShape(sv_rep) /\ sv_table \in Tables
  BY DEF ServerKnown, Plane
<1>2. sv_rec' = r
  BY DEF ServerRec!RecoveryPoll
<1>3. SameWqes(sv_table, sv_table) /\ WqesBut(sv_table, sv_table, sv_rec.poll)
  BY DEF SameWqes, WqesBut
<1>4. CASE ~ ServerRec!RecoveryTakes
  <2>1. sv_rep' = sv_rep /\ sv_table' = sv_table
    BY <1>4 DEF ServerRec!RecoveryPoll
  <2> QED
    BY <1>2, <1>3, <1>4, <2>1
<1>5. CASE ServerRec!RecoveryTakes
  <2>1. sv_rec.out > 0
    BY <1>5 DEF ServerRec!RecoveryTakes
  <2>2. \/ sv_rep.rcq > 0 /\ sv_rep' = [sv_rep EXCEPT !.rcq = sv_rep.rcq - 1]
        \/ sv_rep.scq > 0 /\ sv_rep' = [sv_rep EXCEPT !.scq = sv_rep.scq - 1]
    BY <1>5 DEF ServerRec!RecoveryPoll, ServerRec!RecoveryTakes, ServerRec!Completed
  <2>3. /\ sv_rep'.sq = sv_rep.sq /\ sv_rep'.rq = sv_rep.rq /\ sv_rep'.buf = sv_rep.buf
        /\ sv_rep'.scq = sv_rep.scq \/ (sv_rep.scq > 0 /\ sv_rep'.scq = sv_rep.scq - 1)
        /\ sv_rep'.rcq = sv_rep.rcq \/ (sv_rep.rcq > 0 /\ sv_rep'.rcq = sv_rep.rcq - 1)
    BY <1>1, <2>2 DEF RepShape
  <2>4. \/ sv_table' = sv_table
        \/ sv_table' = [sv_table EXCEPT !.wqe[sv_rec.poll].iter_each[ServerRec!Err] = 0]
    BY <1>5 DEF ServerRec!RecoveryPoll
  <2>5. WqesBut(sv_table, sv_table', sv_rec.poll)
    <3>1. CASE sv_table' = sv_table
      BY <1>3, <3>1
    <3>2. CASE sv_table' = [sv_table EXCEPT !.wqe[sv_rec.poll].iter_each[ServerRec!Err] = 0]
      <4>1. PICK t, t2, k, p : t = sv_table /\ t2 = sv_table' /\ k = sv_rec.poll /\ p = ServerRec!Err
        OBVIOUS
      <4>2. t \in Tables /\ t2 = [t EXCEPT !.wqe[k].iter_each[p] = 0]
        BY <1>1, <3>2, <4>1
      <4>3. WqesBut(t, t2, k)
        BY ONLY <4>2, TableClears
      <4> QED
        BY <4>1, <4>3
    <3> QED
      BY <2>4, <3>1, <3>2
  <2> QED
    BY <1>2, <1>5, <2>1, <2>3, <2>5
<1> QED
  BY <1>4, <1>5

(* A WQE, a packet of it, or none, is resent. *)
LEMMA ServerResendMoves ==
  ASSUME ServerKnown,
         \/ ServerRec!AllResent \/ ServerRec!StartResend
         \/ ServerRec!ResendPacket \/ ServerRec!ResendDrain
  PROVE  ServerMoved
<1> DEFINE r == sv_rec
           r2 == sv_rec'
<1>1. /\ RecShape(r) /\ RepShape(sv_rep) /\ PhaseAt(r)
      /\ r.msg \in Report /\ r.max \in -1 .. TableLen - 1
      /\ sv_active = IF r.over THEN NumPath - 1 ELSE NumPath
      /\ Side(r, sv_slot, sv_table, RecvRecMax)
  BY DEF ServerKnown, Plane, Reads
<1>2. SameWqes(sv_table, sv_table)
  BY DEF SameWqes
<1>3. PICK a, s : /\ a = ServerRec!Acked /\ s = ServerRec!Read
                  /\ AckMove(r, sv_rep, a, s)
  BY ServerAcks
<1>4. ASSUME ServerRec!InPass
      PROVE  Phase(r) = "on" /\ r.at \in {"pass", "out"} /\ ~ Resends(r.at) /\ sv_active = NumPath
             /\ r.flag = TRUE /\ r.over = FALSE
  <2>1. r.flag /\ r.at \in {"pass", "out"}
    BY <1>4 DEF ServerRec!InPass, ServerRec!Polls
  <2> QED
    BY <1>1, <2>1 DEF PhaseAt, Phase, Resends
<1>5. ASSUME r2.msg = r.msg, r2.max \in -1 .. TableLen - 1, sv_rep' = s
      PROVE  ReadsMove(r, sv_rep, r2, sv_rep')
  BY <1>1, <1>3, <1>5 DEF AckMove, ReadsMove
<1>6. CASE ServerRec!AllResent
  <2>1. /\ ServerRec!InPass /\ sv_slot' = sv_slot /\ sv_table' = sv_table
        /\ r2 = [a EXCEPT !.at = "polls"] /\ sv_rep' = s
    BY <1>3, <1>6 DEF ServerRec!AllResent, ServerRec!vars
  <2>2. /\ SameNumbers(r, r2) /\ r2.at = "polls" /\ r2.flag = r.flag /\ r2.over = r.over
        /\ r2.msg = r.msg /\ r2.max = a.max
    BY <1>3, <2>1 DEF AckMove, RecShape, SameNumbers
  <2>3. Phase(r2) = "on"
    BY <1>4, <2>1, <2>2 DEF Phase
  <2>4. SideMove(r, sv_slot, sv_table, r2, sv_slot, sv_table', RecvRecMax)
    BY <1>2, <1>4, <2>1, <2>2, <2>3, RestMove DEF Resends
  <2>5. ReadsMove(r, sv_rep, r2, sv_rep')
    BY <1>3, <1>5, <2>1, <2>2 DEF AckMove
  <2> QED
    BY <2>1, <2>4, <2>5 DEF ServerMoved
<1>7. CASE ServerRec!StartResend
  <2>1. PICK k : k = r.post
    OBVIOUS
  <2>2. a.post = k /\ a.max \in -1 .. TableLen - 1
    BY <1>3, <2>1 DEF AckMove, SameNumbers
  <2>3. /\ ServerRec!InPass /\ sv_table' = sv_table /\ k <= a.max /\ sv_rep' = s
    BY <1>3, <1>7, <2>2 DEF ServerRec!StartResend, ServerRec!vars
  <2>4. Phase(r) = "on" /\ ~ Resends(r.at) /\ sv_active = NumPath /\ r.flag = TRUE /\ r.over = FALSE
    BY <1>4, <2>3
  <2>5. k \in Nat /\ k < TableLen
    <3>1. k \in Nat
      BY <1>1, <2>1 DEF Side, Numbers
    <3> QED
      BY <2>2, <2>3, <3>1, TransferAssumption
  <2>6. CASE sv_slot[k].len = 0
    <3>1. r2 = [a EXCEPT !.at = "crash"] /\ sv_slot' = sv_slot
      BY <1>3, <1>7, <2>2, <2>6 DEF ServerRec!StartResend
    <3>2. /\ SameNumbers(r, r2) /\ r2.at = "crash" /\ r2.flag = r.flag /\ r2.over = r.over
          /\ r2.msg = r.msg /\ r2.max = a.max
      BY <1>3, <3>1 DEF AckMove, RecShape, SameNumbers
    <3>3. Phase(r2) = "on"
      BY <2>4, <3>2 DEF Phase
    <3>4. SideMove(r, sv_slot, sv_table, r2, sv_slot, sv_table', RecvRecMax)
      BY <1>2, <2>3, <2>4, <3>2, <3>3, RestMove DEF Resends
    <3>5. ReadsMove(r, sv_rep, r2, sv_rep')
      BY <1>5, <2>2, <2>3, <3>2
    <3> QED
      BY <3>1, <3>4, <3>5 DEF ServerMoved
  <2>7. CASE sv_slot[k].len # 0
    <3>1. PICK len, n : len = Owing(r, sv_slot, sv_table) /\ n = Iter(len, NumPath - 1)
      OBVIOUS
    <3>2. len = ServerRec!Portion(k)
      BY <2>1, <2>4, <3>1 DEF Owing, ServerRec!Portion, ServerRec!Err, EachOf, LastPath
    <3>3. n = ServerRec!Iter(len, sv_active - 1)
      BY <2>4, <3>1 DEF Iter, IterEach, ChunkSize, ServerRec!Iter, ServerRec!IterEach,
                        ServerRec!ChunkSize
    <3>4. /\ sv_slot' = [sv_slot EXCEPT ![k] = [len |-> len, need |-> n]]
          /\ r2 = [a EXCEPT !.i = 0, !.iter = n, !.turn = @ % (sv_active - 1),
                            !.at = IF n = 0 THEN "polls" ELSE "resend",
                            !.post = IF n = 0 THEN @ + 1 ELSE @]
      BY <1>3, <1>7, <2>2, <2>7, <3>2, <3>3 DEF ServerRec!StartResend
    <3>5. PICK at, post, turn : /\ r2 = [a EXCEPT !.i = 0, !.iter = n, !.turn = turn,
                                                  !.at = at, !.post = post]
                                /\ turn = r.turn % (NumPath - 1)
                                /\ n # 0 => at = "resend" /\ post = k
      <4>1. a.turn = r.turn
        BY <1>3 DEF AckMove, SameNumbers
      <4>2. CASE n = 0
        <5>1. r2 = [a EXCEPT !.i = 0, !.iter = n, !.turn = r.turn % (NumPath - 1),
                             !.at = "polls", !.post = a.post + 1]
          BY <2>4, <3>4, <4>1, <4>2
        <5> QED
          BY <4>2, <5>1
      <4>3. CASE n # 0
        <5>1. r2 = [a EXCEPT !.i = 0, !.iter = n, !.turn = r.turn % (NumPath - 1),
                             !.at = "resend", !.post = k]
          BY <2>2, <2>4, <3>4, <4>1, <4>3
        <5> QED
          BY <4>3, <5>1
      <4> QED
        BY <4>2, <4>3, Zenon
    <3>6. /\ r2.i = 0 /\ r2.iter = n /\ r2.turn = turn /\ r2.at = at /\ r2.post = post
          /\ r2.out = r.out /\ r2.pkt = r.pkt /\ r2.poll = r.poll /\ r2.msg = r.msg
          /\ r2.max = a.max /\ r2.flag = r.flag /\ r2.over = r.over
      BY <1>3, <3>5 DEF AckMove, RecShape, SameNumbers
    <3>7. n # 0 => Phase(r2) = "on"
      BY <2>4, <3>5, <3>6 DEF Phase
    <3>8. Starts(r, sv_slot, sv_table, r2, sv_slot', sv_table')
      BY <1>2, <2>1, <2>3, <2>4, <2>5, <2>7, <3>1, <3>4, <3>5, <3>6, <3>7 DEF Starts
    <3>9. ReadsMove(r, sv_rep, r2, sv_rep')
      BY <1>5, <2>2, <2>3, <3>6
    <3> QED
      BY <3>8, <3>9 DEF ServerMoved, SideMove
  <2> QED
    BY <2>6, <2>7
<1>8. ASSUME r.at \in {"resend", "rdrain"}
      PROVE  Phase(r) = "on" /\ sv_active = NumPath
  BY <1>1, <1>8 DEF PhaseAt, Phase
<1>9. CASE ServerRec!ResendPacket
  <2>1. /\ r.at = "resend" /\ sv_slot' = sv_slot /\ sv_table' = sv_table
        /\ r2 = ServerRec!NextResend([r EXCEPT !.at = "rdrain", !.out = @ + 1])
    BY <1>9 DEF ServerRec!ResendPacket, ServerRec!vars
  <2>2. PICK packet : packet = ServerRec!Item("data", r.turn, [k |-> r.post, i |-> r.i])
    OBVIOUS
  <2>3. packet \in Items
    <3>1. r.turn \in Survivors /\ r.i \in Nat /\ r.post \in 0 .. TableLen
      BY <1>1 DEF Side, Numbers
    <3>2. r.post < TableLen
      BY <1>1, <1>8, <2>1 DEF Side, Working, Books, Resends
    <3>3. r.post \in 0 .. TableLen - 1
      BY <3>1, <3>2, TransferAssumption
    <3> QED
      BY <2>2, <3>1, <3>3 DEF ServerRec!Item, Items
  <2>4. \/ sv_rep' = [sv_rep EXCEPT !.rq = Append(@, packet)]
        \/ sv_rep' = [sv_rep EXCEPT !.sq = Append(@, packet)]
    BY <1>9, <2>2 DEF ServerRec!ResendPacket
  <2>5. /\ sv_rep'.scq = sv_rep.scq /\ sv_rep'.rcq = sv_rep.rcq /\ sv_rep'.buf = sv_rep.buf
        /\ \/ sv_rep'.sq = sv_rep.sq /\ sv_rep'.rq = Append(sv_rep.rq, packet)
           \/ sv_rep'.rq = sv_rep.rq /\ sv_rep'.sq = Append(sv_rep.sq, packet)
    BY <1>1, <2>4 DEF RepShape
  <2>6. PICK x : x = [r EXCEPT !.at = "rdrain", !.out = @ + 1]
    OBVIOUS
  <2>7. RecShape(x) /\ x.msg = r.msg /\ x.max = r.max
    BY <1>1, <2>6 DEF RecShape
  <2>8. r2 = Next1(x, RecvRecMax)
    BY <1>8, <2>1, <2>6, ServerLoops
  <2>9. r2.msg = r.msg /\ r2.max = r.max
    BY <2>7, <2>8, Next1Told
  <2>10. ReadsMove(r, sv_rep, r2, sv_rep')
    BY <1>1, <2>3, <2>5, <2>9 DEF ReadsMove
  <2>11. Gives(r, sv_slot, sv_table, r2, sv_slot', sv_table', RecvRecMax)
    BY <1>2, <2>1, <2>6, <2>8 DEF Gives
  <2> QED
    BY <2>10, <2>11 DEF ServerMoved, SideMove
<1>10. CASE ServerRec!ResendDrain
  <2>1. /\ r.at = "rdrain" /\ sv_slot' = sv_slot
        /\ ServerRec!RecoveryPoll(ServerRec!NextResend(ServerRec!Counted(r)))
    BY <1>10 DEF ServerRec!ResendDrain
  <2>2. PICK x : x = ServerRec!Counted(r)
    OBVIOUS
  <2>3. ServerRec!NextResend(x) = Next1(x, RecvRecMax)
    BY <1>8, <2>1, ServerLoops
  <2>4. ServerRec!RecoveryPoll(Next1(x, RecvRecMax))
    BY <2>1, <2>2, <2>3
  <2>5. /\ r2 = Next1(x, RecvRecMax)
        /\ sv_rep'.sq = sv_rep.sq /\ sv_rep'.rq = sv_rep.rq /\ sv_rep'.buf = sv_rep.buf
        /\ sv_rep'.scq = sv_rep.scq \/ (sv_rep.scq > 0 /\ sv_rep'.scq = sv_rep.scq - 1)
        /\ sv_rep'.rcq = sv_rep.rcq \/ (sv_rep.rcq > 0 /\ sv_rep'.rcq = sv_rep.rcq - 1)
        /\ IF ServerRec!RecoveryTakes THEN WqesBut(sv_table, sv_table', r.poll) /\ r.out > 0
           ELSE SameWqes(sv_table, sv_table')
    BY <2>4, ServerPollsReport
  <2>6. x = IF ServerRec!RecoveryTakes THEN Count1(r, sv_slot[r.poll].need) ELSE r
    BY <2>2, ServerLoops DEF ServerRec!Counted
  <2>7. RecShape(x) /\ x.msg = r.msg /\ x.max = r.max
    BY <1>1, <2>6, Count1Told
  <2>8. r2.msg = r.msg /\ r2.max = r.max
    BY <2>5, <2>7, Next1Told
  <2>9. ReadsMove(r, sv_rep, r2, sv_rep')
    BY <1>1, <2>5, <2>8 DEF ReadsMove
  <2>10. Drains(r, sv_slot, sv_table, r2, sv_slot', sv_table', RecvRecMax)
    BY <2>1, <2>5, <2>6 DEF Drains
  <2> QED
    BY <2>9, <2>10 DEF ServerMoved, SideMove
<1> QED
  BY <1>6, <1>7, <1>9, <1>10

(* A pass polls, and the recovery ends. *)
LEMMA ServerEndMoves ==
  ASSUME ServerKnown,
         ServerRec!Finish \/ ServerRec!Sync \/ ServerRec!PassReports \/ ServerRec!PassPolls
  PROVE  ServerMoved
<1> DEFINE r == sv_rec
           r2 == sv_rec'
<1>1. /\ RecShape(r) /\ RepShape(sv_rep) /\ PhaseAt(r)
      /\ r.msg \in Report /\ r.max \in -1 .. TableLen - 1 /\ sv_table \in Tables
  BY DEF ServerKnown, Plane, Reads
<1>2. SameWqes(sv_table, sv_table)
  BY DEF SameWqes
<1>3. PICK a, s : /\ a = ServerRec!Acked /\ s = ServerRec!Read
                  /\ AckMove(r, sv_rep, a, s)
  BY ServerAcks
<1>4. CASE ServerRec!Finish
  <2>1. /\ ServerRec!InPass /\ sv_slot' = sv_slot /\ sv_table' = sv_table
        /\ r2 = [a EXCEPT !.at = "sync", !.flag = FALSE, !.listening = FALSE, !.over = TRUE]
    BY <1>3, <1>4 DEF ServerRec!Finish
  <2>2. /\ SameNumbers(r, r2) /\ r2.at = "sync" /\ r2.over = TRUE
        /\ r2.msg = r.msg /\ r2.max = a.max
    BY <1>3, <2>1 DEF AckMove, RecShape, SameNumbers
  <2>3. r.flag /\ r.at \in {"pass", "out"}
    BY <2>1 DEF ServerRec!InPass, ServerRec!Polls
  <2>4. Phase(r) = "on" /\ Phase(r2) = "over"
    BY <1>1, <2>2, <2>3 DEF PhaseAt, Phase
  <2>5. SideMove(r, sv_slot, sv_table, r2, sv_slot, sv_table', RecvRecMax)
    BY <1>2, <2>1, <2>2, <2>3, <2>4, RestMove DEF Resends
  <2>6. PICK item : item = ServerRec!Item("done", 0, ServerRec!NoReport)
    OBVIOUS
  <2>7. item \in Items
    BY <2>6, TransferAssumption DEF ServerRec!Item, ServerRec!NoReport, Items, Report
  <2>8. \/ sv_rep' = [s EXCEPT !.rq = Append(@, item)]
        \/ sv_rep' = [s EXCEPT !.sq = Append(@, item)]
    BY <1>3, <1>4, <2>6 DEF ServerRec!Finish
  <2>9. /\ sv_rep'.scq = s.scq /\ sv_rep'.rcq = s.rcq /\ sv_rep'.buf = s.buf
        /\ \/ sv_rep'.sq = s.sq /\ sv_rep'.rq = Append(s.rq, item)
           \/ sv_rep'.rq = s.rq /\ sv_rep'.sq = Append(s.sq, item)
    BY <1>3, <2>8 DEF AckMove, RepShape
  <2>10. ReadsMove(r, sv_rep, r2, sv_rep')
    BY <1>1, <1>3, <2>2, <2>7, <2>9 DEF AckMove, ReadsMove
  <2> QED
    BY <2>1, <2>5, <2>10 DEF ServerMoved
<1>5. CASE ServerRec!Sync
  <2>1. /\ r.at = "sync" /\ sv_slot' = sv_slot /\ sv_table' = sv_table
        /\ r2 = [r EXCEPT !.at = "polls"]
        /\ \/ sv_rep.scq > 0 /\ sv_rep' = [sv_rep EXCEPT !.scq = sv_rep.scq - 1]
           \/ sv_rep.rcq > 0 /\ sv_rep' = [sv_rep EXCEPT !.rcq = sv_rep.rcq - 1]
    BY <1>5 DEF ServerRec!Sync, ServerRec!vars
  <2>2. /\ SameNumbers(r, r2) /\ r2.at = "polls" /\ r2.over = r.over /\ r2.flag = r.flag
        /\ r2.msg = r.msg /\ r2.max = r.max
    BY <1>1, <2>1 DEF RecShape, SameNumbers
  <2>3. Phase(r) = "over" /\ Phase(r2) = "over"
    BY <1>1, <2>1, <2>2 DEF PhaseAt, Phase
  <2>4. SideMove(r, sv_slot, sv_table, r2, sv_slot, sv_table', RecvRecMax)
    BY <1>2, <2>1, <2>2, <2>3, RestMove DEF Resends
  <2>5. /\ sv_rep'.sq = sv_rep.sq /\ sv_rep'.rq = sv_rep.rq /\ sv_rep'.buf = sv_rep.buf
        /\ sv_rep'.scq = sv_rep.scq \/ (sv_rep.scq > 0 /\ sv_rep'.scq = sv_rep.scq - 1)
        /\ sv_rep'.rcq = sv_rep.rcq \/ (sv_rep.rcq > 0 /\ sv_rep'.rcq = sv_rep.rcq - 1)
    BY <1>1, <2>1 DEF RepShape
  <2>6. ReadsMove(r, sv_rep, r2, sv_rep')
    BY <1>1, <2>2, <2>5 DEF ReadsMove
  <2> QED
    BY <2>1, <2>4, <2>6 DEF ServerMoved
<1>6. ASSUME r.at = "polls", NEW at \in {"pass", "out"}, r2 = [r EXCEPT !.at = at]
      PROVE  /\ SameNumbers(r, r2) /\ r2.msg = r.msg /\ r2.max = r.max
             /\ r2.at # "spin" /\ ~ Resends(r.at) /\ ~ Resends(r2.at) /\ Phase(r2) = Phase(r)
  <2>1. /\ SameNumbers(r, r2) /\ r2.at = at /\ r2.over = r.over /\ r2.flag = r.flag
        /\ r2.msg = r.msg /\ r2.max = r.max
    BY <1>1, <1>6 DEF RecShape, SameNumbers
  <2>2. Phase(r2) = Phase(r)
    BY <1>1, <1>6, <2>1 DEF Phase
  <2> QED
    BY <1>6, <2>1, <2>2 DEF Resends
<1>7. CASE ServerRec!PassReports
  <2>1. /\ r.at = "polls" /\ sv_slot' = sv_slot /\ sv_rep' = sv_rep /\ r2 = [r EXCEPT !.at = "out"]
    BY <1>7 DEF ServerRec!PassReports
  <2>2. PICK h : sv_table' = [sv_table EXCEPT !.wqe[sv_table.head].valid = 0, !.head = h]
    BY <1>7 DEF ServerRec!PassReports, ServerRec!PollComplete
  <2>3. SameWqes(sv_table, sv_table')
    <3>1. PICK t, t2, k : t = sv_table /\ t2 = sv_table' /\ k = sv_table.head
      OBVIOUS
    <3>2. t \in Tables /\ t2 = [t EXCEPT !.wqe[k].valid = 0, !.head = h]
      BY <1>1, <2>2, <3>1
    <3>3. SameWqes(t, t2)
      BY ONLY <3>2, TableReports, Zenon
    <3> QED
      BY <3>1, <3>3
  <2>4. /\ SameNumbers(r, r2) /\ r2.msg = r.msg /\ r2.max = r.max
        /\ r2.at # "spin" /\ ~ Resends(r.at) /\ ~ Resends(r2.at) /\ Phase(r2) = Phase(r)
    BY <1>6, <2>1
  <2>5. SideMove(r, sv_slot, sv_table, r2, sv_slot, sv_table', RecvRecMax)
    BY <2>3, <2>4, RestMove
  <2>6. ReadsMove(r, sv_rep, r2, sv_rep')
    BY <1>1, <2>1, <2>4 DEF ReadsMove
  <2> QED
    BY <2>1, <2>5, <2>6 DEF ServerMoved
<1>8. CASE ServerRec!PassPolls
  <2>1. /\ r.at = "polls" /\ sv_slot' = sv_slot
        /\ \/ r.flag /\ ServerRec!RecoveryPoll(ServerRec!Counted([r EXCEPT !.at = "pass"]))
           \/ r2 = [r EXCEPT !.at = "out"] /\ sv_rep' = sv_rep /\ sv_table' = sv_table
    BY <1>8 DEF ServerRec!PassPolls
  <2>2. CASE r2 = [r EXCEPT !.at = "out"] /\ sv_rep' = sv_rep /\ sv_table' = sv_table
    <3>1. /\ SameNumbers(r, r2) /\ r2.msg = r.msg /\ r2.max = r.max
          /\ r2.at # "spin" /\ ~ Resends(r.at) /\ ~ Resends(r2.at) /\ Phase(r2) = Phase(r)
      BY <1>6, <2>1, <2>2
    <3>2. SideMove(r, sv_slot, sv_table, r2, sv_slot, sv_table', RecvRecMax)
      BY <1>2, <2>2, <3>1, RestMove
    <3>3. ReadsMove(r, sv_rep, r2, sv_rep')
      BY <1>1, <2>2, <3>1 DEF ReadsMove
    <3> QED
      BY <2>1, <3>2, <3>3 DEF ServerMoved
  <2>3. CASE r.flag /\ ServerRec!RecoveryPoll(ServerRec!Counted([r EXCEPT !.at = "pass"]))
    <3>1. PICK x, y : x = [r EXCEPT !.at = "pass"] /\ y = ServerRec!Counted(x)
      OBVIOUS
    <3>2. RecShape(x) /\ x.msg = r.msg /\ x.max = r.max /\ x.poll = r.poll
      BY <1>1, <3>1 DEF RecShape
    <3>3. ServerRec!RecoveryPoll(y)
      BY <2>3, <3>1
    <3>4. /\ r2 = y
          /\ sv_rep'.sq = sv_rep.sq /\ sv_rep'.rq = sv_rep.rq /\ sv_rep'.buf = sv_rep.buf
          /\ sv_rep'.scq = sv_rep.scq \/ (sv_rep.scq > 0 /\ sv_rep'.scq = sv_rep.scq - 1)
          /\ sv_rep'.rcq = sv_rep.rcq \/ (sv_rep.rcq > 0 /\ sv_rep'.rcq = sv_rep.rcq - 1)
          /\ IF ServerRec!RecoveryTakes THEN WqesBut(sv_table, sv_table', r.poll) /\ r.out > 0
             ELSE SameWqes(sv_table, sv_table')
      BY <3>3, ServerPollsReport
    <3>5. y = IF ServerRec!RecoveryTakes THEN Count1(x, sv_slot[x.poll].need) ELSE x
      <4>1. ServerRec!CountPacket(x) = Count1(x, sv_slot[x.poll].need)
        BY ServerLoops
      <4>2. y = IF ServerRec!RecoveryTakes THEN ServerRec!CountPacket(x) ELSE x
        BY <3>1 DEF ServerRec!Counted
      <4> QED
        BY <4>1, <4>2
    <3>6. r2.msg = r.msg /\ r2.max = r.max
      BY <3>2, <3>4, <3>5, Count1Told
    <3>7. ReadsMove(r, sv_rep, r2, sv_rep')
      BY <1>1, <3>4, <3>6 DEF ReadsMove
    <3>8. CASE ServerRec!RecoveryTakes
      <4>1. Phase(r) = "on"
        BY <1>1, <2>1, <2>3 DEF PhaseAt, Phase
      <4>2. Counts1(r, sv_slot, sv_table, r2, sv_slot', sv_table')
        BY <2>1, <3>1, <3>2, <3>4, <3>5, <3>8, <4>1 DEF Counts1
      <4> QED
        BY <3>7, <4>2 DEF ServerMoved, SideMove
    <3>9. CASE ~ ServerRec!RecoveryTakes
      <4>1. r2 = [r EXCEPT !.at = "pass"]
        BY <3>1, <3>4, <3>5, <3>9
      <4>2. /\ SameNumbers(r, r2) /\ r2.msg = r.msg /\ r2.max = r.max
            /\ r2.at # "spin" /\ ~ Resends(r.at) /\ ~ Resends(r2.at) /\ Phase(r2) = Phase(r)
        BY <1>6, <2>1, <4>1
      <4>3. SideMove(r, sv_slot, sv_table, r2, sv_slot, sv_table', RecvRecMax)
        BY <3>4, <3>9, <4>2, RestMove
      <4> QED
        BY <2>1, <3>7, <4>3 DEF ServerMoved
    <3> QED
      BY <3>8, <3>9
  <2> QED
    BY <2>1, <2>2, <2>3
<1> QED
  BY <1>4, <1>5, <1>7, <1>8

-----------------------------------------------------------------------------
(***************************************************************************)
(* The client's steps, too.                                                *)
(***************************************************************************)
ClientKnown ==
  /\ Plane(cl_rec, cl_rep) /\ TableShape(cl_table)
  /\ cl_active = IF cl_rec.over THEN NumPath - 1 ELSE NumPath
  /\ cl_table \in Tables
  /\ sizes \in [1 .. MaxMsgs -> Sizes]
  /\ Reads(cl_rec, cl_rep)
  /\ Side(cl_rec, cl_slot, cl_table, SendRecMax)

ClientMoved ==
  /\ SideMove(cl_rec, cl_slot, cl_table, cl_rec', cl_slot', cl_table', SendRecMax)
  /\ ReadsMove(cl_rec, cl_rep, cl_rec', cl_rep')

(* Nothing of the recovery changes but whether the side listens.            *)
LEMMA ClientRests ==
  ASSUME ClientKnown, cl_rec.at = "out",
         cl_slot' = cl_slot, SameWqes(cl_table, cl_table'),
         \E x : cl_rec' = [cl_rec EXCEPT !.listening = x],
         \/ cl_rep' = cl_rep
         \/ cl_rep' = [cl_rep EXCEPT !.rq = Append(@, ClientRec!Item("report", 0, ClientRec!NoReport))]
  PROVE  ClientMoved
<1>1. RecShape(cl_rec) /\ RepShape(cl_rep) /\ Reads(cl_rec, cl_rep)
  BY DEF ClientKnown, Plane
<1>2. /\ cl_rec'.at = "out" /\ cl_rec'.flag = cl_rec.flag /\ cl_rec'.over = cl_rec.over
      /\ SameNumbers(cl_rec, cl_rec') /\ cl_rec'.msg = cl_rec.msg /\ cl_rec'.max = cl_rec.max
  BY <1>1 DEF RecShape, SameNumbers
<1>3. Rests(cl_rec, cl_slot, cl_table, cl_rec', cl_slot', cl_table')
  BY <1>2 DEF Rests, Resends, Phase
<1>4. ClientRec!Item("report", 0, ClientRec!NoReport) \in Items
  BY TransferAssumption DEF ClientRec!Item, ClientRec!NoReport, Items, Report
<1>5. /\ cl_rep'.sq = cl_rep.sq /\ cl_rep'.scq = cl_rep.scq /\ cl_rep'.rcq = cl_rep.rcq
      /\ cl_rep'.buf = cl_rep.buf
      /\ cl_rep'.rq = cl_rep.rq \/ \E item \in Items : cl_rep'.rq = Append(cl_rep.rq, item)
  BY <1>1, <1>4 DEF RepShape
<1>6. ReadsMove(cl_rec, cl_rep, cl_rec', cl_rep')
  BY <1>1, <1>2, <1>5 DEF ReadsMove, Reads
<1> QED
  BY <1>3, <1>6 DEF ClientMoved, SideMove

(* A message is posted. *)
LEMMA ClientPostMoves ==
  ASSUME ClientKnown, ClientPost
  PROVE  ClientMoved
<1>1. PICK size : size = sizes[cl_table.sqn + 1]
  OBVIOUS
<1>2. /\ cl_table.sqn < MaxMsgs /\ cl_table.sqn \in Nat /\ cl_table \in Tables
      /\ cl_table.next \in 0 .. TableLen - 1
  BY DEF ClientPost, ClientKnown, Tables
<1>3. size \in Sizes
  <2>1. cl_table.sqn + 1 \in 1 .. MaxMsgs
    BY <1>2, TransferAssumption
  <2> QED
    BY <1>1, <2>1 DEF ClientKnown
<1>4. /\ ClientRec!PostMessage(size) /\ cl_rec' = cl_rec /\ cl_rep' = cl_rep
      /\ cl_slot' = [cl_slot EXCEPT ![cl_table.next].len = size]
  BY <1>1 DEF ClientPost, ClientRec!PostMessage
<1>5. PICK w : w = [valid |-> 1,
                    iter_each |-> [p \in ClientRec!Paths |->
                       IF p < cl_active THEN ClientRec!IterEach(size, cl_active) ELSE 0]]
  OBVIOUS
<1>6. PICK n, s : n = ClientRec!Wrap(cl_table.next + 1) /\ s = cl_table.sqn + 1
  OBVIOUS
<1>7. cl_table' = [cl_table EXCEPT !.next = n, !.sqn = s, !.wqe[cl_table.next] = w]
  <2>1. cl_table' = [cl_table EXCEPT !.next = ClientRec!Wrap(@ + 1), !.sqn = @ + 1,
                                     !.wqe[cl_table.next] = w]
    BY <1>4, <1>5 DEF ClientRec!PostMessage, ClientRec!Post, ClientRec!StoreWr
  <2> QED
    BY <1>6, <2>1
<1>8. /\ cl_table'.sqn = cl_table.sqn + 1
      /\ \A k \in 0 .. TableLen - 1 : k # cl_table.next => EachOf(cl_table', k) = EachOf(cl_table, k)
      /\ EachOf(cl_table', cl_table.next) = w.iter_each[LastPath]
  <2>1. PICK t, t2, c : t = cl_table /\ t2 = cl_table' /\ c = cl_table.next
    OBVIOUS
  <2>2. t \in Tables /\ t2.wqe = [t.wqe EXCEPT ![t.next] = w] /\ t2.sqn = s
    BY <1>2, <1>7, <2>1 DEF Tables
  <2>3. /\ \A k \in 0 .. TableLen - 1 : k # t.next => EachOf(t2, k) = EachOf(t, k)
        /\ EachOf(t2, t.next) = w.iter_each[LastPath]
    BY ONLY <2>2, TableStores
  <2> QED
    BY <1>6, <2>1, <2>2, <2>3
<1>9. Phase(cl_rec) # "over" => w.iter_each[LastPath] = IterEach(size, NumPath)
  <2> SUFFICES ASSUME Phase(cl_rec) # "over"
               PROVE  w.iter_each[LastPath] = IterEach(size, NumPath)
    OBVIOUS
  <2>1. cl_active = NumPath
    BY DEF ClientKnown, Phase
  <2>2. LastPath \in ClientRec!Paths /\ LastPath < NumPath
    BY TransferAssumption DEF LastPath, ClientRec!Paths
  <2>3. ClientRec!IterEach(size, NumPath) = IterEach(size, NumPath)
    BY DEF ClientRec!IterEach, IterEach, ClientRec!ChunkSize, ChunkSize
  <2> QED
    BY <1>5, <2>1, <2>2, <2>3
<1>10. Posts(cl_rec, cl_slot, cl_table, cl_rec', cl_slot', cl_table')
  BY <1>1, <1>2, <1>3, <1>4, <1>8, <1>9 DEF Posts
<1>11. ReadsMove(cl_rec, cl_rep, cl_rec', cl_rep')
  BY <1>4 DEF ClientKnown, Reads, ReadsMove
<1> QED
  BY <1>10, <1>11 DEF ClientMoved, SideMove

(* The other steps outside a recovery. *)
LEMMA ClientPlainMoves ==
  ASSUME ClientKnown, ClientPostPacket \/ ClientCutShort \/ ClientPoll
  PROVE  ClientMoved
<1>1. RecShape(cl_rec) /\ cl_table \in Tables
  BY DEF ClientKnown, Plane
<1>2. cl_rec = [cl_rec EXCEPT !.listening = cl_rec.listening]
  BY <1>1 DEF RecShape
<1>3. SameWqes(cl_table, cl_table)
  BY DEF SameWqes
<1>4. CASE ClientPostPacket
  BY <1>2, <1>3, <1>4, ClientRests DEF ClientPostPacket, ClientPacket, Client!PostPacket, clRec
<1>5. CASE ClientCutShort
  BY <1>2, <1>3, <1>5, ClientRests DEF ClientCutShort, ClientRec!CutShort, ClientRec!recVars
<1>6. CASE ClientPoll
  <2>1. /\ cl_slot' = cl_slot /\ cl_rec.at = "out"
        /\ \E x : cl_rec' = [cl_rec EXCEPT !.listening = x]
        /\ \/ cl_rep' = cl_rep
           \/ cl_rep' = [cl_rep EXCEPT !.rq = Append(@, ClientRec!Item("report", 0, ClientRec!NoReport))]
    BY <1>6 DEF ClientPoll, ClientRec!PlainPoll, ClientRec!Polls
  <2>2. \/ cl_table' = cl_table
        \/ \E h : cl_table' = [cl_table EXCEPT !.wqe[cl_table.head].valid = 0, !.head = h]
    BY <1>6, Zenon DEF ClientPoll, ClientRec!PlainPoll, ClientRec!DrainPoll, ClientRec!PollComplete,
                ClientRec!PollProgress
  <2>3. SameWqes(cl_table, cl_table')
    <3>1. CASE cl_table' = cl_table
      BY <1>3, <3>1
    <3>2. ASSUME NEW h, cl_table' = [cl_table EXCEPT !.wqe[cl_table.head].valid = 0, !.head = h]
          PROVE  SameWqes(cl_table, cl_table')
      <4>1. PICK t, t2, k : t = cl_table /\ t2 = cl_table' /\ k = cl_table.head
        OBVIOUS
      <4>2. t \in Tables /\ t2 = [t EXCEPT !.wqe[k].valid = 0, !.head = h]
        BY <1>1, <3>2, <4>1
      <4>3. SameWqes(t, t2)
        BY ONLY <4>2, TableReports, Zenon
      <4> QED
        BY <4>1, <4>3
    <3> QED
      BY <2>2, <3>1, <3>2, Zenon
  <2> QED
    BY <2>1, <2>3, ClientRests
<1> QED
  BY <1>4, <1>5, <1>6

(* The acknowledgement is read, or not. *)
LEMMA ClientAcks ==
  ASSUME ClientKnown
  PROVE  AckMove(cl_rec, cl_rep, ClientRec!Acked, ClientRec!Read)
<1>1. /\ RecShape(cl_rec) /\ RepShape(cl_rep) /\ cl_rec.max \in -1 .. TableLen - 1
      /\ cl_rep.buf.max \in -1 .. TableLen - 1
  BY DEF ClientKnown, Plane, Reads, RepTyped, Report
<1>2. PICK a, s : a = ClientRec!Acked /\ s = ClientRec!Read
  OBVIOUS
<1>3. CASE ClientRec!AckHere
  <2>1. PICK m : m = ClientRec!LastOf(cl_rec.max, cl_rep.buf.max)
    OBVIOUS
  <2>2. m \in -1 .. TableLen - 1
    BY <1>1, <2>1 DEF ClientRec!LastOf
  <2>3. /\ a = [cl_rec EXCEPT !.got = TRUE, !.max = m] /\ s = [cl_rep EXCEPT !.rcq = cl_rep.rcq - 1]
        /\ cl_rep.rcq > 0
    BY <1>2, <1>3, <2>1 DEF ClientRec!Acked, ClientRec!Read, ClientRec!AckHere
  <2>4. /\ SameNumbers(cl_rec, a)
        /\ a.at = cl_rec.at /\ a.flag = cl_rec.flag /\ a.over = cl_rec.over /\ a.msg = cl_rec.msg
        /\ a.listening = cl_rec.listening /\ a.max = m /\ a.got = TRUE
    BY <1>1, <2>3 DEF RecShape, SameNumbers
  <2>5. RecShape(a)
    BY <1>1, <2>3, <2>4 DEF RecShape, SameNumbers
  <2>6. /\ s.sq = cl_rep.sq /\ s.rq = cl_rep.rq /\ s.scq = cl_rep.scq /\ s.buf = cl_rep.buf
        /\ s.rcq = cl_rep.rcq - 1
    BY <1>1, <2>3 DEF RepShape
  <2>7. RepShape(s)
    BY <1>1, <2>3, <2>6 DEF RepShape
  <2> QED
    BY <1>2, <2>2, <2>3, <2>4, <2>5, <2>6, <2>7 DEF AckMove
<1>4. CASE ~ ClientRec!AckHere
  <2>1. a = cl_rec /\ s = cl_rep
    BY <1>2, <1>4 DEF ClientRec!Acked, ClientRec!Read
  <2> QED
    BY <1>1, <1>2, <2>1 DEF AckMove, SameNumbers
<1> QED
  BY <1>3, <1>4

(* The recovery begins. *)
LEMMA ClientBeginMoves ==
  ASSUME ClientKnown, cl_stat' \in [Client!Paths -> Client!QpStatus],
         ClientRec!TakeReport \/ ClientRec!Clear \/ ClientRec!Told,
         ClientRec!TakeReport => Phase(cl_rec) = "none"
  PROVE  ClientMoved
<1>1. /\ RecShape(cl_rec) /\ RepShape(cl_rep) /\ PhaseAt(cl_rec)
      /\ cl_rec.msg \in Report /\ cl_rec.max \in -1 .. TableLen - 1
      /\ cl_rep.buf \in Report /\ TableShape(cl_table)
  BY DEF ClientKnown, Plane, Reads, RepTyped
<1>2. SameWqes(cl_table, cl_table)
  BY DEF SameWqes
<1>3. CASE ClientRec!TakeReport
  <2>1. /\ cl_rec.at = "out" /\ ~ cl_rec.flag /\ cl_rep.rcq > 0
        /\ cl_rep' = [cl_rep EXCEPT !.rcq = cl_rep.rcq - 1]
        /\ cl_rec' = [cl_rec EXCEPT !.at = "clear", !.flag = TRUE, !.msg = cl_rep.buf]
        /\ cl_slot' = cl_slot /\ cl_table' = cl_table
    BY <1>3 DEF ClientRec!TakeReport, ClientRec!Polls, ClientRec!vars
  <2>2. /\ SameNumbers(cl_rec, cl_rec') /\ cl_rec'.at = "clear" /\ cl_rec'.flag = TRUE
        /\ cl_rec'.over = cl_rec.over /\ cl_rec'.msg = cl_rep.buf /\ cl_rec'.max = cl_rec.max
    BY <1>1, <2>1 DEF RecShape, SameNumbers
  <2>3. /\ cl_rep'.sq = cl_rep.sq /\ cl_rep'.rq = cl_rep.rq /\ cl_rep'.scq = cl_rep.scq
        /\ cl_rep'.rcq = cl_rep.rcq - 1 /\ cl_rep'.buf = cl_rep.buf
    BY <1>1, <2>1 DEF RepShape
  <2>4. ReadsMove(cl_rec, cl_rep, cl_rec', cl_rep')
    BY <1>1, <2>1, <2>2, <2>3 DEF ReadsMove
  <2>5. Phase(cl_rec) = "none" /\ Phase(cl_rec') = "clear"
    BY <1>3, <2>1, <2>2 DEF Phase
  <2>6. SideMove(cl_rec, cl_slot, cl_table, cl_rec', cl_slot, cl_table', SendRecMax)
    BY <1>2, <2>1, <2>2, <2>5, RestMove DEF Resends
  <2> QED
    BY <2>1, <2>4, <2>6 DEF ClientMoved
<1>4. CASE ClientRec!Clear
  <2>1. /\ cl_rec.at = "clear" /\ cl_slot' = cl_slot /\ cl_table' = cl_table
    BY <1>4 DEF ClientRec!Clear
  <2>2. Phase(cl_rec) = "clear"
    BY <1>1, <2>1 DEF PhaseAt, Phase
  <2>3. CASE cl_rec' = cl_rec /\ cl_rep' = cl_rep
    <3>1. ReadsMove(cl_rec, cl_rep, cl_rec', cl_rep')
      BY <1>1, <2>3 DEF ReadsMove
    <3>2. SideMove(cl_rec, cl_slot, cl_table, cl_rec', cl_slot, cl_table', SendRecMax)
      BY <1>2, <2>1, <2>3, RestMove DEF Resends, SameNumbers
    <3> QED
      BY <2>1, <3>1, <3>2 DEF ClientMoved
  <2>4. CASE ~ (cl_rec' = cl_rec /\ cl_rep' = cl_rep)
    <3>1. PICK msg : msg = [loss |-> cl_stat'[ClientRec!Err].wqe_idx,
                            max |-> cl_table.next - 1,
                            completed |-> cl_stat'[ClientRec!Err].comp_temp]
      OBVIOUS
    <3>2. msg \in Report
      <4>1. ClientRec!Err \in Client!Paths
        BY TransferAssumption DEF ClientRec!Err, Client!Paths
      <4>2. PICK s : s = cl_stat'[ClientRec!Err] /\ s \in Client!QpStatus
        BY <4>1
      <4>3. s.wqe_idx \in 0 .. TableLen - 1 /\ s.comp_temp \in Nat
        BY <4>2 DEF Client!QpStatus, Client!Slots
      <4>4. cl_table.next - 1 \in -1 .. TableLen - 1
        BY <1>1, TransferAssumption DEF TableShape
      <4> QED
        BY <3>1, <4>2, <4>3, <4>4 DEF Report
    <3>4. PICK item \in Items : cl_rep' = [cl_rep EXCEPT !.sq = Append(@, item)]
      <4>1. PICK kind \in {"report", "ack"} :
              cl_rep' = [cl_rep EXCEPT !.sq = Append(@, ClientRec!Item(kind, 0, msg))]
        BY <1>4, <2>4, <3>1 DEF ClientRec!Clear
      <4>2. ClientRec!Item(kind, 0, msg) \in Items
        BY <3>2 DEF ClientRec!Item, Items
      <4> QED
        BY <4>1, <4>2
    <3>5. PICK msg2 \in Report : cl_rec' = [cl_rec EXCEPT !.at = "told", !.msg = msg2]
      <4>2. \/ cl_rec' = [cl_rec EXCEPT !.at = "told", !.msg = msg]
            \/ cl_rec' = [cl_rec EXCEPT !.at = "told", !.msg = cl_rec.msg]
        BY <1>4, <2>4, <3>1 DEF ClientRec!Clear
      <4> QED
        BY <1>1, <3>2, <4>2
    <3>6. /\ SameNumbers(cl_rec, cl_rec') /\ cl_rec'.at = "told" /\ cl_rec'.flag = cl_rec.flag
          /\ cl_rec'.over = cl_rec.over /\ cl_rec'.msg = msg2 /\ cl_rec'.max = cl_rec.max
      BY <1>1, <3>5 DEF RecShape, SameNumbers
    <3>7. /\ cl_rep'.sq = Append(cl_rep.sq, item) /\ cl_rep'.rq = cl_rep.rq
          /\ cl_rep'.scq = cl_rep.scq /\ cl_rep'.rcq = cl_rep.rcq /\ cl_rep'.buf = cl_rep.buf
      BY <1>1, <3>4 DEF RepShape
    <3>8. ReadsMove(cl_rec, cl_rep, cl_rec', cl_rep')
      BY <1>1, <3>4, <3>5, <3>6, <3>7 DEF ReadsMove
    <3>9. Phase(cl_rec') = "told"
      BY <2>2, <3>6 DEF Phase
    <3>10. SideMove(cl_rec, cl_slot, cl_table, cl_rec', cl_slot, cl_table', SendRecMax)
      BY <1>2, <2>1, <2>2, <3>6, <3>9, RestMove DEF Resends
    <3> QED
      BY <2>1, <3>8, <3>10 DEF ClientMoved
  <2> QED
    BY <2>3, <2>4
<1>5. CASE ClientRec!Told
  <2>11. PICK rq2 : /\ rq2 \in {cl_rep.rq, Append(cl_rep.rq, ClientRec!Item("ack", 0, ClientRec!NoReport))}
                    /\ cl_rep' = [cl_rep EXCEPT !.scq = @ - 1, !.rq = rq2]
    BY <1>5 DEF ClientRec!Told
  <2>12. cl_table.next - 1 \in -1 .. TableLen - 1 /\ cl_rec.msg.max \in -1 .. TableLen - 1
    BY <1>1, TransferAssumption DEF TableShape, Report
  <2>13. PICK m : /\ m \in {cl_table.next - 1, ClientRec!LastOf(cl_table.next - 1, cl_rec.msg.max)}
                  /\ cl_rec' = [cl_rec EXCEPT !.at = "polls", !.post = cl_rec.msg.loss,
                                              !.poll = cl_rec.msg.loss, !.max = m]
    BY <1>5 DEF ClientRec!Told
  <2>1. m \in -1 .. TableLen - 1
    BY <2>12, <2>13 DEF ClientRec!LastOf
  <2>2. cl_rec.at = "told" /\ cl_rep.scq > 0 /\ cl_slot' = cl_slot /\ cl_table' = cl_table
    BY <1>5 DEF ClientRec!Told, ClientRec!vars
  <2>3. /\ cl_rec'.at = "polls" /\ cl_rec'.flag = cl_rec.flag
        /\ cl_rec'.over = cl_rec.over /\ cl_rec'.msg = cl_rec.msg /\ cl_rec'.max = m
        /\ cl_rec'.post = cl_rec.msg.loss /\ cl_rec'.poll = cl_rec.msg.loss
        /\ cl_rec'.i = cl_rec.i /\ cl_rec'.iter = cl_rec.iter /\ cl_rec'.turn = cl_rec.turn
        /\ cl_rec'.out = cl_rec.out /\ cl_rec'.pkt = cl_rec.pkt
    BY <1>1, <2>13 DEF RecShape
  <2>4. /\ cl_rep'.sq = cl_rep.sq /\ cl_rep'.rq = rq2
        /\ cl_rep'.scq = cl_rep.scq - 1 /\ cl_rep'.rcq = cl_rep.rcq /\ cl_rep'.buf = cl_rep.buf
    BY <1>1, <2>11 DEF RepShape
  <2>5. ClientRec!Item("ack", 0, ClientRec!NoReport) \in Items
    BY TransferAssumption DEF ClientRec!Item, ClientRec!NoReport, Items, Report
  <2>6. rq2 = cl_rep.rq \/ \E item \in Items : rq2 = Append(cl_rep.rq, item)
    BY <2>5, <2>11
  <2>7. ReadsMove(cl_rec, cl_rep, cl_rec', cl_rep')
    BY <1>1, <2>1, <2>2, <2>3, <2>4, <2>6 DEF ReadsMove
  <2>8. Phase(cl_rec) = "told" /\ Phase(cl_rec') = "on"
    BY <1>1, <2>2, <2>3 DEF PhaseAt, Phase
  <2>9. Begins(cl_rec, cl_slot, cl_table, cl_rec', cl_slot', cl_table')
    BY <1>2, <2>2, <2>3, <2>8 DEF Begins
  <2> QED
    BY <2>7, <2>9 DEF ClientMoved, SideMove
<1> QED
  BY <1>3, <1>4, <1>5

(* The client's loops are those of a side. *)
LEMMA ClientLoops ==
  /\ cl_active = NumPath => \A x : ClientRec!NextResend(x) = Next1(x, SendRecMax)
  /\ \A x : ClientRec!CountPacket(x) = Count1(x, cl_slot[x.poll].need)
<1>1. ASSUME cl_active = NumPath, NEW x
      PROVE  ClientRec!NextResend(x) = Next1(x, SendRecMax)
  BY <1>1 DEF ClientRec!NextResend, Next1
<1>2. ASSUME NEW x
      PROVE  ClientRec!CountPacket(x) = Count1(x, cl_slot[x.poll].need)
  <2>1. PICK need : need = cl_slot[x.poll].need
    OBVIOUS
  <2> QED
    BY <2>1 DEF ClientRec!CountPacket, Count1
<1> QED
  BY <1>1, <1>2

(* What mprud_recovery_poll does to the report QP and to the table.         *)
LEMMA ClientPollsReport ==
  ASSUME ClientKnown, NEW r, ClientRec!RecoveryPoll(r)
  PROVE  /\ cl_rec' = r
         /\ cl_rep'.sq = cl_rep.sq /\ cl_rep'.rq = cl_rep.rq /\ cl_rep'.buf = cl_rep.buf
         /\ cl_rep'.scq = cl_rep.scq \/ (cl_rep.scq > 0 /\ cl_rep'.scq = cl_rep.scq - 1)
         /\ cl_rep'.rcq = cl_rep.rcq \/ (cl_rep.rcq > 0 /\ cl_rep'.rcq = cl_rep.rcq - 1)
         /\ IF ClientRec!RecoveryTakes THEN WqesBut(cl_table, cl_table', cl_rec.poll) /\ cl_rec.out > 0
            ELSE SameWqes(cl_table, cl_table')
<1>1. RepShape(cl_rep) /\ cl_table \in Tables
  BY DEF ClientKnown, Plane
<1>2. cl_rec' = r
  BY DEF ClientRec!RecoveryPoll
<1>3. SameWqes(cl_table, cl_table) /\ WqesBut(cl_table, cl_table, cl_rec.poll)
  BY DEF SameWqes, WqesBut
<1>4. CASE ~ ClientRec!RecoveryTakes
  <2>1. cl_rep' = cl_rep /\ cl_table' = cl_table
    BY <1>4 DEF ClientRec!RecoveryPoll
  <2> QED
    BY <1>2, <1>3, <1>4, <2>1
<1>5. CASE ClientRec!RecoveryTakes
  <2>1. cl_rec.out > 0
    BY <1>5 DEF ClientRec!RecoveryTakes
  <2>2. \/ cl_rep.rcq > 0 /\ cl_rep' = [cl_rep EXCEPT !.rcq = cl_rep.rcq - 1]
        \/ cl_rep.scq > 0 /\ cl_rep' = [cl_rep EXCEPT !.scq = cl_rep.scq - 1]
    BY <1>5 DEF ClientRec!RecoveryPoll, ClientRec!RecoveryTakes, ClientRec!Completed
  <2>3. /\ cl_rep'.sq = cl_rep.sq /\ cl_rep'.rq = cl_rep.rq /\ cl_rep'.buf = cl_rep.buf
        /\ cl_rep'.scq = cl_rep.scq \/ (cl_rep.scq > 0 /\ cl_rep'.scq = cl_rep.scq - 1)
        /\ cl_rep'.rcq = cl_rep.rcq \/ (cl_rep.rcq > 0 /\ cl_rep'.rcq = cl_rep.rcq - 1)
    BY <1>1, <2>2 DEF RepShape
  <2>4. \/ cl_table' = cl_table
        \/ cl_table' = [cl_table EXCEPT !.wqe[cl_rec.poll].iter_each[ClientRec!Err] = 0]
    BY <1>5 DEF ClientRec!RecoveryPoll
  <2>5. WqesBut(cl_table, cl_table', cl_rec.poll)
    <3>1. CASE cl_table' = cl_table
      BY <1>3, <3>1
    <3>2. CASE cl_table' = [cl_table EXCEPT !.wqe[cl_rec.poll].iter_each[ClientRec!Err] = 0]
      <4>1. PICK t, t2, k, p : t = cl_table /\ t2 = cl_table' /\ k = cl_rec.poll /\ p = ClientRec!Err
        OBVIOUS
      <4>2. t \in Tables /\ t2 = [t EXCEPT !.wqe[k].iter_each[p] = 0]
        BY <1>1, <3>2, <4>1
      <4>3. WqesBut(t, t2, k)
        BY ONLY <4>2, TableClears
      <4> QED
        BY <4>1, <4>3
    <3> QED
      BY <2>4, <3>1, <3>2
  <2> QED
    BY <1>2, <1>5, <2>1, <2>3, <2>5
<1> QED
  BY <1>4, <1>5

(* A WQE, a packet of it, or none, is resent. *)
LEMMA ClientResendMoves ==
  ASSUME ClientKnown,
         \/ ClientRec!AllResent \/ ClientRec!StartResend
         \/ ClientRec!ResendPacket \/ ClientRec!ResendDrain
  PROVE  ClientMoved
<1> DEFINE r == cl_rec
           r2 == cl_rec'
<1>1. /\ RecShape(r) /\ RepShape(cl_rep) /\ PhaseAt(r)
      /\ r.msg \in Report /\ r.max \in -1 .. TableLen - 1
      /\ cl_active = IF r.over THEN NumPath - 1 ELSE NumPath
      /\ Side(r, cl_slot, cl_table, SendRecMax)
  BY DEF ClientKnown, Plane, Reads
<1>2. SameWqes(cl_table, cl_table)
  BY DEF SameWqes
<1>3. PICK a, s : /\ a = ClientRec!Acked /\ s = ClientRec!Read
                  /\ AckMove(r, cl_rep, a, s)
  BY ClientAcks
<1>4. ASSUME ClientRec!InPass
      PROVE  Phase(r) = "on" /\ r.at \in {"pass", "out"} /\ ~ Resends(r.at) /\ cl_active = NumPath
             /\ r.flag = TRUE /\ r.over = FALSE
  <2>1. r.flag /\ r.at \in {"pass", "out"}
    BY <1>4 DEF ClientRec!InPass, ClientRec!Polls
  <2> QED
    BY <1>1, <2>1 DEF PhaseAt, Phase, Resends
<1>5. ASSUME r2.msg = r.msg, r2.max \in -1 .. TableLen - 1, cl_rep' = s
      PROVE  ReadsMove(r, cl_rep, r2, cl_rep')
  BY <1>1, <1>3, <1>5 DEF AckMove, ReadsMove
<1>6. CASE ClientRec!AllResent
  <2>1. /\ ClientRec!InPass /\ cl_slot' = cl_slot /\ cl_table' = cl_table
        /\ r2 = [a EXCEPT !.at = "polls"] /\ cl_rep' = s
    BY <1>3, <1>6 DEF ClientRec!AllResent, ClientRec!vars
  <2>2. /\ SameNumbers(r, r2) /\ r2.at = "polls" /\ r2.flag = r.flag /\ r2.over = r.over
        /\ r2.msg = r.msg /\ r2.max = a.max
    BY <1>3, <2>1 DEF AckMove, RecShape, SameNumbers
  <2>3. Phase(r2) = "on"
    BY <1>4, <2>1, <2>2 DEF Phase
  <2>4. SideMove(r, cl_slot, cl_table, r2, cl_slot, cl_table', SendRecMax)
    BY <1>2, <1>4, <2>1, <2>2, <2>3, RestMove DEF Resends
  <2>5. ReadsMove(r, cl_rep, r2, cl_rep')
    BY <1>3, <1>5, <2>1, <2>2 DEF AckMove
  <2> QED
    BY <2>1, <2>4, <2>5 DEF ClientMoved
<1>7. CASE ClientRec!StartResend
  <2>1. PICK k : k = r.post
    OBVIOUS
  <2>2. a.post = k /\ a.max \in -1 .. TableLen - 1
    BY <1>3, <2>1 DEF AckMove, SameNumbers
  <2>3. /\ ClientRec!InPass /\ cl_table' = cl_table /\ k <= a.max /\ cl_rep' = s
    BY <1>3, <1>7, <2>2 DEF ClientRec!StartResend, ClientRec!vars
  <2>4. Phase(r) = "on" /\ ~ Resends(r.at) /\ cl_active = NumPath /\ r.flag = TRUE /\ r.over = FALSE
    BY <1>4, <2>3
  <2>5. k \in Nat /\ k < TableLen
    <3>1. k \in Nat
      BY <1>1, <2>1 DEF Side, Numbers
    <3> QED
      BY <2>2, <2>3, <3>1, TransferAssumption
  <2>6. CASE cl_slot[k].len = 0
    <3>1. r2 = [a EXCEPT !.at = "crash"] /\ cl_slot' = cl_slot
      BY <1>3, <1>7, <2>2, <2>6 DEF ClientRec!StartResend
    <3>2. /\ SameNumbers(r, r2) /\ r2.at = "crash" /\ r2.flag = r.flag /\ r2.over = r.over
          /\ r2.msg = r.msg /\ r2.max = a.max
      BY <1>3, <3>1 DEF AckMove, RecShape, SameNumbers
    <3>3. Phase(r2) = "on"
      BY <2>4, <3>2 DEF Phase
    <3>4. SideMove(r, cl_slot, cl_table, r2, cl_slot, cl_table', SendRecMax)
      BY <1>2, <2>3, <2>4, <3>2, <3>3, RestMove DEF Resends
    <3>5. ReadsMove(r, cl_rep, r2, cl_rep')
      BY <1>5, <2>2, <2>3, <3>2
    <3> QED
      BY <3>1, <3>4, <3>5 DEF ClientMoved
  <2>7. CASE cl_slot[k].len # 0
    <3>1. PICK len, n : len = Owing(r, cl_slot, cl_table) /\ n = Iter(len, NumPath - 1)
      OBVIOUS
    <3>2. len = ClientRec!Portion(k)
      BY <2>1, <2>4, <3>1 DEF Owing, ClientRec!Portion, ClientRec!Err, EachOf, LastPath
    <3>3. n = ClientRec!Iter(len, cl_active - 1)
      BY <2>4, <3>1 DEF Iter, IterEach, ChunkSize, ClientRec!Iter, ClientRec!IterEach,
                        ClientRec!ChunkSize
    <3>4. /\ cl_slot' = [cl_slot EXCEPT ![k] = [len |-> len, need |-> n]]
          /\ r2 = [a EXCEPT !.i = 0, !.iter = n, !.turn = @ % (cl_active - 1),
                            !.at = IF n = 0 THEN "polls" ELSE "resend",
                            !.post = IF n = 0 THEN @ + 1 ELSE @]
      BY <1>3, <1>7, <2>2, <2>7, <3>2, <3>3 DEF ClientRec!StartResend
    <3>5. PICK at, post, turn : /\ r2 = [a EXCEPT !.i = 0, !.iter = n, !.turn = turn,
                                                  !.at = at, !.post = post]
                                /\ turn = r.turn % (NumPath - 1)
                                /\ n # 0 => at = "resend" /\ post = k
      <4>1. a.turn = r.turn
        BY <1>3 DEF AckMove, SameNumbers
      <4>2. CASE n = 0
        <5>1. r2 = [a EXCEPT !.i = 0, !.iter = n, !.turn = r.turn % (NumPath - 1),
                             !.at = "polls", !.post = a.post + 1]
          BY <2>4, <3>4, <4>1, <4>2
        <5> QED
          BY <4>2, <5>1, Zenon
      <4>3. CASE n # 0
        <5>1. r2 = [a EXCEPT !.i = 0, !.iter = n, !.turn = r.turn % (NumPath - 1),
                             !.at = "resend", !.post = k]
          BY <2>2, <2>4, <3>4, <4>1, <4>3
        <5> QED
          BY <4>3, <5>1, Zenon
      <4> QED
        BY <4>2, <4>3, Zenon
    <3>6. /\ r2.i = 0 /\ r2.iter = n /\ r2.turn = turn /\ r2.at = at /\ r2.post = post
          /\ r2.out = r.out /\ r2.pkt = r.pkt /\ r2.poll = r.poll /\ r2.msg = r.msg
          /\ r2.max = a.max /\ r2.flag = r.flag /\ r2.over = r.over
      BY <1>3, <3>5 DEF AckMove, RecShape, SameNumbers
    <3>7. n # 0 => Phase(r2) = "on"
      BY <2>4, <3>5, <3>6 DEF Phase
    <3>8. Starts(r, cl_slot, cl_table, r2, cl_slot', cl_table')
      BY <1>2, <2>1, <2>3, <2>4, <2>5, <2>7, <3>1, <3>4, <3>5, <3>6, <3>7 DEF Starts
    <3>9. ReadsMove(r, cl_rep, r2, cl_rep')
      BY <1>5, <2>2, <2>3, <3>6
    <3> QED
      BY <3>8, <3>9 DEF ClientMoved, SideMove
  <2> QED
    BY <2>6, <2>7
<1>8. ASSUME r.at \in {"resend", "rdrain"}
      PROVE  Phase(r) = "on" /\ cl_active = NumPath
  BY <1>1, <1>8 DEF PhaseAt, Phase
<1>9. CASE ClientRec!ResendPacket
  <2>1. /\ r.at = "resend" /\ cl_slot' = cl_slot /\ cl_table' = cl_table
        /\ r2 = ClientRec!NextResend([r EXCEPT !.at = "rdrain", !.out = @ + 1])
    BY <1>9 DEF ClientRec!ResendPacket, ClientRec!vars
  <2>2. PICK packet : packet = ClientRec!Item("data", r.turn, [k |-> r.post, i |-> r.i])
    OBVIOUS
  <2>3. packet \in Items
    <3>1. r.turn \in Survivors /\ r.i \in Nat /\ r.post \in 0 .. TableLen
      BY <1>1 DEF Side, Numbers
    <3>2. r.post < TableLen
      BY <1>1, <1>8, <2>1 DEF Side, Working, Books, Resends
    <3>3. r.post \in 0 .. TableLen - 1
      BY <3>1, <3>2, TransferAssumption
    <3> QED
      BY <2>2, <3>1, <3>3 DEF ClientRec!Item, Items
  <2>4. \/ cl_rep' = [cl_rep EXCEPT !.rq = Append(@, packet)]
        \/ cl_rep' = [cl_rep EXCEPT !.sq = Append(@, packet)]
    BY <1>9, <2>2 DEF ClientRec!ResendPacket
  <2>5. /\ cl_rep'.scq = cl_rep.scq /\ cl_rep'.rcq = cl_rep.rcq /\ cl_rep'.buf = cl_rep.buf
        /\ \/ cl_rep'.sq = cl_rep.sq /\ cl_rep'.rq = Append(cl_rep.rq, packet)
           \/ cl_rep'.rq = cl_rep.rq /\ cl_rep'.sq = Append(cl_rep.sq, packet)
    BY <1>1, <2>4 DEF RepShape
  <2>6. PICK x : x = [r EXCEPT !.at = "rdrain", !.out = @ + 1]
    OBVIOUS
  <2>7. RecShape(x) /\ x.msg = r.msg /\ x.max = r.max
    BY <1>1, <2>6 DEF RecShape
  <2>8. r2 = Next1(x, SendRecMax)
    BY <1>8, <2>1, <2>6, ClientLoops
  <2>9. r2.msg = r.msg /\ r2.max = r.max
    BY <2>7, <2>8, Next1Told
  <2>10. ReadsMove(r, cl_rep, r2, cl_rep')
    BY <1>1, <2>3, <2>5, <2>9 DEF ReadsMove
  <2>11. Gives(r, cl_slot, cl_table, r2, cl_slot', cl_table', SendRecMax)
    BY <1>2, <2>1, <2>6, <2>8 DEF Gives
  <2> QED
    BY <2>10, <2>11 DEF ClientMoved, SideMove
<1>10. CASE ClientRec!ResendDrain
  <2>1. /\ r.at = "rdrain" /\ cl_slot' = cl_slot
        /\ ClientRec!RecoveryPoll(ClientRec!NextResend(ClientRec!Counted(r)))
    BY <1>10 DEF ClientRec!ResendDrain
  <2>2. PICK x : x = ClientRec!Counted(r)
    OBVIOUS
  <2>3. ClientRec!NextResend(x) = Next1(x, SendRecMax)
    BY <1>8, <2>1, ClientLoops
  <2>4. ClientRec!RecoveryPoll(Next1(x, SendRecMax))
    BY <2>1, <2>2, <2>3
  <2>5. /\ r2 = Next1(x, SendRecMax)
        /\ cl_rep'.sq = cl_rep.sq /\ cl_rep'.rq = cl_rep.rq /\ cl_rep'.buf = cl_rep.buf
        /\ cl_rep'.scq = cl_rep.scq \/ (cl_rep.scq > 0 /\ cl_rep'.scq = cl_rep.scq - 1)
        /\ cl_rep'.rcq = cl_rep.rcq \/ (cl_rep.rcq > 0 /\ cl_rep'.rcq = cl_rep.rcq - 1)
        /\ IF ClientRec!RecoveryTakes THEN WqesBut(cl_table, cl_table', r.poll) /\ r.out > 0
           ELSE SameWqes(cl_table, cl_table')
    BY <2>4, ClientPollsReport
  <2>6. x = IF ClientRec!RecoveryTakes THEN Count1(r, cl_slot[r.poll].need) ELSE r
    BY <2>2, ClientLoops DEF ClientRec!Counted
  <2>7. RecShape(x) /\ x.msg = r.msg /\ x.max = r.max
    BY <1>1, <2>6, Count1Told
  <2>8. r2.msg = r.msg /\ r2.max = r.max
    BY <2>5, <2>7, Next1Told
  <2>9. ReadsMove(r, cl_rep, r2, cl_rep')
    BY <1>1, <2>5, <2>8 DEF ReadsMove
  <2>10. Drains(r, cl_slot, cl_table, r2, cl_slot', cl_table', SendRecMax)
    BY <2>1, <2>5, <2>6 DEF Drains
  <2> QED
    BY <2>9, <2>10 DEF ClientMoved, SideMove
<1> QED
  BY <1>6, <1>7, <1>9, <1>10

(* A pass polls, and the recovery ends. *)
LEMMA ClientEndMoves ==
  ASSUME ClientKnown,
         ClientRec!Finish \/ ClientRec!Sync \/ ClientRec!PassReports \/ ClientRec!PassPolls
  PROVE  ClientMoved
<1> DEFINE r == cl_rec
           r2 == cl_rec'
<1>1. /\ RecShape(r) /\ RepShape(cl_rep) /\ PhaseAt(r)
      /\ r.msg \in Report /\ r.max \in -1 .. TableLen - 1 /\ cl_table \in Tables
  BY DEF ClientKnown, Plane, Reads
<1>2. SameWqes(cl_table, cl_table)
  BY DEF SameWqes
<1>3. PICK a, s : /\ a = ClientRec!Acked /\ s = ClientRec!Read
                  /\ AckMove(r, cl_rep, a, s)
  BY ClientAcks
<1>4. CASE ClientRec!Finish
  <2>1. /\ ClientRec!InPass /\ cl_slot' = cl_slot /\ cl_table' = cl_table
        /\ r2 = [a EXCEPT !.at = "sync", !.flag = FALSE, !.listening = FALSE, !.over = TRUE]
    BY <1>3, <1>4 DEF ClientRec!Finish
  <2>2. /\ SameNumbers(r, r2) /\ r2.at = "sync" /\ r2.over = TRUE
        /\ r2.msg = r.msg /\ r2.max = a.max
    BY <1>3, <2>1 DEF AckMove, RecShape, SameNumbers
  <2>3. r.flag /\ r.at \in {"pass", "out"}
    BY <2>1 DEF ClientRec!InPass, ClientRec!Polls
  <2>4. Phase(r) = "on" /\ Phase(r2) = "over"
    BY <1>1, <2>2, <2>3 DEF PhaseAt, Phase
  <2>5. SideMove(r, cl_slot, cl_table, r2, cl_slot, cl_table', SendRecMax)
    BY <1>2, <2>1, <2>2, <2>3, <2>4, RestMove DEF Resends
  <2>6. PICK item : item = ClientRec!Item("done", 0, ClientRec!NoReport)
    OBVIOUS
  <2>7. item \in Items
    BY <2>6, TransferAssumption DEF ClientRec!Item, ClientRec!NoReport, Items, Report
  <2>8. \/ cl_rep' = [s EXCEPT !.rq = Append(@, item)]
        \/ cl_rep' = [s EXCEPT !.sq = Append(@, item)]
    BY <1>3, <1>4, <2>6 DEF ClientRec!Finish
  <2>9. /\ cl_rep'.scq = s.scq /\ cl_rep'.rcq = s.rcq /\ cl_rep'.buf = s.buf
        /\ \/ cl_rep'.sq = s.sq /\ cl_rep'.rq = Append(s.rq, item)
           \/ cl_rep'.rq = s.rq /\ cl_rep'.sq = Append(s.sq, item)
    BY <1>3, <2>8 DEF AckMove, RepShape
  <2>10. ReadsMove(r, cl_rep, r2, cl_rep')
    BY <1>1, <1>3, <2>2, <2>7, <2>9 DEF AckMove, ReadsMove
  <2> QED
    BY <2>1, <2>5, <2>10 DEF ClientMoved
<1>5. CASE ClientRec!Sync
  <2>1. /\ r.at = "sync" /\ cl_slot' = cl_slot /\ cl_table' = cl_table
        /\ r2 = [r EXCEPT !.at = "polls"]
        /\ \/ cl_rep.scq > 0 /\ cl_rep' = [cl_rep EXCEPT !.scq = cl_rep.scq - 1]
           \/ cl_rep.rcq > 0 /\ cl_rep' = [cl_rep EXCEPT !.rcq = cl_rep.rcq - 1]
    BY <1>5 DEF ClientRec!Sync, ClientRec!vars
  <2>2. /\ SameNumbers(r, r2) /\ r2.at = "polls" /\ r2.over = r.over /\ r2.flag = r.flag
        /\ r2.msg = r.msg /\ r2.max = r.max
    BY <1>1, <2>1 DEF RecShape, SameNumbers
  <2>3. Phase(r) = "over" /\ Phase(r2) = "over"
    BY <1>1, <2>1, <2>2 DEF PhaseAt, Phase
  <2>4. SideMove(r, cl_slot, cl_table, r2, cl_slot, cl_table', SendRecMax)
    BY <1>2, <2>1, <2>2, <2>3, RestMove DEF Resends
  <2>5. /\ cl_rep'.sq = cl_rep.sq /\ cl_rep'.rq = cl_rep.rq /\ cl_rep'.buf = cl_rep.buf
        /\ cl_rep'.scq = cl_rep.scq \/ (cl_rep.scq > 0 /\ cl_rep'.scq = cl_rep.scq - 1)
        /\ cl_rep'.rcq = cl_rep.rcq \/ (cl_rep.rcq > 0 /\ cl_rep'.rcq = cl_rep.rcq - 1)
    BY <1>1, <2>1 DEF RepShape
  <2>6. ReadsMove(r, cl_rep, r2, cl_rep')
    BY <1>1, <2>2, <2>5 DEF ReadsMove
  <2> QED
    BY <2>1, <2>4, <2>6 DEF ClientMoved
<1>6. ASSUME r.at = "polls", NEW at \in {"pass", "out"}, r2 = [r EXCEPT !.at = at]
      PROVE  /\ SameNumbers(r, r2) /\ r2.msg = r.msg /\ r2.max = r.max
             /\ r2.at # "spin" /\ ~ Resends(r.at) /\ ~ Resends(r2.at) /\ Phase(r2) = Phase(r)
  <2>1. /\ SameNumbers(r, r2) /\ r2.at = at /\ r2.over = r.over /\ r2.flag = r.flag
        /\ r2.msg = r.msg /\ r2.max = r.max
    BY <1>1, <1>6 DEF RecShape, SameNumbers
  <2>2. Phase(r2) = Phase(r)
    BY <1>1, <1>6, <2>1 DEF Phase
  <2> QED
    BY <1>6, <2>1, <2>2 DEF Resends
<1>7. CASE ClientRec!PassReports
  <2>1. /\ r.at = "polls" /\ cl_slot' = cl_slot /\ cl_rep' = cl_rep /\ r2 = [r EXCEPT !.at = "out"]
    BY <1>7 DEF ClientRec!PassReports
  <2>2. PICK h : cl_table' = [cl_table EXCEPT !.wqe[cl_table.head].valid = 0, !.head = h]
    BY <1>7, Zenon DEF ClientRec!PassReports, ClientRec!PollComplete
  <2>3. SameWqes(cl_table, cl_table')
    <3>1. PICK t, t2, k : t = cl_table /\ t2 = cl_table' /\ k = cl_table.head
      OBVIOUS
    <3>2. t \in Tables /\ t2 = [t EXCEPT !.wqe[k].valid = 0, !.head = h]
      BY <1>1, <2>2, <3>1
    <3>3. SameWqes(t, t2)
      BY ONLY <3>2, TableReports, Zenon
    <3> QED
      BY <3>1, <3>3
  <2>4. /\ SameNumbers(r, r2) /\ r2.msg = r.msg /\ r2.max = r.max
        /\ r2.at # "spin" /\ ~ Resends(r.at) /\ ~ Resends(r2.at) /\ Phase(r2) = Phase(r)
    BY <1>6, <2>1
  <2>5. SideMove(r, cl_slot, cl_table, r2, cl_slot, cl_table', SendRecMax)
    BY <2>3, <2>4, RestMove
  <2>6. ReadsMove(r, cl_rep, r2, cl_rep')
    BY <1>1, <2>1, <2>4 DEF ReadsMove
  <2> QED
    BY <2>1, <2>5, <2>6 DEF ClientMoved
<1>8. CASE ClientRec!PassPolls
  <2>1. /\ r.at = "polls" /\ cl_slot' = cl_slot
        /\ \/ r.flag /\ ClientRec!RecoveryPoll(ClientRec!Counted([r EXCEPT !.at = "pass"]))
           \/ r2 = [r EXCEPT !.at = "out"] /\ cl_rep' = cl_rep /\ cl_table' = cl_table
    BY <1>8 DEF ClientRec!PassPolls
  <2>2. CASE r2 = [r EXCEPT !.at = "out"] /\ cl_rep' = cl_rep /\ cl_table' = cl_table
    <3>1. /\ SameNumbers(r, r2) /\ r2.msg = r.msg /\ r2.max = r.max
          /\ r2.at # "spin" /\ ~ Resends(r.at) /\ ~ Resends(r2.at) /\ Phase(r2) = Phase(r)
      BY <1>6, <2>1, <2>2
    <3>2. SideMove(r, cl_slot, cl_table, r2, cl_slot, cl_table', SendRecMax)
      BY <1>2, <2>2, <3>1, RestMove
    <3>3. ReadsMove(r, cl_rep, r2, cl_rep')
      BY <1>1, <2>2, <3>1 DEF ReadsMove
    <3> QED
      BY <2>1, <3>2, <3>3 DEF ClientMoved
  <2>3. CASE r.flag /\ ClientRec!RecoveryPoll(ClientRec!Counted([r EXCEPT !.at = "pass"]))
    <3>1. PICK x, y : x = [r EXCEPT !.at = "pass"] /\ y = ClientRec!Counted(x)
      OBVIOUS
    <3>2. RecShape(x) /\ x.msg = r.msg /\ x.max = r.max /\ x.poll = r.poll
      BY <1>1, <3>1 DEF RecShape
    <3>3. ClientRec!RecoveryPoll(y)
      BY <2>3, <3>1
    <3>4. /\ r2 = y
          /\ cl_rep'.sq = cl_rep.sq /\ cl_rep'.rq = cl_rep.rq /\ cl_rep'.buf = cl_rep.buf
          /\ cl_rep'.scq = cl_rep.scq \/ (cl_rep.scq > 0 /\ cl_rep'.scq = cl_rep.scq - 1)
          /\ cl_rep'.rcq = cl_rep.rcq \/ (cl_rep.rcq > 0 /\ cl_rep'.rcq = cl_rep.rcq - 1)
          /\ IF ClientRec!RecoveryTakes THEN WqesBut(cl_table, cl_table', r.poll) /\ r.out > 0
             ELSE SameWqes(cl_table, cl_table')
      BY <3>3, ClientPollsReport
    <3>5. y = IF ClientRec!RecoveryTakes THEN Count1(x, cl_slot[x.poll].need) ELSE x
      <4>1. ClientRec!CountPacket(x) = Count1(x, cl_slot[x.poll].need)
        BY ClientLoops
      <4>2. y = IF ClientRec!RecoveryTakes THEN ClientRec!CountPacket(x) ELSE x
        BY <3>1 DEF ClientRec!Counted
      <4> QED
        BY <4>1, <4>2
    <3>6. r2.msg = r.msg /\ r2.max = r.max
      BY <3>2, <3>4, <3>5, Count1Told
    <3>7. ReadsMove(r, cl_rep, r2, cl_rep')
      BY <1>1, <3>4, <3>6 DEF ReadsMove
    <3>8. CASE ClientRec!RecoveryTakes
      <4>1. Phase(r) = "on"
        BY <1>1, <2>1, <2>3 DEF PhaseAt, Phase
      <4>2. Counts1(r, cl_slot, cl_table, r2, cl_slot', cl_table')
        BY <2>1, <3>1, <3>2, <3>4, <3>5, <3>8, <4>1 DEF Counts1
      <4> QED
        BY <3>7, <4>2 DEF ClientMoved, SideMove
    <3>9. CASE ~ ClientRec!RecoveryTakes
      <4>1. r2 = [r EXCEPT !.at = "pass"]
        BY <3>1, <3>4, <3>5, <3>9
      <4>2. /\ SameNumbers(r, r2) /\ r2.msg = r.msg /\ r2.max = r.max
            /\ r2.at # "spin" /\ ~ Resends(r.at) /\ ~ Resends(r2.at) /\ Phase(r2) = Phase(r)
        BY <1>6, <2>1, <4>1
      <4>3. SideMove(r, cl_slot, cl_table, r2, cl_slot, cl_table', SendRecMax)
        BY <3>4, <3>9, <4>2, RestMove
      <4> QED
        BY <2>1, <3>7, <4>3 DEF ClientMoved
    <3> QED
      BY <3>8, <3>9
  <2> QED
    BY <2>1, <2>2, <2>3
<1> QED
  BY <1>4, <1>5, <1>7, <1>8

(* The server's program keeps its types.                                    *)
LEMMA ServerProgramTyped ==
  ASSUME ServerTyped, sizes \in [1 .. MaxMsgs -> Sizes], PhaseAt(sv_rec),
         sv_active = IF sv_rec.over THEN NumPath - 1 ELSE NumPath,
         ServerNext
  PROVE  ServerTyped'
<1>0. sv_table.sqn \in Nat /\ MaxMsgs \in Nat /\ NumPath \in Nat /\ NumPath > 1
  BY TransferAssumption, FailoverAssumption DEF ServerTyped, Server!TypeOK
<1>1. CASE ServerPost
  <2>1. PICK size \in Sizes : Server!Post(size)
    BY <1>0, <1>1, SameEndpoints DEF ServerPost, ServerRec!PostMessage
  <2> QED
    BY <2>1, <1>1, ServerPostTyped DEF ServerPost
<1>2. CASE ServerPostPacket
  BY <1>2, ServerPacketTyped DEF ServerPostPacket, ServerPacket
<1>3. CASE ServerCutShort
  BY <1>3, ServerTurnTyped DEF ServerCutShort
<1>4. CASE ServerPoll
  BY <1>4, ServerPollsTyped, SameEndpoints DEF ServerPoll, ServerRec!PlainPoll
<1>5. ASSUME UNCHANGED svVars
      PROVE  ServerTyped'
  BY <1>5 DEF ServerTyped, Server!TypeOK, CqsFit, svVars
<1>6. CASE ServerRec!TakeReport \/ ServerRec!Told \/ ServerRec!AllResent
             \/ ServerRec!StartResend \/ ServerRec!ResendPacket \/ ServerRec!Sync
  <2>1. UNCHANGED svVars
    BY <1>6 DEF ServerRec!TakeReport, ServerRec!Told, ServerRec!AllResent,
       ServerRec!StartResend, ServerRec!ResendPacket, ServerRec!Sync, ServerRec!vars, svVars
  <2> QED
    BY <1>5, <2>1
<1>7. CASE ServerRec!Clear
  <2>1. Server!InnerPoll
    BY <1>7, Zenon DEF ServerRec!Clear, ServerRec!InnerPoll, Server!InnerPoll, ServerRec!Outstanding,
       Server!Outstanding, ServerRec!Polled, Server!Polled, ServerRec!Wrap, Server!Wrap
  <2>2. UNCHANGED <<sv_active, sv_table, sv_post_turn, sv_call, sv_done, sv_cum>>
    BY <1>7 DEF ServerRec!Clear
  <2> QED
    BY <2>1, <2>2, ServerPollTyped DEF ServerTyped, Server!TypeOK
<1>8. CASE ServerRec!Finish
  <2>1. ~ sv_rec.over
    BY <1>8 DEF PhaseAt, ServerRec!Finish, ServerRec!InPass
  <2>2. sv_active - 1 \in 1 .. NumPath
    BY <1>0, <2>1
  <2> QED
    BY <1>8, <2>2, ServerTurnTyped
<1>9. CASE ServerRec!PassReports
  BY <1>9, ServerReportTyped, SameEndpoints DEF ServerRec!PassReports
<1>10. ASSUME NEW r, ServerRec!RecoveryPoll(r)
       PROVE  /\ sv_table' \in [head : Server!Slots, next : Server!Slots, sqn : Nat, wqe : [Server!Slots -> Server!Wqe]]
              /\ sv_table'.sqn = sv_table.sqn
  <2>1. sv_table \in [head : Server!Slots, next : Server!Slots, sqn : Nat, wqe : [Server!Slots -> Server!Wqe]]
    BY DEF ServerTyped, Server!TypeOK
  <2>2. CASE sv_table' = sv_table
    BY <2>1, <2>2
  <2>3. CASE sv_table' # sv_table
    <3>1. \E k, q : sv_table' = [sv_table EXCEPT !.wqe[k].iter_each[q] = 0]
      BY <1>10, <2>3 DEF ServerRec!RecoveryPoll
    <3>2. PICK k, q : sv_table' = [sv_table EXCEPT !.wqe[k].iter_each[q] = 0]
      BY <3>1
    <3> DEFINE w == [sv_table.wqe EXCEPT ![k].iter_each[q] = 0]
    <3>3. w \in [Server!Slots -> Server!Wqe]
      <4>1. \A j \in Server!Slots : sv_table.wqe[j] \in [valid : {0, 1}, iter_each : [Server!Paths -> Nat]]
        BY <2>1 DEF Server!Wqe
      <4>2. \A j \in Server!Slots : [sv_table.wqe[j] EXCEPT !.iter_each[q] = 0] \in [valid : {0, 1}, iter_each : [Server!Paths -> Nat]]
        BY <4>1
      <4>3. sv_table.wqe = [j \in Server!Slots |-> sv_table.wqe[j]]
        BY <2>1
      <4>4. \A j \in Server!Slots : w[j] \in Server!Wqe
        BY <4>1, <4>2, <4>3 DEF Server!Wqe
      <4>5. w = [j \in Server!Slots |-> w[j]]
        BY <4>3
      <4> HIDE DEF w
      <4> QED
        BY <4>4, <4>5
    <3>4. sv_table' = [sv_table EXCEPT !.wqe = w]
      BY <2>1, <3>2
    <3> HIDE DEF w
    <3> QED
      BY <2>1, <3>3, <3>4
  <2> QED
    BY <2>2, <2>3
<1>11. CASE ServerRec!ResendDrain
  <2>1. /\ sv_table' \in [head : Server!Slots, next : Server!Slots, sqn : Nat, wqe : [Server!Slots -> Server!Wqe]]
        /\ sv_table'.sqn = sv_table.sqn
    BY <1>10, <1>11 DEF ServerRec!ResendDrain
  <2>2. UNCHANGED <<sv_active, sv_stat, sv_tot, sv_post_turn, sv_poll_turn, sv_call, sv_cq, sv_done, sv_cum>>
    BY <1>11 DEF ServerRec!ResendDrain
  <2> QED
    BY <2>1, <2>2 DEF ServerTyped, Server!TypeOK, CqsFit
<1>12. CASE ServerRec!PassPolls
  <2>1. Server!InnerPoll
    BY <1>12 DEF ServerRec!PassPolls, ServerRec!InnerPoll, Server!InnerPoll, ServerRec!Outstanding,
       Server!Outstanding, ServerRec!Polled, Server!Polled, ServerRec!Wrap, Server!Wrap
  <2>2. UNCHANGED <<sv_active, sv_done, sv_cum>>
    BY <1>12 DEF ServerRec!PassPolls
  <2>3. /\ sv_table' \in [head : Server!Slots, next : Server!Slots, sqn : Nat, wqe : [Server!Slots -> Server!Wqe]]
        /\ sv_table'.sqn = sv_table.sqn
    BY <1>10, <1>12 DEF ServerRec!PassPolls, ServerTyped, Server!TypeOK
  <2>4. UNCHANGED <<sv_call, sv_post_turn>> \/ (sv_call.pc # "idle" /\ Server!NextPacket)
    <3>1. ServerRec!NextPacket => Server!NextPacket
      BY DEF ServerRec!NextPacket, Server!NextPacket
    <3> QED
      BY <1>12, <3>1 DEF ServerRec!PassPolls
  <2> QED
    BY <2>1, <2>2, <2>3, <2>4, ServerPollTyped, Zenon
<1> QED
  BY <1>1, <1>2, <1>3, <1>4, <1>6, <1>7, <1>8, <1>9, <1>11, <1>12
     DEF ServerNext, ServerRecovers, ServerRec!RecoveryStep

(* Every step of the server's program is a move. *)
LEMMA ServerProgramMoves ==
  ASSUME ServerKnown, ServerTyped', ServerNext,
         ServerRec!TakeReport => Phase(sv_rec) = "none"
  PROVE  ServerMoved
<1>1. CASE ServerPost
  BY <1>1, ServerPostMoves
<1>2. CASE ServerPostPacket \/ ServerCutShort \/ ServerPoll
  BY <1>2, ServerPlainMoves
<1>3. CASE ServerRec!TakeReport \/ ServerRec!Clear \/ ServerRec!Told
  <2>1. sv_stat' \in [Server!Paths -> Server!QpStatus]
    BY DEF ServerTyped, Server!TypeOK
  <2> QED
    BY <1>3, <2>1, ServerBeginMoves
<1>4. CASE ServerRec!AllResent \/ ServerRec!StartResend \/ ServerRec!ResendPacket \/ ServerRec!ResendDrain
  BY <1>4, ServerResendMoves
<1>5. CASE ServerRec!Finish \/ ServerRec!Sync \/ ServerRec!PassReports \/ ServerRec!PassPolls
  BY <1>5, ServerEndMoves
<1> QED
  BY <1>1, <1>2, <1>3, <1>4, <1>5 DEF ServerNext, ServerRecovers, ServerRec!RecoveryStep

(* So what is known of the server is kept. *)
LEMMA ServerProgramKeeps ==
  ASSUME LongPieces, ServerKnown, Filling(sv_table), ServerMoved, RepShape(sv_rep'),
         Phase(sv_rec) = "told" => sv_rec.msg.loss \in 0 .. TableLen - 1,
         Phase(sv_rec) = "on" => Owed(sv_rec.msg)
  PROVE  /\ Side(sv_rec', sv_slot', sv_table', RecvRecMax)
         /\ Reads(sv_rec', sv_rep')
<1>1. RecvRecMax \in Nat \ {0}
  BY FailoverAssumption
<1>2. Side(sv_rec', sv_slot', sv_table', RecvRecMax)
  BY <1>1, SideKeeps DEF ServerKnown, ServerMoved, Plane
<1>3. Reads(sv_rec', sv_rep')
  BY ReadsKeeps DEF ServerKnown, ServerMoved
<1> QED
  BY <1>2, <1>3

(* The client's program keeps its types.                                    *)
LEMMA ClientProgramTyped ==
  ASSUME ClientTyped, sizes \in [1 .. MaxMsgs -> Sizes], PhaseAt(cl_rec),
         cl_active = IF cl_rec.over THEN NumPath - 1 ELSE NumPath,
         ClientNext
  PROVE  ClientTyped'
<1>0. cl_table.sqn \in Nat /\ MaxMsgs \in Nat /\ NumPath \in Nat /\ NumPath > 1
  BY TransferAssumption, FailoverAssumption DEF ClientTyped, Client!TypeOK
<1>1. CASE ClientPost
  <2>1. PICK size \in Sizes : Client!Post(size)
    BY <1>0, <1>1, SameEndpoints DEF ClientPost, ClientRec!PostMessage
  <2> QED
    BY <2>1, <1>1, ClientPostTyped DEF ClientPost
<1>2. CASE ClientPostPacket
  BY <1>2, ClientPacketTyped DEF ClientPostPacket, ClientPacket
<1>3. CASE ClientCutShort
  BY <1>3, ClientTurnTyped DEF ClientCutShort
<1>4. CASE ClientPoll
  BY <1>4, ClientPollsTyped, SameEndpoints DEF ClientPoll, ClientRec!PlainPoll
<1>5. ASSUME UNCHANGED clVars
      PROVE  ClientTyped'
  BY <1>5 DEF ClientTyped, Client!TypeOK, CqsFit, clVars
<1>6. CASE ClientRec!TakeReport \/ ClientRec!Told \/ ClientRec!AllResent
             \/ ClientRec!StartResend \/ ClientRec!ResendPacket \/ ClientRec!Sync
  <2>1. UNCHANGED clVars
    BY <1>6 DEF ClientRec!TakeReport, ClientRec!Told, ClientRec!AllResent,
       ClientRec!StartResend, ClientRec!ResendPacket, ClientRec!Sync, ClientRec!vars, clVars
  <2> QED
    BY <1>5, <2>1
<1>7. CASE ClientRec!Clear
  <2>1. Client!InnerPoll
    BY <1>7, Zenon DEF ClientRec!Clear, ClientRec!InnerPoll, Client!InnerPoll, ClientRec!Outstanding,
       Client!Outstanding, ClientRec!Polled, Client!Polled, ClientRec!Wrap, Client!Wrap
  <2>2. UNCHANGED <<cl_active, cl_table, cl_post_turn, cl_call, cl_done, cl_cum>>
    BY <1>7 DEF ClientRec!Clear
  <2> QED
    BY <2>1, <2>2, ClientPollTyped DEF ClientTyped, Client!TypeOK
<1>8. CASE ClientRec!Finish
  <2>1. ~ cl_rec.over
    BY <1>8 DEF PhaseAt, ClientRec!Finish, ClientRec!InPass
  <2>2. cl_active - 1 \in 1 .. NumPath
    BY <1>0, <2>1
  <2> QED
    BY <1>8, <2>2, ClientTurnTyped
<1>9. CASE ClientRec!PassReports
  BY <1>9, ClientReportTyped, SameEndpoints DEF ClientRec!PassReports
<1>10. ASSUME NEW r, ClientRec!RecoveryPoll(r)
       PROVE  /\ cl_table' \in [head : Client!Slots, next : Client!Slots, sqn : Nat, wqe : [Client!Slots -> Client!Wqe]]
              /\ cl_table'.sqn = cl_table.sqn
  <2>1. cl_table \in [head : Client!Slots, next : Client!Slots, sqn : Nat, wqe : [Client!Slots -> Client!Wqe]]
    BY DEF ClientTyped, Client!TypeOK
  <2>2. CASE cl_table' = cl_table
    BY <2>1, <2>2
  <2>3. CASE cl_table' # cl_table
    <3>1. \E k, q : cl_table' = [cl_table EXCEPT !.wqe[k].iter_each[q] = 0]
      BY <1>10, <2>3 DEF ClientRec!RecoveryPoll
    <3>2. PICK k, q : cl_table' = [cl_table EXCEPT !.wqe[k].iter_each[q] = 0]
      BY <3>1
    <3> DEFINE w == [cl_table.wqe EXCEPT ![k].iter_each[q] = 0]
    <3>3. w \in [Client!Slots -> Client!Wqe]
      <4>1. \A j \in Client!Slots : cl_table.wqe[j] \in [valid : {0, 1}, iter_each : [Client!Paths -> Nat]]
        BY <2>1 DEF Client!Wqe
      <4>2. \A j \in Client!Slots : [cl_table.wqe[j] EXCEPT !.iter_each[q] = 0] \in [valid : {0, 1}, iter_each : [Client!Paths -> Nat]]
        BY <4>1
      <4>3. cl_table.wqe = [j \in Client!Slots |-> cl_table.wqe[j]]
        BY <2>1
      <4>4. \A j \in Client!Slots : w[j] \in Client!Wqe
        BY <4>1, <4>2, <4>3 DEF Client!Wqe
      <4>5. w = [j \in Client!Slots |-> w[j]]
        BY <4>3
      <4> HIDE DEF w
      <4> QED
        BY <4>4, <4>5
    <3>4. cl_table' = [cl_table EXCEPT !.wqe = w]
      BY <2>1, <3>2
    <3> HIDE DEF w
    <3> QED
      BY <2>1, <3>3, <3>4
  <2> QED
    BY <2>2, <2>3
<1>11. CASE ClientRec!ResendDrain
  <2>1. /\ cl_table' \in [head : Client!Slots, next : Client!Slots, sqn : Nat, wqe : [Client!Slots -> Client!Wqe]]
        /\ cl_table'.sqn = cl_table.sqn
    BY <1>10, <1>11 DEF ClientRec!ResendDrain
  <2>2. UNCHANGED <<cl_active, cl_stat, cl_tot, cl_post_turn, cl_poll_turn, cl_call, cl_cq, cl_done, cl_cum>>
    BY <1>11 DEF ClientRec!ResendDrain
  <2> QED
    BY <2>1, <2>2 DEF ClientTyped, Client!TypeOK, CqsFit
<1>12. CASE ClientRec!PassPolls
  <2>1. Client!InnerPoll
    BY <1>12 DEF ClientRec!PassPolls, ClientRec!InnerPoll, Client!InnerPoll, ClientRec!Outstanding,
       Client!Outstanding, ClientRec!Polled, Client!Polled, ClientRec!Wrap, Client!Wrap
  <2>2. UNCHANGED <<cl_active, cl_done, cl_cum>>
    BY <1>12 DEF ClientRec!PassPolls
  <2>3. /\ cl_table' \in [head : Client!Slots, next : Client!Slots, sqn : Nat, wqe : [Client!Slots -> Client!Wqe]]
        /\ cl_table'.sqn = cl_table.sqn
    BY <1>10, <1>12 DEF ClientRec!PassPolls, ClientTyped, Client!TypeOK
  <2>4. UNCHANGED <<cl_call, cl_post_turn>> \/ (cl_call.pc # "idle" /\ Client!NextPacket)
    <3>1. ClientRec!NextPacket => Client!NextPacket
      BY DEF ClientRec!NextPacket, Client!NextPacket
    <3> QED
      BY <1>12, <3>1 DEF ClientRec!PassPolls
  <2> QED
    BY <2>1, <2>2, <2>3, <2>4, ClientPollTyped
<1> QED
  BY <1>1, <1>2, <1>3, <1>4, <1>6, <1>7, <1>8, <1>9, <1>11, <1>12
     DEF ClientNext, ClientRecovers, ClientRec!RecoveryStep

(* Every step of the client's program is a move. *)
LEMMA ClientProgramMoves ==
  ASSUME ClientKnown, ClientTyped', ClientNext,
         ClientRec!TakeReport => Phase(cl_rec) = "none"
  PROVE  ClientMoved
<1>1. CASE ClientPost
  BY <1>1, ClientPostMoves
<1>2. CASE ClientPostPacket \/ ClientCutShort \/ ClientPoll
  BY <1>2, ClientPlainMoves
<1>3. CASE ClientRec!TakeReport \/ ClientRec!Clear \/ ClientRec!Told
  <2>1. cl_stat' \in [Client!Paths -> Client!QpStatus]
    BY DEF ClientTyped, Client!TypeOK
  <2> QED
    BY <1>3, <2>1, ClientBeginMoves
<1>4. CASE ClientRec!AllResent \/ ClientRec!StartResend \/ ClientRec!ResendPacket \/ ClientRec!ResendDrain
  BY <1>4, ClientResendMoves
<1>5. CASE ClientRec!Finish \/ ClientRec!Sync \/ ClientRec!PassReports \/ ClientRec!PassPolls
  BY <1>5, ClientEndMoves
<1> QED
  BY <1>1, <1>2, <1>3, <1>4, <1>5 DEF ClientNext, ClientRecovers, ClientRec!RecoveryStep

(* So what is known of the client is kept. *)
LEMMA ClientProgramKeeps ==
  ASSUME LongPieces, ClientKnown, Filling(cl_table), ClientMoved, RepShape(cl_rep'),
         Phase(cl_rec) = "told" => cl_rec.msg.loss \in 0 .. TableLen - 1,
         Phase(cl_rec) = "on" => Owed(cl_rec.msg)
  PROVE  /\ Side(cl_rec', cl_slot', cl_table', SendRecMax)
         /\ Reads(cl_rec', cl_rep')
<1>1. SendRecMax \in Nat \ {0}
  BY FailoverAssumption
<1>2. Side(cl_rec', cl_slot', cl_table', SendRecMax)
  BY <1>1, SideKeeps DEF ClientKnown, ClientMoved, Plane
<1>3. Reads(cl_rec', cl_rep')
  BY ReadsKeeps DEF ClientKnown, ClientMoved
<1> QED
  BY <1>2, <1>3

(***************************************************************************)
(* The server's cursor on the path that fails: it is at message c, of      *)
(* which comp_temp packets are complete, and its slot is known as long as  *)
(* the table has not been used up.                                         *)
(***************************************************************************)
CursorAt(s, cum, sqn, c) ==
  /\ s.comp_temp \in Nat
  /\ s.tot_pkt = cum[c + 1] + s.comp_temp
  /\ c < TableLen => s.wqe_idx = c
  /\ IF c < sqn THEN s.comp_temp < cum[c + 2] - cum[c + 1] ELSE s.comp_temp = 0

LastCursor ==
  \E c \in 0 .. sv_table.sqn : CursorAt(sv_stat[LastPath], sv_cum, sv_table.sqn, c)

(* A completion moves it by a packet. *)
LEMMA CursorPolled ==
  ASSUME NEW s, NEW t, NEW sqn \in Nat, NEW cum \in Seq(Nat), Len(cum) = sqn + 1,
         \A j, k \in 1 .. sqn + 1 : j < k => cum[j] < cum[k],
         NEW c \in 0 .. sqn, CursorAt(s, cum, sqn, c), StatShape(s),
         s.tot_pkt < cum[sqn + 1],
         c < sqn => sv_table.wqe[s.wqe_idx].iter_each[t] = cum[c + 2] - cum[c + 1]
  PROVE  \E d \in 0 .. sqn : CursorAt(Server!Polled(s, t), cum, sqn, d)
<1> USE TransferAssumption
<1>1. \A k \in 1 .. sqn + 1 : cum[k] \in Nat
  OBVIOUS
<1>2. PICK temp \in Nat : temp = s.comp_temp
  BY DEF CursorAt
<1>3. c < sqn
  <2>1. CASE c = sqn
    <3>1. temp = 0 /\ s.tot_pkt = cum[sqn + 1] + temp
      BY <1>2, <2>1 DEF CursorAt
    <3>2. cum[sqn + 1] \in Nat
      BY <1>1
    <3> QED
      BY <3>1, <3>2
  <2> QED
    BY <2>1
<1>4. PICK x \in Nat, y \in Nat : x = cum[c + 1] /\ y = cum[c + 2]
  BY <1>1, <1>3
<1>5. temp < y - x /\ s.tot_pkt = x + temp
  BY <1>2, <1>3, <1>4 DEF CursorAt
<1>6. PICK s2 : s2 = Server!Polled(s, t)
  OBVIOUS
<1>7. PICK need : need = sv_table.wqe[s.wqe_idx].iter_each[t]
  OBVIOUS
<1>8. need = y - x
  BY <1>3, <1>4, <1>7
<1>9. /\ s2.tot_pkt = s.tot_pkt + 1
      /\ s2.comp_temp = IF temp + 1 = need THEN 0 ELSE temp + 1
      /\ s2.wqe_idx = IF temp + 1 = need THEN Server!Wrap(s.wqe_idx + 1) ELSE s.wqe_idx
  BY <1>2, <1>6, <1>7 DEF Server!Polled, StatShape
<1>10. CASE temp + 1 = need
  <2>1. s2.comp_temp = 0 /\ s2.tot_pkt = y + 0
    BY <1>5, <1>8, <1>9, <1>10
  <2>2. c + 1 < TableLen => s2.wqe_idx = c + 1
    <3>1. c + 1 < TableLen => s.wqe_idx = c
      BY DEF CursorAt
    <3> QED
      BY <1>9, <1>10, <3>1 DEF Server!Wrap
  <2>3. c + 1 \in 0 .. sqn
    BY <1>3
  <2>4. c + 1 < sqn => 0 < cum[c + 3] - cum[c + 2]
    <3> SUFFICES ASSUME c + 1 < sqn
                 PROVE  0 < cum[c + 3] - cum[c + 2]
      OBVIOUS
    <3>1. c + 2 \in 1 .. sqn + 1 /\ c + 3 \in 1 .. sqn + 1 /\ c + 2 < c + 3
      OBVIOUS
    <3>2. cum[c + 2] < cum[c + 3] /\ cum[c + 2] \in Nat /\ cum[c + 3] \in Nat
      BY <1>1, <3>1
    <3> QED
      BY <3>2
  <2>5. c + 1 + 1 = c + 2 /\ c + 1 + 2 = c + 3
    OBVIOUS
  <2>6. CursorAt(s2, cum, sqn, c + 1)
    BY <1>4, <2>1, <2>2, <2>3, <2>4, <2>5 DEF CursorAt
  <2> QED
    BY <1>6, <2>3, <2>6
<1>11. CASE temp + 1 # need
  <2>1. s2.comp_temp = temp + 1 /\ s2.tot_pkt = x + (temp + 1) /\ temp + 1 < y - x
    BY <1>5, <1>8, <1>9, <1>11
  <2>2. c < TableLen => s2.wqe_idx = c
    BY <1>9, <1>11 DEF CursorAt
  <2>3. CursorAt(s2, cum, sqn, c)
    BY <1>3, <1>4, <2>1, <2>2 DEF CursorAt
  <2> QED
    BY <1>6, <2>3
<1> QED
  BY <1>10, <1>11

(* A path is given no more packets than all messages have. *)
LEMMA GivenAtMost ==
  ASSUME NEW sz, NEW sqn, NEW call, NEW turn, NEW cum, NEW p \in Paths,
         Posting(sz, sqn, call, turn, cum)
  PROVE  Given(sqn, call, turn, cum, p) <= cum[sqn + 1] /\ cum[sqn + 1] \in Nat
<1>1. cum[sqn + 1] \in Nat
  BY TransferAssumption DEF Posting
<1>2. CASE call.pc = "idle"
  BY <1>1, <1>2 DEF Given
<1>3. CASE call.pc # "idle"
  <2>1. /\ cum[sqn] \in Nat /\ call.i \div NumPath \in Nat
        /\ cum[sqn] + (call.i \div NumPath) < cum[sqn + 1]
    BY <1>3, PostingRound
  <2>2. PICK d : d = call.i \div NumPath
    OBVIOUS
  <2>3. Given(sqn, call, turn, cum, p) \in {cum[sqn] + d, cum[sqn] + d + 1}
    BY <1>3, <2>1, <2>2 DEF Given
  <2> QED
    BY <1>1, <2>1, <2>2, <2>3
<1> QED
  BY <1>2, <1>3

(* The slot of the message a cursor is at says how many packets the message *)
(* has; once the slots are used again all messages have the same number.    *)
LEMMA SlotSays ==
  ASSUME SameCuts, NEW sqn, NEW call, NEW turn, NEW cum, Posting(sizes, sqn, call, turn, cum),
         NEW r, NEW t, NEW slot, Whole(r, t, slot), WholeFrom(r) = 0, t.sqn = sqn,
         NEW c \in 0 .. sqn - 1, NEW k \in 0 .. TableLen - 1, c < TableLen => k = c
  PROVE  EachOf(t, k) = cum[c + 2] - cum[c + 1]
<1> USE TransferAssumption
<1>1. /\ sqn \in 0 .. MaxMsgs /\ c + 1 \in 1 .. sqn /\ c + 1 \in 1 .. MaxMsgs
      /\ sizes \in [1 .. MaxMsgs -> Sizes]
  BY DEF Posting
<1>2. sizes[c + 1] \in Sizes
  BY <1>1
<1>3. PICK n \in Nat : n = IterEach(sizes[c + 1], NumPath)
  BY <1>2, IterEachPositive
<1>4. cum[c + 2] = cum[c + 1] + n
  <2>1. c + 1 + 1 = c + 2
    OBVIOUS
  <2> QED
    BY <1>1, <1>3, <2>1 DEF Posting
<1>5. cum[c + 1] \in Nat
  BY <1>1 DEF Posting
<1>6. cum[c + 2] - cum[c + 1] = n
  BY <1>4, <1>5
<1>7. k < sqn
  BY <1>1
<1>8. Holds(k, slot[k].len, EachOf(t, k))
  BY <1>7 DEF Whole
<1>9. EachOf(t, k) = n
  <2>1. CASE MaxMsgs <= TableLen
    <3>1. k = c
      BY <1>1, <2>1
    <3> QED
      BY <1>3, <1>8, <2>1, <3>1 DEF Holds
  <2>2. CASE ~ (MaxMsgs <= TableLen)
    BY <1>2, <1>3, <1>8, <2>2 DEF Holds, SameCuts
  <2> QED
    BY <2>1, <2>2
<1> QED
  BY <1>6, <1>9

(* The server polls. *)
LEMMA CursorInnerPoll ==
  ASSUME BeforeReport, SameCuts, Whole(sv_rec, sv_table, sv_slot), WholeFrom(sv_rec) = 0,
         LastCursor, \A p \in Paths : StatShape(sv_stat[p]), sv_stat = [p \in Paths |-> sv_stat[p]],
         Server!InnerPoll, sv_cum' = sv_cum, sv_table'.sqn = sv_table.sqn
  PROVE  LastCursor'
<1> USE TransferAssumption
<1>1. LastPath \in Paths
  BY FailoverAssumption DEF LastPath, Paths
<1>2. /\ Posting(sizes, sv_table.sqn, sv_call, sv_post_turn, sv_cum)
      /\ Held(sv_stat[LastPath], sv_cq[LastPath])
      /\ PathPosted(sv_stat, LastPath) = ServerGiven(LastPath)
      /\ sv_active = NumPath /\ sv_poll_turn \in Nat
  BY <1>1 DEF BeforeReport, SidesInv, AllHeld
<1>3. PICK t : t = sv_poll_turn % sv_active
  OBVIOUS
<1>4. CASE sv_stat'[LastPath] = sv_stat[LastPath]
  BY <1>4 DEF LastCursor
<1>5. CASE /\ t = LastPath /\ sv_cq[LastPath] > 0
           /\ sv_stat' = [sv_stat EXCEPT ![LastPath] = Server!Polled(sv_stat[LastPath], LastPath)]
  <2>1. PICK s : s = sv_stat[LastPath]
    OBVIOUS
  <2>2. PICK c \in 0 .. sv_table.sqn : CursorAt(s, sv_cum, sv_table.sqn, c)
    BY <2>1 DEF LastCursor
  <2>3. PICK sqn \in Nat : sqn = sv_table.sqn
    BY <1>2 DEF Posting
  <2>4. /\ sv_cum \in Seq(Nat) /\ Len(sv_cum) = sqn + 1
        /\ \A j, k \in 1 .. sqn + 1 : j < k => sv_cum[j] < sv_cum[k]
    BY <1>2, <2>3 DEF Posting
  <2>5. s.tot_pkt < sv_cum[sqn + 1]
    <3>1. ServerGiven(LastPath) <= sv_cum[sqn + 1] /\ sv_cum[sqn + 1] \in Nat
      BY <1>1, <1>2, <2>3, GivenAtMost DEF ServerGiven
    <3>2. /\ s.tot_pkt \in Nat /\ s.qlen \in Nat /\ sv_cq[LastPath] \in Nat
          /\ sv_cq[LastPath] <= s.qlen /\ s.tot_pkt + s.qlen = ServerGiven(LastPath)
      BY <1>2, <2>1 DEF Held, PathPosted
    <3>3. PICK a, b, q, d, g : a = s.tot_pkt /\ b = s.qlen /\ q = sv_cq[LastPath] /\ d = sv_cum[sqn + 1]
                            /\ g = ServerGiven(LastPath)
      OBVIOUS
    <3>4. a \in Nat /\ b \in Nat /\ q \in Nat /\ d \in Nat /\ q <= b /\ a + b = g /\ g <= d /\ q > 0
      BY ONLY <1>5, <3>1, <3>2, <3>3, Zenon
    <3>5. a < d
      BY ONLY <3>4
    <3> QED
      BY ONLY <3>3, <3>5, Zenon
  <2>6. s.wqe_idx \in 0 .. TableLen - 1 /\ StatShape(s)
    BY <1>1, <1>2, <2>1 DEF Held
  <2>7. c < sqn => sv_table.wqe[s.wqe_idx].iter_each[LastPath] = sv_cum[c + 2] - sv_cum[c + 1]
    <3> SUFFICES ASSUME c < sqn
                 PROVE  EachOf(sv_table, s.wqe_idx) = sv_cum[c + 2] - sv_cum[c + 1]
      BY DEF EachOf
    <3>1. c \in 0 .. sv_table.sqn - 1 /\ (c < TableLen => s.wqe_idx = c)
      BY <2>2, <2>3 DEF CursorAt
    <3> QED
      BY <1>2, <2>6, <3>1, SlotSays
  <2>8. \E d \in 0 .. sqn : CursorAt(Server!Polled(s, LastPath), sv_cum, sqn, d)
    BY <2>2, <2>3, <2>4, <2>5, <2>6, <2>7, CursorPolled
  <2>9. sv_stat'[LastPath] = Server!Polled(s, LastPath)
    BY <1>1, <1>5, <2>1
  <2> QED
    BY <2>3, <2>8, <2>9 DEF LastCursor
<1>6. \/ UNCHANGED sv_stat
      \/ sv_cq[t] > 0 /\ sv_stat' = [sv_stat EXCEPT ![t] = Server!Polled(sv_stat[t], t)]
  BY <1>3 DEF Server!InnerPoll
<1> QED
  BY <1>1, <1>4, <1>5, <1>6

(* Every step of the server until it reports leaves its cursor right.       *)
LEMMA CursorServer ==
  ASSUME ControlInv, BeforeReport, BeforeReport', Unreported, SameCuts,
         Whole(sv_rec, sv_table, sv_slot), LastCursor, ServerNext \/ Timeout
  PROVE  LastCursor'
<1>1. WholeFrom(sv_rec) = 0
  BY DEF Unreported, WholeFrom
<1>2. /\ sv_stat = [p \in Paths |-> sv_stat[p]] /\ \A p \in Paths : StatShape(sv_stat[p])
      /\ TableShape(sv_table) /\ LastPath \in Paths
  BY FailoverAssumption, TransferAssumption DEF ControlInv, OnPaths, LastPath, Paths
<1>3. PICK s : s = sv_stat[LastPath]
  OBVIOUS
<1>4. ASSUME sv_cum' = sv_cum, sv_table'.sqn = sv_table.sqn,
             \/ sv_stat'[LastPath] = s
             \/ \E x, y : sv_stat'[LastPath] = [s EXCEPT !.posted = x, !.qlen = y]
             \/ \E x : sv_stat'[LastPath] = [s EXCEPT !.polled = x]
      PROVE  LastCursor'
  <2>1. PICK s2 : s2 = sv_stat'[LastPath]
    OBVIOUS
  <2>2. s2.tot_pkt = s.tot_pkt /\ s2.comp_temp = s.comp_temp /\ s2.wqe_idx = s.wqe_idx
    BY <1>2, <1>3, <1>4, <2>1, Zenon DEF StatShape
  <2>3. \A c : CursorAt(s, sv_cum, sv_table.sqn, c) => CursorAt(s2, sv_cum, sv_table.sqn, c)
    BY <2>2 DEF CursorAt
  <2> QED
    BY <1>3, <1>4, <2>1, <2>3 DEF LastCursor
<1>5. ASSUME Server!InnerPoll, sv_cum' = sv_cum, sv_table'.sqn = sv_table.sqn
      PROVE  LastCursor'
  BY <1>1, <1>2, <1>5, CursorInnerPoll
<1>6. CASE ServerPost
  <2>1. PICK size, n : /\ sv_cum' = Append(sv_cum, sv_cum[Len(sv_cum)] + n)
                       /\ sv_table' = [sv_table EXCEPT !.next = ServerRec!Wrap(@ + 1), !.sqn = @ + 1,
                                                       !.wqe[sv_table.next] = size]
                       /\ sv_stat' = sv_stat
    BY <1>6, Zenon DEF ServerPost, ServerRec!PostMessage, ServerRec!Post, ServerRec!StoreWr
  <2>2. PICK sqn \in Nat : sqn = sv_table.sqn
    BY DEF BeforeReport, SidesInv, Posting
  <2>3. sv_table'.sqn = sqn + 1
    BY <1>2, <2>1, <2>2 DEF TableShape
  <2>4. /\ Posting(sizes, sqn, sv_call, sv_post_turn, sv_cum)
        /\ Posting(sizes', sqn + 1, sv_call', sv_post_turn', sv_cum')
    BY <2>2, <2>3 DEF BeforeReport, SidesInv
  <2>5. /\ sv_cum \in Seq(Nat) /\ Len(sv_cum) = sqn + 1
        /\ sv_cum' \in Seq(Nat) /\ Len(sv_cum') = sqn + 2
        /\ \A j, k \in 1 .. sqn + 2 : j < k => sv_cum'[j] < sv_cum'[k]
    <3>1. sqn + 1 + 1 = sqn + 2
      BY <2>2
    <3> QED
      BY <2>4, <3>1 DEF Posting
  <2>6. \A k \in 1 .. sqn + 1 : sv_cum'[k] = sv_cum[k]
    <3>1. sv_cum[Len(sv_cum)] + n = sv_cum'[sqn + 2]
      BY <2>1, <2>5
    <3>2. sv_cum[Len(sv_cum)] + n \in Nat
      BY <2>5, <3>1
    <3> QED
      BY <2>1, <2>5, <3>2, AppendProperties
  <2>7. PICK c \in 0 .. sqn : CursorAt(s, sv_cum, sqn, c)
    BY <1>3, <2>2 DEF LastCursor
  <2>8. CursorAt(s, sv_cum', sqn + 1, c)
    <3>1. s.tot_pkt = sv_cum'[c + 1] + s.comp_temp /\ (c < TableLen => s.wqe_idx = c) /\ s.comp_temp \in Nat
      BY <2>6, <2>7 DEF CursorAt
    <3>2. CASE c < sqn
      <4>1. sv_cum'[c + 2] = sv_cum[c + 2] /\ sv_cum'[c + 1] = sv_cum[c + 1]
        BY <2>6, <3>2
      <4> QED
        BY <2>7, <3>1, <3>2, <4>1 DEF CursorAt
    <3>3. CASE c = sqn
      <4>1. s.comp_temp = 0
        BY <2>7, <3>3 DEF CursorAt
      <4>2. c + 1 \in 1 .. sqn + 2 /\ c + 2 \in 1 .. sqn + 2 /\ c + 1 < c + 2
        BY <3>3
      <4>3. sv_cum'[c + 1] < sv_cum'[c + 2] /\ sv_cum'[c + 1] \in Nat /\ sv_cum'[c + 2] \in Nat
        BY <2>5, <4>2
      <4>4. 0 < sv_cum'[c + 2] - sv_cum'[c + 1]
        BY <4>3
      <4> QED
        BY <3>1, <3>3, <4>1, <4>4 DEF CursorAt
    <3> QED
      BY <3>2, <3>3
  <2>9. c \in 0 .. sqn + 1
    OBVIOUS
  <2> QED
    BY <1>3, <2>1, <2>3, <2>8, <2>9 DEF LastCursor
<1>7. CASE ServerPostPacket
  <2>1. /\ sv_cum' = sv_cum /\ sv_table' = sv_table
        /\ sv_stat' = [sv_stat EXCEPT ![sv_post_turn].posted = @ + 1, ![sv_post_turn].qlen = @ + 1]
    BY <1>7 DEF ServerPostPacket, ServerPacket, Server!PostPacket
  <2>2. \/ sv_stat'[LastPath] = s
        \/ \E x, y : sv_stat'[LastPath] = [s EXCEPT !.posted = x, !.qlen = y]
    BY <1>2, <1>3, <2>1
  <2> QED
    BY <1>4, <2>1, <2>2
<1>8. CASE ServerCutShort \/ Timeout
  <2>1. sv_cum' = sv_cum /\ sv_table' = sv_table /\ sv_stat' = sv_stat
    BY <1>8 DEF ServerCutShort, ServerRec!CutShort, Timeout, ServerRec!Detect, ServerRec!vars
  <2> QED
    BY <1>3, <1>4, <2>1
<1>9. CASE ServerPoll
  <2>1. CASE Server!DrainPoll \/ Server!PollProgress
    BY <1>5, <2>1 DEF Server!DrainPoll, Server!PollProgress
  <2>2. CASE Server!PollComplete
    <3>1. /\ sv_cum' = sv_cum /\ sv_table'.sqn = sv_table.sqn
      <4>1. PICK k, h : sv_table' = [sv_table EXCEPT !.wqe[k].valid = 0, !.head = h]
        BY <2>2, Zenon DEF Server!PollComplete
      <4> QED
        BY <1>2, <2>2, <4>1 DEF Server!PollComplete, TableShape
    <3>2. \/ sv_stat'[LastPath] = s
          \/ \E x : sv_stat'[LastPath] = [s EXCEPT !.polled = x]
      BY <1>2, <1>3, <2>2 DEF Server!PollComplete, Server!Paths, Paths
    <3> QED
      BY <1>4, <3>1, <3>2, Zenon
  <2> QED
    BY <1>9, <2>1, <2>2, SameEndpoints DEF ServerPoll, ServerRec!PlainPoll
<1>10. CASE ServerRecovers
  <2>1. /\ sv_rec.at \in {"out", "clear", "nokey"} /\ ~ sv_rec.over
        /\ sv_rec.flag => sv_rec.at \in {"clear", "nokey"}
    BY DEF Unreported, ControlInv, Plane, PhaseAt, Phase
  <2>2. ServerRec!Clear
    BY <1>10, <2>1 DEF ServerRecovers, ServerRec!RecoveryStep, ServerRec!TakeReport, ServerRec!Told,
     ServerRec!AllResent, ServerRec!StartResend, ServerRec!ResendPacket, ServerRec!InPass, ServerRec!Polls,
     ServerRec!ResendDrain, ServerRec!Finish, ServerRec!Sync, ServerRec!PassReports, ServerRec!PassPolls
  <2>3. Server!InnerPoll /\ UNCHANGED <<sv_table, sv_cum>>
    BY <2>2, SameEndpoints DEF ServerRec!Clear
  <2> QED
    BY <1>5, <2>3
<1> QED
  BY <1>6, <1>7, <1>8, <1>9, <1>10 DEF ServerNext

(* What is said of the WQE the cursor is at is not all of it.               *)
LEMMA CursorOwes ==
  ASSUME SameCuts, NEW sqn, NEW call, NEW turn, NEW cum, Posting(sizes, sqn, call, turn, cum),
         NEW s, NEW c \in 0 .. sqn, CursorAt(s, cum, sqn, c),
         NEW msg, msg.loss = s.wqe_idx, msg.completed = s.comp_temp
  PROVE  Owed(msg)
<1> USE TransferAssumption
<1>1. msg.completed \in Nat
  BY DEF CursorAt
<1> SUFFICES ASSUME msg.completed # 0, NEW len \in Sizes,
                    MaxMsgs <= TableLen => msg.loss + 1 \in 1 .. MaxMsgs /\ len = sizes[msg.loss + 1]
             PROVE  msg.completed < IterEach(len, NumPath)
  BY <1>1 DEF Owed
<1>2. c < sqn /\ sqn \in 0 .. MaxMsgs /\ c + 1 \in 1 .. sqn /\ c + 1 \in 1 .. MaxMsgs
  BY DEF CursorAt, Posting
<1>3. sizes[c + 1] \in Sizes
  BY <1>2 DEF Posting
<1>4. PICK n \in Nat : n = IterEach(sizes[c + 1], NumPath)
  BY <1>3, IterEachPositive
<1>5. cum[c + 2] = cum[c + 1] + n /\ cum[c + 1] \in Nat
  <2>1. c + 1 + 1 = c + 2 /\ c + 1 \in 1 .. sqn + 1
    BY <1>2
  <2>2. cum \in Seq(Nat) /\ Len(cum) = sqn + 1
    BY DEF Posting
  <2>3. \A m \in 1 .. sqn : cum[m + 1] = cum[m] + IterEach(sizes[m], NumPath)
    BY DEF Posting
  <2>4. cum[c + 1 + 1] = cum[c + 1] + n
    BY ONLY <1>2, <1>4, <2>3
  <2>5. cum[c + 1] \in Nat
    BY ONLY <2>1, <2>2
  <2> QED
    BY ONLY <2>1, <2>4, <2>5
<1>6. msg.completed < n
  <2>1. msg.completed < cum[c + 2] - cum[c + 1]
    BY <1>1, <1>2 DEF CursorAt
  <2> QED
    BY ONLY <1>1, <1>4, <1>5, <2>1
<1>7. n = IterEach(len, NumPath)
  <2>1. CASE MaxMsgs <= TableLen
    <3>1. msg.loss = c
      BY <1>2, <2>1 DEF CursorAt
    <3> QED
      BY <1>4, <2>1, <3>1
  <2>2. CASE ~ (MaxMsgs <= TableLen)
    BY <1>3, <1>4, <2>2 DEF SameCuts
  <2> QED
    BY <2>1, <2>2
<1> QED
  BY <1>6, <1>7

(* So the server reports less of a WQE than it has. *)
LEMMA ReportOwes ==
  ASSUME ControlInv, BeforeReport, Unreported, SameCuts, LastCursor', ~ Unreported',
         ServerNext \/ Timeout
  PROVE  Owed(sv_rec'.msg)
<1>1. Plane(sv_rec, sv_rep) /\ PhaseAt(sv_rec) /\ RecShape(sv_rec) /\ RepShape(sv_rep)
  BY DEF ControlInv, Plane
<1>2. ServerMove(sv_rec, sv_rep, sv_table.next, sv_rec', sv_rep')
  BY <1>1, ServerSteps
<1>3. Phase(sv_rec) = "clear" /\ Phase(sv_rec') = "told"
  BY <1>2 DEF Unreported, ServerMove, ServerAlone, Detects, Reports, AwaitsAck, ServerWorks,
              ServerEnds
<1>4. sv_rec.at \in {"clear", "nokey"} /\ sv_rec'.at = "told"
  BY <1>3 DEF Phase
<1>5. ServerRec!Clear
  BY <1>4 DEF ServerNext, ServerPost, ServerPostPacket, ServerCutShort, ServerPoll, ServerRecovers,
       Timeout, ServerRec!PostMessage, ServerRec!CutShort, ServerRec!PlainPoll, ServerRec!Polls,
       ServerRec!RecoveryStep, ServerRec!TakeReport, ServerRec!Told,
       ServerRec!AllResent, ServerRec!StartResend, ServerRec!ResendPacket, ServerRec!ResendDrain,
       ServerRec!Finish, ServerRec!Sync, ServerRec!PassReports, ServerRec!PassPolls,
       ServerRec!Detect, ServerRec!InPass
<1>6. sv_rec' # sv_rec /\ sv_rec' # [sv_rec EXCEPT !.at = "nokey"]
  BY <1>1, <1>4 DEF RecShape
<1>7. PICK msg : msg = [loss |-> sv_stat'[ServerRec!Err].wqe_idx,
                        max |-> sv_table.next - 1,
                        completed |-> sv_stat'[ServerRec!Err].comp_temp]
  OBVIOUS
<1>8. sv_rec' = [sv_rec EXCEPT !.at = "told", !.msg = msg]
  BY <1>5, <1>6, <1>7 DEF ServerRec!Clear
<1>9. /\ sv_rec'.msg.loss = sv_stat'[LastPath].wqe_idx
      /\ sv_rec'.msg.completed = sv_stat'[LastPath].comp_temp
  BY <1>1, <1>7, <1>8 DEF RecShape, ServerRec!Err, LastPath
<1>10. UNCHANGED <<sv_table, sv_cum>>
  BY <1>5 DEF ServerRec!Clear
<1>11. Posting(sizes, sv_table.sqn, sv_call, sv_post_turn, sv_cum)
  BY DEF BeforeReport, SidesInv
<1>12. PICK c \in 0 .. sv_table.sqn : CursorAt(sv_stat'[LastPath], sv_cum, sv_table.sqn, c)
  BY <1>10 DEF LastCursor
<1> QED
  BY <1>9, <1>11, <1>12, CursorOwes

(***************************************************************************)
(* The invariant of the numbers of a recovery.                             *)
(***************************************************************************)
Nets ==
  /\ to_server \in [Survivors -> Seq(Items)]
  /\ to_client \in [Survivors -> Seq(Items)]

NumbersInv ==
  /\ BlindInv
  /\ ClientTyped /\ ServerTyped
  /\ Side(cl_rec, cl_slot, cl_table, SendRecMax)
  /\ Side(sv_rec, sv_slot, sv_table, RecvRecMax)
  /\ Reads(cl_rec, cl_rep) /\ Reads(sv_rec, sv_rep)
  /\ Nets
  /\ Unreported => LastCursor
  /\ ~ Unreported => Owed(sv_rec.msg)

(* What it says of each side. *)
LEMMA NumbersTell ==
  ASSUME NumbersInv
  PROVE  /\ ClientKnown /\ ServerKnown /\ Filling(cl_table) /\ Filling(sv_table)
         /\ Phase(cl_rec) \in {"told", "on", "over"} =>
              cl_rec.msg.loss \in 0 .. TableLen - 1 /\ Owed(cl_rec.msg)
         /\ Phase(sv_rec) \in {"told", "on", "over"} =>
              sv_rec.msg.loss \in 0 .. TableLen - 1 /\ Owed(sv_rec.msg)
         /\ sizes \in [1 .. MaxMsgs -> Sizes]
         /\ PhaseAt(cl_rec) /\ PhaseAt(sv_rec)
         /\ ClientRec!TakeReport => Phase(cl_rec) = "none"
<1>1. ControlInv /\ BlindInv
  BY DEF NumbersInv, BlindInv
<1>2. cl_table \in Tables /\ sv_table \in Tables
  BY DEF NumbersInv, ClientTyped, ServerTyped, Client!TypeOK, Server!TypeOK, Tables,
     Client!Slots, Server!Slots, Client!Wqe, Server!Wqe, Client!Paths, Server!Paths, Paths
<1>3. ClientKnown /\ ServerKnown
  BY <1>1, <1>2 DEF NumbersInv, BlindInv, ControlInv, OnPaths, ClientKnown, ServerKnown
<1>4. Phase(sv_rec) \in {"told", "on", "over"} =>
        sv_rec.msg.loss \in 0 .. TableLen - 1 /\ Owed(sv_rec.msg)
  BY <1>1 DEF NumbersInv, BlindInv, Unreported, Known
<1>5. Phase(cl_rec) \in {"told", "on", "over"} =>
        cl_rec.msg.loss \in 0 .. TableLen - 1 /\ Owed(cl_rec.msg)
  <2>1. Answered(cl_rec) => Phase(sv_rec) \in {"told", "on", "over"} /\ cl_rec.msg = sv_rec.msg
    BY <1>1, FlowsTell
  <2> QED
    BY <1>4, <2>1 DEF Answered
<1>6. ClientRec!TakeReport => Phase(cl_rec) = "none"
  <2>1. Phase(cl_rec) = "over" /\ cl_rec.at = "out" => cl_rep.rcq = 0
    BY <1>1, FlowsTell
  <2> QED
    BY <2>1 DEF ClientRec!TakeReport, ClientRec!Polls, Phase
<1> QED
  BY <1>1, <1>3, <1>4, <1>5, <1>6 DEF BlindInv, ControlInv, Plane

(* The client's steps. *)
LEMMA NumbersClient ==
  ASSUME LongPieces, NumbersInv, ClientNext
  PROVE  NumbersInv'
<1>1. /\ UNCHANGED svVars /\ UNCHANGED svRec /\ sizes' = sizes
      /\ UNCHANGED <<to_server, to_client>>
  BY DEF ClientNext, ClientPost, ClientPostPacket, ClientCutShort, ClientPoll, ClientRecovers,
         ClientOnly, repNet
<1>2. BlindInv'
  BY BlindClient DEF NumbersInv
<1>3. ClientTyped'
  BY NumbersTell, ClientProgramTyped DEF ClientKnown, NumbersInv
<1>4. ServerTyped'
  BY <1>1 DEF NumbersInv, ServerTyped, Server!TypeOK, CqsFit, svVars
<1>5. ClientMoved
  BY <1>3, NumbersTell, ClientProgramMoves
<1>6. RepShape(cl_rep')
  BY <1>2 DEF BlindInv, ControlInv, Plane
<1>7. Side(cl_rec', cl_slot', cl_table', SendRecMax) /\ Reads(cl_rec', cl_rep')
  BY <1>5, <1>6, NumbersTell, ClientProgramKeeps
<1>8. Side(cl_rec, cl_slot, cl_table, SendRecMax)'
  BY <1>1, <1>7 DEF Side, Whole, Holds
<1>9. /\ sv_rec' = sv_rec /\ sv_slot' = sv_slot /\ sv_table' = sv_table /\ sv_rep' = sv_rep
      /\ sv_stat' = sv_stat /\ sv_cum' = sv_cum
  BY <1>1 DEF svVars, svRec
<1>10. Side(sv_rec, sv_slot, sv_table, RecvRecMax)'
  BY <1>1, <1>9 DEF Side, Whole, Holds, NumbersInv
<1>11. /\ Reads(sv_rec, sv_rep)' /\ Nets' /\ (Unreported => LastCursor)'
       /\ (~ Unreported => Owed(sv_rec.msg))'
  BY <1>1, <1>9 DEF NumbersInv, Nets, Unreported, LastCursor, Owed
<1> QED
  BY <1>2, <1>3, <1>4, <1>7, <1>8, <1>10, <1>11 DEF NumbersInv

(* The server finds the path silent. *)
LEMMA TimeoutMoves ==
  ASSUME NumbersInv, Timeout
  PROVE  ServerMoved /\ ServerTyped'
<1>1. ServerKnown /\ RecShape(sv_rec) /\ RepShape(sv_rep) /\ PhaseAt(sv_rec)
  BY NumbersTell DEF ServerKnown, Plane
<1>2. /\ sv_rec' = [sv_rec EXCEPT !.at = "clear", !.flag = TRUE]
      /\ sv_rec.at = "out" /\ ~ sv_rec.flag /\ ~ sv_rec.over
      /\ UNCHANGED svVars /\ sv_slot' = sv_slot /\ sv_rep' = sv_rep /\ sv_table' = sv_table
  BY DEF Timeout, ServerRec!Detect, ServerRec!vars, ServerRec!Polls, svVars
<1>3. /\ SameNumbers(sv_rec, sv_rec') /\ sv_rec'.at = "clear" /\ sv_rec'.flag /\ ~ sv_rec'.over
      /\ sv_rec'.msg = sv_rec.msg /\ sv_rec'.max = sv_rec.max
  BY <1>1, <1>2 DEF RecShape, SameNumbers
<1>4. Phase(sv_rec) = "none" /\ Phase(sv_rec') = "clear"
  BY <1>2, <1>3 DEF Phase
<1>5. SameWqes(sv_table, sv_table') /\ ~ Resends(sv_rec.at) /\ ~ Resends(sv_rec'.at)
  BY <1>2, <1>3 DEF SameWqes, Resends
<1>6. SideMove(sv_rec, sv_slot, sv_table, sv_rec', sv_slot', sv_table', RecvRecMax)
  BY <1>2, <1>3, <1>4, <1>5, RestMove
<1>7. ReadsMove(sv_rec, sv_rep, sv_rec', sv_rep')
  BY <1>1, <1>2, <1>3 DEF ReadsMove, ServerKnown, Reads
<1>8. ServerTyped'
  BY <1>2 DEF NumbersInv, ServerTyped, Server!TypeOK, CqsFit, svVars
<1> QED
  BY <1>6, <1>7, <1>8 DEF ServerMoved

(* The server's steps. *)
LEMMA NumbersServer ==
  ASSUME LongPieces, SameCuts, NumbersInv, ServerNext \/ Timeout
  PROVE  NumbersInv'
<1>1. /\ UNCHANGED clVars /\ UNCHANGED clRec /\ sizes' = sizes
      /\ UNCHANGED <<to_server, to_client>>
  BY DEF ServerNext, ServerPost, ServerPostPacket, ServerCutShort, ServerPoll, ServerRecovers, Timeout,
         ServerOnly, repNet
<1>2. BlindInv'
  BY BlindServer DEF NumbersInv
<1>3. ServerTyped' /\ ServerMoved
  <2>1. CASE ServerNext
    <3>1. ServerTyped'
      BY <2>1, NumbersTell, ServerProgramTyped DEF ServerKnown, NumbersInv
    <3>2. ~ ServerRec!TakeReport
      BY DEF ServerRec!TakeReport
    <3> QED
      BY <2>1, <3>1, <3>2, NumbersTell, ServerProgramMoves
  <2>2. CASE Timeout
    BY <2>2, TimeoutMoves
  <2> QED
    BY <2>1, <2>2
<1>4. ClientTyped'
  BY <1>1 DEF NumbersInv, ClientTyped, Client!TypeOK, CqsFit, clVars
<1>5. RepShape(sv_rep')
  BY <1>2 DEF BlindInv, ControlInv, Plane
<1>6. Side(sv_rec', sv_slot', sv_table', RecvRecMax) /\ Reads(sv_rec', sv_rep')
  BY <1>3, <1>5, NumbersTell, ServerProgramKeeps
<1>7. Side(sv_rec, sv_slot, sv_table, RecvRecMax)'
  BY <1>1, <1>6 DEF Side, Whole, Holds
<1>8. /\ cl_rec' = cl_rec /\ cl_slot' = cl_slot /\ cl_table' = cl_table /\ cl_rep' = cl_rep
  BY <1>1 DEF clVars, clRec
<1>9. Side(cl_rec, cl_slot, cl_table, SendRecMax)'
  BY <1>1, <1>8 DEF Side, Whole, Holds, NumbersInv
<1>10. Reads(cl_rec, cl_rep)' /\ Nets'
  BY <1>1, <1>8 DEF NumbersInv, Nets
<1>11. ControlInv /\ Plane(sv_rec, sv_rep) /\ (Unreported => BeforeReport) /\ (Unreported => BeforeReport')
  BY ServerBefore DEF NumbersInv, BlindInv, ControlInv
<1>12. ServerMove(sv_rec, sv_rep, sv_table.next, sv_rec', sv_rep')
  BY <1>11, ServerSteps
<1>13. Unreported => LastCursor'
  <2>1. Whole(sv_rec, sv_table, sv_slot)
    BY DEF NumbersInv, Side
  <2> QED
    BY <1>11, <2>1, CursorServer DEF NumbersInv
<1>14. Unreported' => Unreported
  BY <1>12 DEF Unreported, ServerMove, ServerAlone, Detects, Reports, AwaitsAck, ServerWorks, ServerEnds
<1>15. ~ Unreported' => Owed(sv_rec'.msg)
  <2>1. CASE Unreported
    BY <1>11, <1>13, <2>1, ReportOwes
  <2>2. CASE ~ Unreported
    <3>1. sv_rec'.msg = sv_rec.msg
      BY <1>12, <2>2 DEF Unreported, ServerMove, ServerAlone, Detects, Reports, AwaitsAck, ServerWorks,
                        ServerEnds
    <3> QED
      BY <2>2, <3>1 DEF NumbersInv
  <2> QED
    BY <2>1, <2>2
<1>16. (~ Unreported => Owed(sv_rec.msg))'
  BY <1>1, <1>15 DEF Owed
<1> QED
  BY <1>2, <1>3, <1>4, <1>6, <1>7, <1>9, <1>10, <1>13, <1>14, <1>16 DEF NumbersInv

(* The cards on the paths of the transfer change nothing of it but queues. *)
LEMMA NumbersCards ==
  ASSUME NumbersInv,
         PathFails \/ LeaveFailed \/ \E p \in Paths : PacketLeaves(p) \/ PacketArrives(p)
  PROVE  NumbersInv'
<1>1. /\ cl_rec' = cl_rec /\ cl_slot' = cl_slot /\ cl_rep' = cl_rep /\ cl_table' = cl_table
      /\ sv_rec' = sv_rec /\ sv_slot' = sv_slot /\ sv_rep' = sv_rep /\ sv_table' = sv_table
      /\ sizes' = sizes /\ UNCHANGED <<to_server, to_client>>
      /\ sv_stat' = sv_stat /\ sv_cum' = sv_cum
  BY DEF PathFails, LeaveFailed, PacketLeaves, PacketArrives, Leave, Arrive, Fill,
         Client!NicComplete, Server!NicComplete, clVars, svVars, clRec, svRec, repNet
<1>2. BlindInv'
  BY BlindCards DEF NumbersInv
<1>3. LastPath \in Paths
  BY FailoverAssumption, TransferAssumption DEF LastPath, Paths
<1>4. ClientTyped'
  <2>1. CASE UNCHANGED clVars
    BY <2>1 DEF NumbersInv, ClientTyped, Client!TypeOK, CqsFit, clVars
  <2>2. CASE \E p \in Paths : Client!NicComplete(p)
    BY <2>2, ClientCardTyped DEF NumbersInv
  <2> QED
    BY <1>3, <2>1, <2>2 DEF PathFails, LeaveFailed, PacketLeaves, PacketArrives, Leave, Arrive, Fill
<1>5. ServerTyped'
  <2>1. CASE UNCHANGED svVars
    BY <2>1 DEF NumbersInv, ServerTyped, Server!TypeOK, CqsFit, svVars
  <2>2. CASE \E p \in Paths : Server!NicComplete(p)
    BY <2>2, ServerCardTyped DEF NumbersInv
  <2> QED
    BY <2>1, <2>2 DEF PathFails, LeaveFailed, PacketLeaves, PacketArrives, Leave, Arrive, Fill
<1>6. Side(cl_rec, cl_slot, cl_table, SendRecMax)' /\ Side(sv_rec, sv_slot, sv_table, RecvRecMax)'
  BY <1>1 DEF Side, Whole, Holds, NumbersInv
<1>7. /\ Reads(cl_rec, cl_rep)' /\ Reads(sv_rec, sv_rep)' /\ Nets'
      /\ (Unreported => LastCursor)' /\ (~ Unreported => Owed(sv_rec.msg))'
  BY <1>1 DEF NumbersInv, Nets, Unreported, LastCursor, Owed
<1> QED
  BY <1>2, <1>4, <1>5, <1>6, <1>7 DEF NumbersInv

(* What leaves a queue of items, ... *)
LEMMA ItemLeaves ==
  ASSUME NEW q \in Seq(Items), q # <<>>
  PROVE  Head(q) \in Items /\ Tail(q) \in Seq(Items)
  OBVIOUS

(* ... what is put on its path, ... *)
LEMMA ItemInFlight ==
  ASSUME NEW net \in [Survivors -> Seq(Items)], NEW item \in Items
  PROVE  InFlight(net, item) \in [Survivors -> Seq(Items)]
<1>1. item.path \in Survivors
  BY FailoverAssumption, TransferAssumption DEF Items, Survivors
<1>2. net[item.path] \in Seq(Items)
  BY <1>1
<1>3. PICK q \in Seq(Items) : q = Append(net[item.path], item)
  BY <1>2, AppendProperties
<1>4. InFlight(net, item) = [net EXCEPT ![item.path] = q]
  BY <1>3 DEF InFlight
<1> QED
  BY <1>4

(* ... and what fills a receive of the report QP. *)
LEMMA ItemFills ==
  ASSUME NEW s, RepTyped(s), NEW item \in Items, s.rq # <<>>
  PROVE  RepTyped(Filled(s, item))
<1>1. /\ s.rq \in Seq(Items) /\ s.rcq \in Nat /\ s.buf \in Report
      /\ s \in [sq : Seq(Items), scq : Nat, rq : Seq(Items), rcq : Nat, buf : Report]
  BY DEF RepTyped
<1>2. PICK b \in Report : b = IF item.kind = "data" THEN s.buf ELSE item.body
  BY <1>1 DEF Items
<1>3. PICK q \in Seq(Items) : q = Tail(s.rq)
  BY <1>1, ItemLeaves
<1>4. PICK n \in Nat : n = s.rcq + 1
  BY <1>1
<1>5. Filled(s, item) = [s EXCEPT !.rq = q, !.rcq = n, !.buf = b]
  BY <1>1, <1>2, <1>3, <1>4 DEF Filled
<1>6. [s EXCEPT !.rq = q, !.rcq = n, !.buf = b]
        \in [sq : Seq(Items), scq : Nat, rq : Seq(Items), rcq : Nat, buf : Report]
  BY ONLY <1>1, q \in Seq(Items), n \in Nat, b \in Report
<1> QED
  BY <1>5, <1>6 DEF RepTyped

(* A work request of a report QP has been sent. *)
LEMMA ItemSent ==
  ASSUME NEW s, RepTyped(s), s.sq # <<>>
  PROVE  RepTyped(Sent(s)) /\ Head(s.sq) \in Items
<1>1. /\ s.sq \in Seq(Items) /\ s.scq \in Nat
      /\ s \in [sq : Seq(Items), scq : Nat, rq : Seq(Items), rcq : Nat, buf : Report]
  BY DEF RepTyped
<1>2. PICK q \in Seq(Items) : q = Tail(s.sq)
  BY <1>1, ItemLeaves
<1>3. PICK n \in Nat : n = s.scq + 1
  BY <1>1
<1>4. Sent(s) = [s EXCEPT !.sq = q, !.scq = n]
  BY <1>1, <1>2, <1>3 DEF Sent
<1>5. [s EXCEPT !.sq = q, !.scq = n]
        \in [sq : Seq(Items), scq : Nat, rq : Seq(Items), rcq : Nat, buf : Report]
  BY ONLY <1>1, q \in Seq(Items), n \in Nat
<1> QED
  BY <1>1, <1>4, <1>5, ItemLeaves DEF RepTyped

(* The report QPs and what is between them. *)
LEMMA NumbersReports ==
  ASSUME NumbersInv,
         ReportLeavesClient \/ ReportLeavesServer \/ \E p \in Survivors : ReportArrives(p)
  PROVE  NumbersInv'
<1>1. /\ UNCHANGED vars /\ cl_rec' = cl_rec /\ cl_slot' = cl_slot
      /\ sv_rec' = sv_rec /\ sv_slot' = sv_slot
  BY DEF ReportLeavesClient, ReportLeavesServer, ReportArrives, clRec, svRec
<1>2. /\ cl_table' = cl_table /\ sv_table' = sv_table /\ sizes' = sizes
      /\ sv_stat' = sv_stat /\ sv_cum' = sv_cum /\ UNCHANGED clVars /\ UNCHANGED svVars
  BY <1>1 DEF vars, clVars, svVars
<1>3. BlindInv'
  BY BlindCards DEF NumbersInv
<1>4. ClientTyped' /\ ServerTyped'
  BY <1>2 DEF NumbersInv, ClientTyped, Client!TypeOK, ServerTyped, Server!TypeOK, CqsFit, clVars, svVars
<1>5. Side(cl_rec, cl_slot, cl_table, SendRecMax)' /\ Side(sv_rec, sv_slot, sv_table, RecvRecMax)'
  BY <1>1, <1>2 DEF Side, Whole, Holds, NumbersInv
<1>6. (Unreported => LastCursor)' /\ (~ Unreported => Owed(sv_rec.msg))'
  BY <1>1, <1>2 DEF NumbersInv, Unreported, LastCursor, Owed
<1>7. RepTyped(cl_rep) /\ RepTyped(sv_rep) /\ Nets
  BY DEF NumbersInv, Reads
<1>8. RepTyped(cl_rep') /\ RepTyped(sv_rep') /\ Nets'
  <2>1. CASE ReportLeavesClient
    <3>1. /\ cl_rep.sq # <<>> /\ cl_rep' = Sent(cl_rep)
          /\ to_server' = InFlight(to_server, Head(cl_rep.sq))
          /\ to_client' = to_client /\ sv_rep' = sv_rep
      BY <2>1 DEF ReportLeavesClient, svRec
    <3>2. RepTyped(cl_rep') /\ Head(cl_rep.sq) \in Items
      BY <1>7, <3>1, ItemSent
    <3> QED
      BY <1>7, <3>1, <3>2, ItemInFlight DEF Nets
  <2>2. CASE ReportLeavesServer
    <3>1. /\ sv_rep.sq # <<>> /\ sv_rep' = Sent(sv_rep)
          /\ to_client' = InFlight(to_client, Head(sv_rep.sq))
          /\ to_server' = to_server /\ cl_rep' = cl_rep
      BY <2>2 DEF ReportLeavesServer, clRec
    <3>2. RepTyped(sv_rep') /\ Head(sv_rep.sq) \in Items
      BY <1>7, <3>1, ItemSent
    <3> QED
      BY <1>7, <3>1, <3>2, ItemInFlight DEF Nets
  <2>3. ASSUME NEW p \in Survivors, ReportArrives(p)
        PROVE  RepTyped(cl_rep') /\ RepTyped(sv_rep') /\ Nets'
    <3>1. CASE /\ to_server[p] # <<>> /\ sv_rep.rq # <<>>
               /\ sv_rep' = Filled(sv_rep, Head(to_server[p]))
               /\ to_server' = [to_server EXCEPT ![p] = Tail(@)]
               /\ to_client' = to_client /\ cl_rep' = cl_rep
      <4>1. to_server[p] \in Seq(Items)
        BY <1>7 DEF Nets
      <4>2. Head(to_server[p]) \in Items /\ Tail(to_server[p]) \in Seq(Items)
        BY <3>1, <4>1, ItemLeaves
      <4> QED
        BY <1>7, <3>1, <4>2, ItemFills DEF Nets
    <3>2. CASE /\ to_client[p] # <<>> /\ cl_rep.rq # <<>>
               /\ cl_rep' = Filled(cl_rep, Head(to_client[p]))
               /\ to_client' = [to_client EXCEPT ![p] = Tail(@)]
               /\ to_server' = to_server /\ sv_rep' = sv_rep
      <4>1. to_client[p] \in Seq(Items)
        BY <1>7 DEF Nets
      <4>2. Head(to_client[p]) \in Items /\ Tail(to_client[p]) \in Seq(Items)
        BY <3>2, <4>1, ItemLeaves
      <4> QED
        BY <1>7, <3>2, <4>2, ItemFills DEF Nets
    <3> QED
      BY <2>3, <3>1, <3>2 DEF ReportArrives
  <2> QED
    BY <2>1, <2>2, <2>3
<1>9. Reads(cl_rec, cl_rep)' /\ Reads(sv_rec, sv_rep)'
  BY <1>1, <1>8 DEF NumbersInv, Reads
<1> QED
  BY <1>3, <1>4, <1>5, <1>6, <1>8, <1>9 DEF NumbersInv

(* At first there are none. *)
LEMMA NumbersInit == FailoverInit => NumbersInv
<1> SUFFICES ASSUME FailoverInit
             PROVE  NumbersInv
  OBVIOUS
<1> USE TransferAssumption, FailoverAssumption
<1>1. BlindInv
  BY BlindInit
<1>2. ClientTyped
  BY DEF FailoverInit, Init, Client!Init, ClientTyped, Client!TypeOK, CqsFit, Client!Slots, Client!Paths,
     Client!UnusedWqe, Client!Wqe, Client!QpStatus, Paths
<1>3. ServerTyped
  BY DEF FailoverInit, Init, Server!Init, ServerTyped, Server!TypeOK, CqsFit, Server!Slots, Server!Paths,
     Server!UnusedWqe, Server!Wqe, Server!QpStatus, Paths
<1>4. /\ Phase(cl_rec) = "none" /\ Phase(sv_rec) = "none"
      /\ cl_rec.at = "out" /\ sv_rec.at = "out"
      /\ cl_table.sqn = 0 /\ sv_table.sqn = 0
  BY DEF FailoverInit, ClientRec!RecInit, ServerRec!RecInit, Phase, Init, Client!Init, Server!Init
<1>5. Numbers(cl_rec, SendRecMax) /\ Numbers(sv_rec, RecvRecMax)
  BY DEF FailoverInit, ClientRec!RecInit, ServerRec!RecInit, Numbers, Survivors
<1>6. /\ cl_slot = [k \in 0 .. TableLen - 1 |-> [len |-> 0, need |-> 0]]
      /\ sv_slot = [k \in 0 .. TableLen - 1 |-> [len |-> 0, need |-> 0]]
      /\ cl_rec.out = 0 /\ cl_rec.pkt = 0 /\ sv_rec.out = 0 /\ sv_rec.pkt = 0
  BY DEF FailoverInit, ClientRec!RecInit, ServerRec!RecInit, ClientRec!Slots, ServerRec!Slots
<1>7. Side(cl_rec, cl_slot, cl_table, SendRecMax) /\ Side(sv_rec, sv_slot, sv_table, RecvRecMax)
  BY <1>4, <1>5, <1>6 DEF Side, SlotTyped, Whole, WholeFrom
<1>8. Reads(cl_rec, cl_rep) /\ Reads(sv_rec, sv_rep)
  <2>1. ClientRec!NoReport \in Report /\ ServerRec!NoReport \in Report
    BY DEF ClientRec!NoReport, ServerRec!NoReport, Report
  <2>2. <<>> \in Seq(Items)
    OBVIOUS
  <2> QED
    BY <2>1, <2>2 DEF FailoverInit, ClientRec!RecInit, ServerRec!RecInit, Reads, RepTyped
<1>9. Nets
  BY DEF FailoverInit, Nets
<1>10. LastCursor
  <2>1. /\ sv_table.sqn = 0 /\ sv_cum[1] = 0 /\ LastPath \in Paths
        /\ sv_stat[LastPath].comp_temp = 0 /\ sv_stat[LastPath].tot_pkt = 0 /\ sv_stat[LastPath].wqe_idx = 0
    BY DEF FailoverInit, Init, Server!Init, Server!Paths, LastPath, Paths
  <2> QED
    BY <2>1 DEF LastCursor, CursorAt
<1> QED
  BY <1>1, <1>2, <1>3, <1>4, <1>7, <1>8, <1>9, <1>10 DEF NumbersInv, Unreported

(* Every step preserves the invariant. *)
LEMMA NumbersStep ==
  ASSUME LongPieces, SameCuts, NumbersInv, [FailoverNext]_allVars
  PROVE  NumbersInv'
<1>1. CASE ClientNext
  BY <1>1, NumbersClient
<1>2. CASE ServerNext \/ Timeout
  BY <1>2, NumbersServer
<1>3. CASE PathFails \/ LeaveFailed \/ \E p \in Paths : PacketLeaves(p) \/ PacketArrives(p)
  BY <1>3, NumbersCards
<1>4. CASE ReportLeavesClient \/ ReportLeavesServer \/ \E p \in Survivors : ReportArrives(p)
  BY <1>4, NumbersReports
<1>5. CASE UNCHANGED allVars
  <2>1. /\ UNCHANGED vars /\ UNCHANGED clRec /\ UNCHANGED svRec
        /\ UNCHANGED <<to_server, to_client>>
    BY <1>5 DEF allVars, repNet
  <2>2. BlindInv'
    BY <1>5, BlindStep DEF NumbersInv
  <2>3. /\ cl_table' = cl_table /\ sv_table' = sv_table /\ sizes' = sizes
        /\ sv_stat' = sv_stat /\ sv_cum' = sv_cum /\ UNCHANGED clVars /\ UNCHANGED svVars
        /\ cl_rec' = cl_rec /\ cl_slot' = cl_slot /\ cl_rep' = cl_rep
        /\ sv_rec' = sv_rec /\ sv_slot' = sv_slot /\ sv_rep' = sv_rep
    BY <2>1 DEF vars, clVars, svVars, clRec, svRec
  <2>4. ClientTyped' /\ ServerTyped'
    BY <2>3 DEF NumbersInv, ClientTyped, Client!TypeOK, ServerTyped, Server!TypeOK, CqsFit, clVars, svVars
  <2>5. Side(cl_rec, cl_slot, cl_table, SendRecMax)' /\ Side(sv_rec, sv_slot, sv_table, RecvRecMax)'
    BY <2>3 DEF Side, Whole, Holds, NumbersInv
  <2>6. /\ Reads(cl_rec, cl_rep)' /\ Reads(sv_rec, sv_rep)' /\ Nets'
        /\ (Unreported => LastCursor)' /\ (~ Unreported => Owed(sv_rec.msg))'
    BY <2>1, <2>3 DEF NumbersInv, Nets, Unreported, LastCursor, Owed
  <2> QED
    BY <2>2, <2>4, <2>5, <2>6 DEF NumbersInv
<1> QED
  BY <1>1, <1>2, <1>3, <1>4, <1>5 DEF FailoverNext

(***************************************************************************)
(* mprud_recovery_poll never compares with the comp_need of a WQE that was *)
(* not resent yet, nor with that of one of which nothing was left to be    *)
(* resent: its loop (mprud.c:1885) ends, on both sides, whenever the path  *)
(* fails, if the pieces of a chunk are long enough to be cut over the      *)
(* paths that are left, and two messages that share a slot of the table    *)
(* have equally many packets.                                              *)
(***************************************************************************)
THEOREM RecoveryNeverSpins ==
  ASSUME LongPieces, SameCuts
  PROVE  FailoverSpec => []NeverSpins
<1>1. FailoverInit => NumbersInv
  BY NumbersInit
<1>2. NumbersInv /\ [FailoverNext]_allVars => NumbersInv'
  BY NumbersStep
<1>3. NumbersInv => NeverSpins
  BY DEF NumbersInv, Side, NeverSpins
<1> QED
  BY <1>1, <1>2, <1>3, PTL DEF FailoverSpec

(***************************************************************************)
(* The types, of which the queues of the transfer are left to be shown.    *)
(***************************************************************************)
FailoverTypes ==
  /\ NumbersInv /\ QueueTypes
  /\ failed \in BOOLEAN /\ strayed \in BOOLEAN /\ uneven \subseteq Mishaps

(* A packet is put into a queue of path p, ... *)
LEMMA PacketJoins ==
  ASSUME NEW S, NEW f \in [Paths -> Seq(S)], NEW p \in Paths, NEW x \in S
  PROVE  [f EXCEPT ![p] = Append(@, x)] \in [Paths -> Seq(S)]
<1>1. PICK q \in Seq(S) : q = Append(f[p], x)
  BY AppendProperties, Zenon
<1> QED
  BY <1>1

(* ... or taken out. *)
LEMMA PacketParts ==
  ASSUME NEW S, NEW f \in [Paths -> Seq(S)], NEW p \in Paths, f[p] # <<>>
  PROVE  [f EXCEPT ![p] = Tail(@)] \in [Paths -> Seq(S)] /\ Head(f[p]) \in S
<1>1. f[p] \in Seq(S)
  OBVIOUS
<1>2. PICK s \in Seq(S) : s = f[p] /\ s # <<>>
  BY <1>1
<1>3. Head(s) \in S /\ Tail(s) \in Seq(S)
  BY ONLY <1>2, HeadTailProperties
<1>4. PICK q \in Seq(S) : q = Tail(f[p])
  BY <1>2, <1>3
<1>5. [f EXCEPT ![p] = Tail(@)] = [f EXCEPT ![p] = q]
  BY <1>4
<1>6. [f EXCEPT ![p] = q] \in [Paths -> Seq(S)]
  OBVIOUS
<1> QED
  BY <1>2, <1>3, <1>5, <1>6

(* Every step keeps the types of the queues. *)
LEMMA QueuesStep ==
  ASSUME FailoverTypes, FailoverNext
  PROVE  QueueTypes'
<1>1. /\ sq \in [Paths -> Seq(Packets)] /\ wire \in [Paths -> Seq(Packets)] /\ rq \in [Paths -> Seq(Packets)]
      /\ landed \in [Paths -> Seq([packet : Packets, meant : Packets])]
      /\ LastPath \in Paths /\ MaxMsgs \in Nat
  <2>1. QueueTypes
    BY DEF FailoverTypes
  <2>2. LastPath \in Paths /\ MaxMsgs \in Nat
    BY FailoverAssumption, TransferAssumption DEF LastPath, Paths
  <2> QED
    BY <2>1, <2>2 DEF QueueTypes
<1>2. ASSUME UNCHANGED netVars
      PROVE  QueueTypes'
  BY <1>1, <1>2 DEF netVars, QueueTypes
<1>3. CASE ClientPostPacket
  <2>1. /\ Client!PostPacket
        /\ sq' = [sq EXCEPT ![cl_post_turn] = Append(@, Packet(cl_table.sqn - 1, cl_call.i))]
        /\ UNCHANGED <<wire, rq, landed>>
    BY <1>3 DEF ClientPostPacket, ClientPacket
  <2>2. cl_post_turn \in Paths /\ cl_call.i \in Nat /\ cl_table.sqn \in Nat
    BY DEF FailoverTypes, NumbersInv, ClientTyped, Client!TypeOK, Client!Paths, Paths
  <2>3. cl_table.sqn <= MaxMsgs /\ cl_table.sqn > 0
    BY <2>1 DEF FailoverTypes, NumbersInv, ClientTyped, Client!PostPacket
  <2>4. Packet(cl_table.sqn - 1, cl_call.i) \in Packets
    BY <1>1, <2>2, <2>3 DEF Packet, Packets
  <2> QED
    BY <1>1, <2>1, <2>2, <2>4, PacketJoins DEF QueueTypes
<1>4. CASE ServerPostPacket
  <2>1. /\ Server!PostPacket
        /\ rq' = [rq EXCEPT ![sv_post_turn] = Append(@, Packet(sv_table.sqn - 1, sv_call.i))]
        /\ UNCHANGED <<sq, wire, landed>>
    BY <1>4 DEF ServerPostPacket, ServerPacket
  <2>2. sv_post_turn \in Paths /\ sv_call.i \in Nat /\ sv_table.sqn \in Nat
    BY DEF FailoverTypes, NumbersInv, ServerTyped, Server!TypeOK, Server!Paths, Paths
  <2>3. sv_table.sqn <= MaxMsgs /\ sv_table.sqn > 0
    BY <2>1 DEF FailoverTypes, NumbersInv, ServerTyped, Server!PostPacket
  <2>4. Packet(sv_table.sqn - 1, sv_call.i) \in Packets
    BY <1>1, <2>2, <2>3 DEF Packet, Packets
  <2> QED
    BY <1>1, <2>1, <2>2, <2>4, PacketJoins DEF QueueTypes
<1>5. CASE \/ ClientPost \/ ClientCutShort \/ ClientPoll \/ ClientRecovers
           \/ ServerPost \/ ServerCutShort \/ ServerPoll \/ ServerRecovers \/ Timeout
  <2>1. UNCHANGED netVars
    BY <1>5 DEF ClientPost, ClientCutShort, ClientPoll, ClientRecovers,
       ServerPost, ServerCutShort, ServerPoll, ServerRecovers, Timeout
  <2> QED
    BY <1>2, <2>1
<1>6. CASE ReportLeavesClient \/ ReportLeavesServer \/ \E p \in Survivors : ReportArrives(p)
  <2>1. UNCHANGED vars
    BY <1>6 DEF ReportLeavesClient, ReportLeavesServer, ReportArrives
  <2> QED
    BY <1>2, <2>1 DEF vars
<1>7. CASE PathFails
  <2>1. <<>> \in Seq(Packets)
    OBVIOUS
  <2>2. [wire EXCEPT ![LastPath] = <<>>] \in [Paths -> Seq(Packets)]
    BY <1>1, <2>1
  <2>3. wire' = [wire EXCEPT ![LastPath] = <<>>] /\ UNCHANGED <<sq, rq, landed>>
    BY <1>7 DEF PathFails
  <2> QED
    BY <1>1, <2>2, <2>3 DEF QueueTypes
<1>8. CASE LeaveFailed
  <2>1. [sq EXCEPT ![LastPath] = Tail(@)] \in [Paths -> Seq(Packets)]
    BY <1>1, <1>8, PacketParts DEF LeaveFailed
  <2> QED
    BY <1>1, <1>8, <2>1 DEF LeaveFailed, QueueTypes
<1>9. ASSUME NEW p \in Paths, PacketLeaves(p)
      PROVE  QueueTypes'
  <2>1. /\ sq[p] # <<>> /\ sq' = [sq EXCEPT ![p] = Tail(@)]
        /\ wire' = [wire EXCEPT ![p] = Append(@, Head(sq[p]))]
        /\ UNCHANGED <<rq, landed>>
    BY <1>9 DEF PacketLeaves, Leave
  <2>2. sq' \in [Paths -> Seq(Packets)] /\ Head(sq[p]) \in Packets
    BY <1>1, <2>1, PacketParts
  <2>3. wire' \in [Paths -> Seq(Packets)]
    BY <1>1, <2>1, <2>2, PacketJoins
  <2> QED
    BY <1>1, <2>1, <2>2, <2>3 DEF QueueTypes
<1>10. ASSUME NEW p \in Paths, PacketArrives(p)
       PROVE  QueueTypes'
  <2>1. /\ wire[p] # <<>> /\ rq[p] # <<>>
        /\ wire' = [wire EXCEPT ![p] = Tail(@)] /\ rq' = [rq EXCEPT ![p] = Tail(@)]
        /\ landed' = [landed EXCEPT ![p] = Append(@, [packet |-> Head(wire[p]), meant |-> Head(rq[p])])]
        /\ UNCHANGED sq
    BY <1>10 DEF PacketArrives, Arrive, Fill
  <2>2. /\ wire' \in [Paths -> Seq(Packets)] /\ Head(wire[p]) \in Packets
        /\ rq' \in [Paths -> Seq(Packets)] /\ Head(rq[p]) \in Packets
    BY <1>1, <2>1, PacketParts
  <2>3. [packet |-> Head(wire[p]), meant |-> Head(rq[p])] \in [packet : Packets, meant : Packets]
    BY <2>2
  <2>4. landed' \in [Paths -> Seq([packet : Packets, meant : Packets])]
    BY <1>1, <2>1, <2>3, PacketJoins
  <2> QED
    BY <1>1, <2>1, <2>2, <2>4 DEF QueueTypes
<1> QED
  BY <1>3, <1>4, <1>5, <1>6, <1>7, <1>8, <1>9, <1>10 DEF FailoverNext, ClientNext, ServerNext

(* ... and of the history. *)
LEMMA HistoryStep ==
  ASSUME FailoverTypes, FailoverNext
  PROVE  failed' \in BOOLEAN /\ strayed' \in BOOLEAN /\ uneven' \subseteq Mishaps
<1>1. failed \in BOOLEAN /\ strayed \in BOOLEAN /\ uneven \subseteq Mishaps
  BY DEF FailoverTypes
<1>2. CASE ClientNext
  BY <1>1, <1>2 DEF ClientNext, ClientPost, ClientPostPacket, ClientCutShort, ClientPoll, ClientRecovers,
     ClientOnly, repNet, Mishaps
<1>3. CASE ServerNext \/ Timeout
  BY <1>1, <1>3 DEF ServerNext, ServerPost, ServerPostPacket, ServerCutShort, ServerPoll, ServerRecovers,
     Timeout, ServerOnly, repNet, Mishaps
<1>4. CASE PathFails \/ LeaveFailed \/ \E p \in Paths : PacketLeaves(p) \/ PacketArrives(p)
  BY <1>1, <1>4 DEF PathFails, LeaveFailed, PacketLeaves, PacketArrives, repNet
<1>5. CASE ReportLeavesClient \/ ReportLeavesServer \/ \E p \in Survivors : ReportArrives(p)
  BY <1>1, <1>5 DEF ReportLeavesClient, ReportLeavesServer, ReportArrives
<1> QED
  BY <1>2, <1>3, <1>4, <1>5 DEF FailoverNext

(* The recovery of a side is of its type. *)
LEMMA SideTyped ==
  ASSUME NEW r, NEW s, NEW slot, NEW t, NEW limit, Plane(r, s), Reads(r, s), Side(r, slot, t, limit)
  PROVE  /\ r \in [at : {"out", "clear", "told", "polls", "pass", "resend",
                         "rdrain", "sync", "nokey", "crash", "spin"},
                   flag : BOOLEAN, listening : BOOLEAN, got : BOOLEAN,
                   over : BOOLEAN, msg : Report, max : -1 .. TableLen - 1,
                   post : 0 .. TableLen, poll : 0 .. TableLen, i : Nat,
                   iter : Nat, turn : Survivors, out : 0 .. limit, pkt : Nat]
         /\ slot \in [0 .. TableLen - 1 -> [len : Nat, need : Nat]]
         /\ RepTyped(s)
<1>1. r.at \in {"out", "clear", "told", "polls", "pass", "resend", "rdrain", "sync", "nokey", "crash", "spin"}
  BY DEF Plane, PhaseAt, Phase
<1>2. /\ r.flag \in BOOLEAN /\ r.listening \in BOOLEAN /\ r.got \in BOOLEAN /\ r.over \in BOOLEAN
      /\ RecShape(r)
  BY DEF Plane, PhaseAt
<1>3. /\ r.msg \in Report /\ r.max \in -1 .. TableLen - 1 /\ RepTyped(s)
  BY DEF Reads
<1>4. /\ r.post \in 0 .. TableLen /\ r.poll \in 0 .. TableLen /\ r.i \in Nat
      /\ r.iter \in Nat /\ r.turn \in Survivors /\ r.out \in 0 .. limit /\ r.pkt \in Nat
      /\ SlotTyped(slot)
  BY DEF Side, Numbers
<1>5. PICK at, flag, listening, got, over, msg, max, post, poll, i, iter, turn, out, pkt :
        /\ at = r.at /\ flag = r.flag /\ listening = r.listening /\ got = r.got /\ over = r.over
        /\ msg = r.msg /\ max = r.max /\ post = r.post /\ poll = r.poll /\ i = r.i
        /\ iter = r.iter /\ turn = r.turn /\ out = r.out /\ pkt = r.pkt
  OBVIOUS
<1>6. r = [at |-> at, flag |-> flag, listening |-> listening, got |-> got,
           over |-> over, msg |-> msg, max |-> max, post |-> post,
           poll |-> poll, i |-> i, iter |-> iter, turn |-> turn, out |-> out, pkt |-> pkt]
  BY <1>2, <1>5 DEF RecShape
<1>7. /\ at \in {"out", "clear", "told", "polls", "pass", "resend", "rdrain", "sync", "nokey", "crash", "spin"}
      /\ flag \in BOOLEAN /\ listening \in BOOLEAN /\ got \in BOOLEAN /\ over \in BOOLEAN
      /\ msg \in Report /\ max \in -1 .. TableLen - 1
      /\ post \in 0 .. TableLen /\ poll \in 0 .. TableLen /\ i \in Nat
      /\ iter \in Nat /\ turn \in Survivors /\ out \in 0 .. limit /\ pkt \in Nat
  BY ONLY <1>1, <1>2, <1>3, <1>4, <1>5
<1> QED
  BY <1>3, <1>4, <1>6, <1>7 DEF SlotTyped

(***************************************************************************)
(* Every variable keeps its type: no counter of either side, of a transfer *)
(* or of a recovery (mprud.c:731, 805, 1856), ever leaves its range; above *)
(* all, what is outstanding at the report QP is never negative nor more    *)
(* than its limit, and the ends of the range stay in the table.            *)
(***************************************************************************)
THEOREM RecoveryTypes ==
  ASSUME LongPieces, SameCuts
  PROVE  FailoverSpec => []FailoverTypeOK
<1>1. FailoverInit => FailoverTypes
  <2>1. FailoverInit => NumbersInv
    BY NumbersInit
  <2>2. FailoverInit => QueueTypes /\ failed \in BOOLEAN /\ strayed \in BOOLEAN /\ uneven \subseteq Mishaps
    <3>1. <<>> \in Seq(Packets) /\ <<>> \in Seq([packet : Packets, meant : Packets])
      OBVIOUS
    <3>2. ASSUME NEW S, <<>> \in Seq(S)
          PROVE  [p \in Paths |-> <<>>] \in [Paths -> Seq(S)]
      BY <3>2
    <3>3. FailoverInit => /\ sq = [p \in Paths |-> <<>>] /\ wire = [p \in Paths |-> <<>>]
                          /\ rq = [p \in Paths |-> <<>>] /\ landed = [p \in Paths |-> <<>>]
                          /\ failed \in BOOLEAN /\ strayed \in BOOLEAN /\ uneven \subseteq Mishaps
      BY DEF FailoverInit, Init
    <3> QED
      BY <3>1, <3>2, <3>3 DEF QueueTypes
  <2> QED
    BY <2>1, <2>2 DEF FailoverTypes
<1>2. FailoverTypes /\ [FailoverNext]_allVars => FailoverTypes'
  <2> SUFFICES ASSUME FailoverTypes, [FailoverNext]_allVars
               PROVE  FailoverTypes'
    OBVIOUS
  <2>1. NumbersInv'
    BY NumbersStep DEF FailoverTypes
  <2>2. CASE FailoverNext
    BY <2>1, <2>2, QueuesStep, HistoryStep DEF FailoverTypes
  <2>3. CASE UNCHANGED allVars
    <3>1. UNCHANGED netVars /\ UNCHANGED <<failed, strayed, uneven>>
      BY <2>3 DEF allVars, vars, repNet
    <3> QED
      BY <2>1, <3>1 DEF FailoverTypes, QueueTypes, netVars
  <2> QED
    BY <2>2, <2>3
<1>3. FailoverTypes => FailoverTypeOK
  <2> SUFFICES ASSUME FailoverTypes
               PROVE  FailoverTypeOK
    OBVIOUS
  <2>1. Client!TypeOK /\ Server!TypeOK /\ sizes \in [1 .. MaxMsgs -> Sizes]
    BY DEF FailoverTypes, NumbersInv, BlindInv, ClientTyped, ServerTyped
  <2>2. TypeOK
    BY <2>1 DEF FailoverTypes, QueueTypes, TypeOK, Packets
  <2>3. /\ Plane(cl_rec, cl_rep) /\ Reads(cl_rec, cl_rep) /\ Side(cl_rec, cl_slot, cl_table, SendRecMax)
        /\ Plane(sv_rec, sv_rep) /\ Reads(sv_rec, sv_rep) /\ Side(sv_rec, sv_slot, sv_table, RecvRecMax)
    BY DEF FailoverTypes, NumbersInv, BlindInv, ControlInv
  <2>4. ClientRec!RecTypeOK
    BY <2>3, SideTyped DEF ClientRec!RecTypeOK, Report, RepTyped, Items, ClientRec!Slots,
       ClientRec!Survivors, Survivors
  <2>5. ServerRec!RecTypeOK
    BY <2>3, SideTyped DEF ServerRec!RecTypeOK, Report, RepTyped, Items, ServerRec!Slots,
       ServerRec!Survivors, Survivors
  <2> QED
    BY <2>2, <2>4, <2>5 DEF FailoverTypeOK, FailoverTypes
<1> QED
  BY <1>1, <1>2, <1>3, PTL DEF FailoverSpec
=============================================================================

---------------------------- MODULE MprudFailover ----------------------------
(***************************************************************************)
(* A transfer whose last path fails: the client and the server of          *)
(* MprudTransfer, each with its recovery (MprudRecovery), the network with *)
(* a path that loses everything from some moment on, and the report QP.    *)
(*                                                                         *)
(* The sender does not notice: a UD send completes locally, on the failed  *)
(* path too (INTEND_PATH_FAILURE sends the packets back to the sender).    *)
(* The server's timeout is far longer than a packet is on its way or in a  *)
(* CQ, so a failure is detected when nothing of the path is left.          *)
(*                                                                         *)
(* The report QP sends each packet on a path of its own choice, but all    *)
(* its receives are one queue: packets on different paths overtake.        *)
(*                                                                         *)
(* As in a lossless transfer a packet does not arrive before a receive is  *)
(* posted; that is what FailoverSpec assumes of the timing.  Without it a  *)
(* packet of the report QP can be lost: ReportDropped, LossyFailoverSpec.  *)
(***************************************************************************)
EXTENDS MprudTransfer, FiniteSets

CONSTANTS
  SendRecMax,   \* max_outstd of mprud_post_send_recovery
  RecvRecMax    \* max_outstd of mprud_post_recv_recovery

ASSUME FailoverAssumption ==
  /\ SendRecMax \in Nat \ {0}
  /\ RecvRecMax \in Nat \ {0}
  /\ NumPath > 1

VARIABLES
  cl_rec, cl_slot, cl_rep,    \* the client's recovery and report QP
  sv_rec, sv_slot, sv_rep,    \* the server's
  failed,      \* the last path delivers nothing any more
  to_server,   \* the report QP's packets in flight, per path
  to_client,
  strayed,     \* history: a packet resent has filled a receive meant for another
  uneven       \* history: what has taken the sides apart, "posted" or "cut"

clRec == <<cl_rec, cl_slot, cl_rep>>
svRec == <<sv_rec, sv_slot, sv_rep>>
repNet == <<to_server, to_client, strayed>>
allVars == <<vars, clRec, svRec, failed, repNet, uneven>>

ClientRec == INSTANCE MprudRecovery WITH
  active_num <- cl_active, wqe_table <- cl_table, qp_stat <- cl_stat,
  tot <- cl_tot, post_turn <- cl_post_turn, poll_turn <- cl_poll_turn,
  call <- cl_call, cq <- cl_cq, done <- cl_done, cum <- cl_cum,
  MaxOutstd <- SendMax, Depth <- TxDepth, PollIdle <- FALSE,
  rec <- cl_rec, slot <- cl_slot, rep <- cl_rep,
  IsServer <- FALSE, RecMax <- SendRecMax

ServerRec == INSTANCE MprudRecovery WITH
  active_num <- sv_active, wqe_table <- sv_table, qp_stat <- sv_stat,
  tot <- sv_tot, post_turn <- sv_post_turn, poll_turn <- sv_poll_turn,
  call <- sv_call, cq <- sv_cq, done <- sv_done, cum <- sv_cum,
  MaxOutstd <- RecvMax, Depth <- RxDepth, PollIdle <- FALSE,
  rec <- sv_rec, slot <- sv_slot, rep <- sv_rep,
  IsServer <- TRUE, RecMax <- RecvRecMax

LastPath == NumPath - 1
Survivors == 0 .. NumPath - 2

FailoverInit ==
  /\ Init
  /\ ClientRec!RecInit
  /\ ServerRec!RecInit
  /\ failed = FALSE
  /\ to_server = [p \in Survivors |-> <<>>]
  /\ to_client = [p \in Survivors |-> <<>>]
  /\ strayed = FALSE
  /\ uneven = {}

-----------------------------------------------------------------------------
(***************************************************************************)
(* The client and the server.  A message posted during a recovery is split *)
(* over the old number of paths and may be in no range, and a posting call *)
(* that is cut short never posts the rest of its message: uneven tells     *)
(* whether either has happened.                                            *)
(***************************************************************************)

Mishaps == {"posted", "cut"}

ClientOnly == UNCHANGED <<svVars, svRec, sizes, failed, repNet>>

ClientPost ==
  /\ cl_table.sqn < MaxMsgs
  /\ ClientRec!PostMessage(sizes[cl_table.sqn + 1])
  /\ uneven' = IF cl_rec.flag THEN uneven \cup {"posted"} ELSE uneven
  /\ ClientOnly /\ UNCHANGED netVars

ClientPostPacket ==
  /\ cl_rec.at = "out"
  /\ ClientPacket
  /\ ClientOnly /\ UNCHANGED <<clRec, uneven>>

ClientCutShort ==
  /\ ClientRec!CutShort
  /\ uneven' = uneven \cup {"cut"}
  /\ ClientOnly /\ UNCHANGED netVars

ClientPoll ==
  /\ ClientRec!PlainPoll
  /\ ClientOnly /\ UNCHANGED <<netVars, uneven>>

ClientRecovers ==
  /\ ClientRec!RecoveryStep
  /\ ClientOnly /\ UNCHANGED <<netVars, uneven>>

ServerOnly == UNCHANGED <<clVars, clRec, sizes, repNet>>

ServerPost ==
  /\ sv_table.sqn < MaxMsgs
  /\ ServerRec!PostMessage(sizes[sv_table.sqn + 1])
  /\ uneven' = IF sv_rec.flag THEN uneven \cup {"posted"} ELSE uneven
  /\ ServerOnly /\ UNCHANGED <<netVars, failed>>

ServerPostPacket ==
  /\ sv_rec.at = "out"
  /\ ServerPacket
  /\ ServerOnly /\ UNCHANGED <<svRec, uneven, failed>>

ServerCutShort ==
  /\ ServerRec!CutShort
  /\ uneven' = uneven \cup {"cut"}
  /\ ServerOnly /\ UNCHANGED <<netVars, failed>>

ServerPoll ==
  /\ ServerRec!PlainPoll
  /\ ServerOnly /\ UNCHANGED <<netVars, uneven, failed>>

ServerRecovers ==
  /\ ServerRec!RecoveryStep
  /\ ServerOnly /\ UNCHANGED <<netVars, uneven, failed>>

(* Nothing has come from the failed path for longer than the timeout.       *)
Timeout ==
  /\ failed
  /\ sv_cq[LastPath] = 0
  /\ ServerRec!Detect
  /\ ServerOnly /\ UNCHANGED <<netVars, uneven, failed>>

-----------------------------------------------------------------------------
(***************************************************************************)
(* The cards and the network.                                              *)
(***************************************************************************)

PathFails ==
  /\ ~failed
  /\ failed' = TRUE
  /\ wire' = [wire EXCEPT ![LastPath] = <<>>]
  /\ UNCHANGED <<clVars, svVars, clRec, svRec, sizes, sq, rq, landed, repNet, uneven>>

(* A packet that leaves on the failed path completes and is gone.           *)
LeaveFailed ==
  /\ failed
  /\ sq[LastPath] # <<>>
  /\ Client!NicComplete(LastPath)
  /\ sq' = [sq EXCEPT ![LastPath] = Tail(@)]
  /\ UNCHANGED <<svVars, clRec, svRec, sizes, wire, rq, landed, failed, repNet, uneven>>

PacketLeaves(p) ==
  /\ ~(failed /\ p = LastPath)
  /\ Leave(p)
  /\ UNCHANGED <<clRec, svRec, failed, repNet, uneven>>

PacketArrives(p) ==
  /\ Arrive(p)
  /\ UNCHANGED <<clRec, svRec, failed, repNet, uneven>>

(* The report QP of one side sends its oldest work request. *)
Sent(rep) == [rep EXCEPT !.sq = Tail(@), !.scq = @ + 1]
InFlight(net, item) == [net EXCEPT ![item.path] = Append(@, item)]

ReportLeavesClient ==
  /\ cl_rep.sq # <<>>
  /\ cl_rep' = Sent(cl_rep)
  /\ to_server' = InFlight(to_server, Head(cl_rep.sq))
  /\ UNCHANGED <<vars, cl_rec, cl_slot, svRec, failed, to_client, strayed, uneven>>

ReportLeavesServer ==
  /\ sv_rep.sq # <<>>
  /\ sv_rep' = Sent(sv_rep)
  /\ to_client' = InFlight(to_client, Head(sv_rep.sq))
  /\ UNCHANGED <<vars, clRec, sv_rec, sv_slot, failed, to_server, strayed, uneven>>

(* It arrives in the oldest receive of the other side's report QP; control  *)
(* messages share one buffer.                                               *)
Filled(rep, item) ==
  [rep EXCEPT !.rq = Tail(@), !.rcq = @ + 1,
              !.buf = IF item.kind = "data" THEN @ ELSE item.body]

(* The packet is what the receive was posted for.  A resent packet is the   *)
(* same piece of the same WQE only if both sides cut that WQE alike.        *)
Meant(rep, item) ==
  LET for == Head(rep.rq)
  IN  /\ item.kind = for.kind
      /\ item.kind = "data" => /\ item.body = for.body
                               /\ cl_slot[item.body.k].len = sv_slot[item.body.k].len

ReportArrives(p) ==
  \/ /\ to_server[p] # <<>> /\ sv_rep.rq # <<>>
     /\ sv_rep' = Filled(sv_rep, Head(to_server[p]))
     /\ strayed' = (strayed \/ ~Meant(sv_rep, Head(to_server[p])))
     /\ to_server' = [to_server EXCEPT ![p] = Tail(@)]
     /\ UNCHANGED <<to_client, cl_rep>>
     /\ UNCHANGED <<vars, cl_rec, cl_slot, sv_rec, sv_slot, failed, uneven>>
  \/ /\ to_client[p] # <<>> /\ cl_rep.rq # <<>>
     /\ cl_rep' = Filled(cl_rep, Head(to_client[p]))
     /\ strayed' = (strayed \/ ~Meant(cl_rep, Head(to_client[p])))
     /\ to_client' = [to_client EXCEPT ![p] = Tail(@)]
     /\ UNCHANGED <<to_server, sv_rep>>
     /\ UNCHANGED <<vars, cl_rec, cl_slot, sv_rec, sv_slot, failed, uneven>>

(* A report QP with no receive posted drops what arrives.                   *)
ReportDropped(p) ==
  /\ \/ /\ to_server[p] # <<>> /\ sv_rep.rq = <<>>
        /\ to_server' = [to_server EXCEPT ![p] = Tail(@)]
        /\ UNCHANGED to_client
     \/ /\ to_client[p] # <<>> /\ cl_rep.rq = <<>>
        /\ to_client' = [to_client EXCEPT ![p] = Tail(@)]
        /\ UNCHANGED to_server
  /\ UNCHANGED <<vars, clRec, svRec, failed, strayed, uneven>>

ClientNext == \/ ClientPost \/ ClientPostPacket \/ ClientCutShort
              \/ ClientPoll \/ ClientRecovers

ServerNext == \/ ServerPost \/ ServerPostPacket \/ ServerCutShort
              \/ ServerPoll \/ ServerRecovers

FailoverNext ==
  \/ ClientNext \/ ServerNext \/ Timeout
  \/ PathFails \/ LeaveFailed
  \/ ReportLeavesClient \/ ReportLeavesServer
  \/ \E p \in Paths : PacketLeaves(p) \/ PacketArrives(p)
  \/ \E p \in Survivors : ReportArrives(p)

(* As in a lossless transfer; the server's clock runs, so a timeout that    *)
(* stays due is seen by one of its polls.                                   *)
FailoverFairness ==
  /\ WF_allVars(ClientNext)
  /\ WF_allVars(ServerNext)
  /\ WF_allVars(Timeout)
  /\ WF_allVars(LeaveFailed)
  /\ WF_allVars(ReportLeavesClient)
  /\ WF_allVars(ReportLeavesServer)
  /\ \A p \in Paths : WF_allVars(PacketLeaves(p)) /\ WF_allVars(PacketArrives(p))
  /\ \A p \in Survivors : WF_allVars(ReportArrives(p))

FailoverSpec == FailoverInit /\ [][FailoverNext]_allVars

FairFailoverSpec == FailoverSpec /\ FailoverFairness

(* The same without the assumption on the timing of the report QP.          *)
LossyFailoverSpec ==
  /\ FailoverInit
  /\ [][FailoverNext \/ \E p \in Survivors : ReportDropped(p)]_allVars
  /\ FailoverFairness

-----------------------------------------------------------------------------
(***************************************************************************)
(* Properties.                                                             *)
(***************************************************************************)

FailoverTypeOK ==
  /\ TypeOK
  /\ ClientRec!RecTypeOK
  /\ ServerRec!RecTypeOK
  /\ failed \in BOOLEAN
  /\ strayed \in BOOLEAN
  /\ uneven \subseteq Mishaps

(* Both sides recover the same WQEs: once the server has the client's       *)
(* acknowledgement and the client has taken it as sent, they agree on the   *)
(* first and the last, whichever of them had posted more.                   *)
RangesAgree ==
  sv_rec.got /\ cl_rec.at \notin {"clear", "told"} =>
    cl_rec.max = sv_rec.max /\ cl_rec.msg.loss = sv_rec.msg.loss

(* mprud_recovery_poll never compares with the comp_need of a WQE that was  *)
(* not resent yet, which is 0 and would keep it in its loop.                *)
NeverSpins == "spin" \notin {cl_rec.at, sv_rec.at}

(* The client never resends from a slot it has not used: the server, which  *)
(* may have posted more, does not report before the client has caught up.   *)
NeverBlind == cl_rec.at # "crash"

(* Receives of the server that wait for a packet of a message below n.      *)
Unfilled(n) ==
  LET paths == IF sv_rec.flag \/ sv_rec.over THEN Survivors ELSE Paths
  IN  UNION {{<<p, j>> : j \in {x \in 1 .. Len(rq[p]) : rq[p][x].msg < n}} : p \in paths}
        \cup {<<"report", j>> : j \in {x \in 1 .. Len(sv_rep.rq) :
                                        sv_rep.rq[x].kind = "data"
                                          /\ sv_rep.rq[x].body.k < n}}

(* A WQE that is recovered no longer needs its packets on the failed path,  *)
(* but those that had come stay counted there: what is used up of them is   *)
(* what later messages were reported with instead of their own packets.     *)
Borrowed ==
  LET come == sv_rec.msg.completed
      left == sv_stat[LastPath].polled
  IN  IF left < come THEN come - left ELSE 0

(* Nothing is reported to the server's application before it is there, but  *)
(* in a recovery: then as many packets may be missing as were borrowed, and *)
(* one more, since the recovery's polls may take the completion of the      *)
(* acknowledgement for a packet's, once.                                    *)
EarlyIsBounded ==
  Cardinality(Unfilled(sv_done)) <= IF sv_rec.flag THEN 1 + Borrowed ELSE 0

(* With one path left the books are straight again at the end of the        *)
(* server's recovery: everything reported is there, and nothing of the      *)
(* recovery is still to come, whatever was posted or cut short meanwhile.   *)
(* With more, a packet that overtakes the acknowledgement spoils the range. *)
RecoveredInFull ==
  NumPath = 2 /\ sv_rec.over =>
    /\ Unfilled(sv_done) = {}
    /\ sv_rep.rq = <<>>
    /\ \A p \in Survivors : to_server[p] = <<>>

(* A message was posted during a recovery: it is split over the old number  *)
(* of paths, on one side perhaps (SameSplit), and may be in no range.       *)
PostedMeanwhile == "posted" \in uneven

(* A posting call found active_num changed and reported success with the    *)
(* rest of its message not posted (mprud.c:1478, 1620).                     *)
CallCut == "cut" \in uneven

(* With one path left every packet, first sent or resent, before and after  *)
(* the recovery, fills the receive that was posted for it, wherever in      *)
(* their messages the two sides were when the path failed: unless a message *)
(* was posted during a recovery or a posting call was cut short.  With more *)
(* paths left packets that are resent overtake, see ResentInOrder.          *)
InPlace == NumPath = 2 /\ ~PostedMeanwhile /\ ~CallCut => ~strayed /\ SamePacket

(* "Each QP will take responsibility of each portion of memory so that the  *)
(* packet sequence of each portion at least can be in order": whichever     *)
(* resent packet arrives next at the report QP of the server is the one     *)
(* that the receive at the front of its queue was posted for.  It is not    *)
(* with two paths left: packets are resent on them in turn (mprud.c:1095),  *)
(* but the receives are those of one queue pair (mprud.c:709).              *)
ResentInOrder ==
  ~PostedMeanwhile /\ ~CallCut =>
    \A p \in Survivors :
      to_server[p] # <<>> /\ sv_rep.rq # <<>> =>
        LET item == Head(to_server[p])
        IN  item.kind = "data" /\ Head(sv_rep.rq).kind = "data" => Meant(sv_rep, item)

(* "Wait for Server", "Notice client that server is done": a client that    *)
(* waits at the end of its recovery goes on when the server's is over.  It  *)
(* does not when the server's message came before the receive for it was    *)
(* posted (mprud.c:755): the card drops it, and it is sent once only.       *)
ClientGoesOn == cl_rec.at = "sync" /\ sv_rec.over ~> cl_rec.at # "sync"

(* A side that has finished its recovery gives the failed path nothing      *)
(* more, in whatever call the recovery took place.                          *)
DeadPathLeftAlone ==
  [][/\ cl_rec.over => cl_stat'[LastPath].posted = cl_stat[LastPath].posted
     /\ sv_rec.over => sv_stat'[LastPath].posted = sv_stat[LastPath].posted]_allVars

(* "post_turn = 0;  important! must sync post_turn so that MPRUD on both    *)
(* sides can use the SAME QP": both sides cut every message over the same   *)
(* paths.                                                                   *)
SameSplit ==
  \A m \in 1 .. MaxMsgs + 1 :
    m <= Len(cl_cum) /\ m <= Len(sv_cum) => cl_cum[m] = sv_cum[m]

(* "pretend that failed QP has been flushed, and move on": after the        *)
(* recovery the client counts as outstanding what the paths it still polls  *)
(* will complete, and nothing of the failed one.                            *)
ClientFlushed ==
  cl_rec.over =>
    Client!Outstanding(cl_tot) =
      SumFunction([p \in 0 .. cl_active - 1 |-> cl_stat[p].qlen])

(* The client's program is past its last poll, which it may be when all its *)
(* sends are complete on its own side, and the server recovers alone.       *)
ClientGone == cl_done = MaxMsgs /\ ~cl_rec.over /\ sv_rec.flag

(* Packets that count as outstanding although their path is polled no more. *)
Stranded == cl_rec.over /\ ~ClientFlushed

(* The server's process ended in its recovery: it resent from a slot of the *)
(* table that it had never used, a null pointer, because the client had     *)
(* posted more ("this has been working", mprud.c:907), or it took the key   *)
(* of its report from wqe[-1] (mprud.c:1141).                               *)
ServerDied == sv_rec.at \in {"crash", "nokey"}

(* The failure of a path ends nothing: the server gets every message.  Five *)
(* things can keep it from that, all of them in the code.  The client has   *)
(* left in the middle of the recovery (ClientGone); its posting loop waits  *)
(* for completions that it polls no longer (Stranded); the server's process *)
(* has ended (ServerDied); a message was posted during a recovery, which    *)
(* the sides may then split differently or not recover (PostedMeanwhile);   *)
(* a posting call gave up the rest of its message (CallCut).                *)
ServerGetsAll ==
  <>(sv_done = MaxMsgs \/ ClientGone \/ Stranded \/ ServerDied
                       \/ PostedMeanwhile \/ CallCut)
=============================================================================

---------------------------- MODULE MprudRecovery ----------------------------
(***************************************************************************)
(* One endpoint of an MPRUD connection that recovers from the failure of   *)
(* its last path: mprud_poll_cq_server or mprud_poll_cq_client with the    *)
(* path monitor, the report, the resending of what the failed path carried *)
(* over the report QP, and the end of the recovery, which takes the path   *)
(* out of active_num under whatever posting loop called the poll.          *)
(*                                                                         *)
(* mprud.c deals with the failure of the last path only (README.md:30 of   *)
(* libibverbs) and, with MAKE_ONE_FAILURE_ONLY, monitors for one failure.  *)
(*                                                                         *)
(* A poll during a recovery is a loop that only returns to report a        *)
(* message, or when the recovery is over.  rec.at says where the endpoint  *)
(* is in it, "out" when it is not in a poll or in one without recovery.    *)
(* The timers are abstracted: a pass of the loop in which the 30 us cycle  *)
(* has not elapsed is a pass that takes no step here.                      *)
(***************************************************************************)
EXTENDS MprudEndpoint

CONSTANTS
  IsServer,  \* TRUE in the process that receives, FALSE in the one that sends
  RecMax     \* max_outstd of the recovery loops: recv_size / 2 or send_size

VARIABLES
  rec,    \* mp_manager and the recovery counters of mpctx
  slot,   \* per slot of wqe_table: the length in its sg_list, and comp_need
  rep     \* the report QP: queues, completions, and the control receive buffer

recVars == <<rec, slot, rep>>

Err == NumPath - 1            \* the failed path: msg.errqpn
Survivors == 0 .. NumPath - 2

NoReport == [loss |-> 0, max |-> 0, completed |-> 0]

(* A work request of the report QP: control messages, and packets resent.   *)
Item(kind, path, body) == [kind |-> kind, path |-> path, body |-> body]

RecInit ==
  /\ rec = [at |-> "out", flag |-> FALSE, listening |-> FALSE, got |-> FALSE,
            over |-> FALSE, msg |-> NoReport, max |-> 0, post |-> 0, poll |-> 0,
            i |-> 0, iter |-> 0, turn |-> 0, out |-> 0, pkt |-> 0]
  /\ slot = [k \in Slots |-> [len |-> 0, need |-> 0]]
  /\ rep = [sq |-> <<>>, scq |-> 0, rq |-> <<>>, rcq |-> 0, buf |-> NoReport]

-----------------------------------------------------------------------------
(***************************************************************************)
(* The application's calls, and the polls without recovery.                *)
(***************************************************************************)

(* The program enters mprud_poll_cq, for the application or from a posting  *)
(* loop that waits for room.                                                *)
Polls == rec.at = "out" /\ (AppPolls \/ call.pc = "drain")

(* A message is posted; its slot keeps a copy of the scatter list.          *)
PostMessage(size) ==
  /\ rec.at = "out"
  /\ Post(size)
  /\ slot' = [slot EXCEPT ![wqe_table.next].len = size]
  /\ UNCHANGED <<rec, rep>>

(* The posting loop finds active_num changed and gives the message up.      *)
CutShort ==
  /\ rec.at = "out"
  /\ call.pc = "post"
  /\ active_num # call.active
  /\ call' = [call EXCEPT !.pc = "idle"]
  /\ post_turn' = 0
  /\ UNCHANGED <<active_num, wqe_table, qp_stat, tot, poll_turn, cq, done, cum,
                 recVars>>

(* A poll outside recovery.  The first one starts the monitor; on the       *)
(* client it posts the receive for the report, and the later ones look for  *)
(* the report first.                                                        *)
PlainPoll ==
  /\ Polls /\ ~rec.flag
  /\ IsServer \/ ~rec.listening \/ rep.rcq = 0
  /\ DrainPoll \/ PollComplete \/ PollProgress
  /\ rec' = [rec EXCEPT !.listening = @ \/ ~(IsServer /\ rec.over)]
  /\ rep' = IF IsServer \/ rec.listening THEN rep
            ELSE [rep EXCEPT !.rq = Append(@, Item("report", 0, NoReport))]
  /\ UNCHANGED slot

-----------------------------------------------------------------------------
(***************************************************************************)
(* The start of a recovery.                                                *)
(***************************************************************************)

(* mprud_monitor_path on the server: the failed path is past its timeout.   *)
Detect ==
  /\ IsServer
  /\ Polls /\ ~rec.flag /\ ~rec.over /\ rec.listening
  /\ rec' = [rec EXCEPT !.at = "clear", !.flag = TRUE]
  /\ UNCHANGED <<vars, slot, rep>>

(* mprud_wait_report_msg on the client: the report is here.                 *)
TakeReport ==
  /\ ~IsServer
  /\ Polls /\ ~rec.flag /\ rec.listening
  /\ rep.rcq > 0
  /\ rep' = [rep EXCEPT !.rcq = @ - 1]
  /\ rec' = [rec EXCEPT !.at = "clear", !.flag = TRUE, !.msg = rep.buf]
  /\ UNCHANGED <<vars, slot>>

(* Mutant of Clear: the queues of the other paths are polled once only. *)
Clear_Once ==
  /\ rec.at = "clear"
  /\ InnerPoll
  /\ IF IsServer /\ wqe_table.next = 0
       THEN rec' = [rec EXCEPT !.at = "nokey"] /\ UNCHANGED rep
       ELSE LET msg == [loss |-> qp_stat'[Err].wqe_idx,
                        max |-> wqe_table.next - 1,
                        completed |-> qp_stat'[Err].comp_temp]
            IN  /\ rec' = [rec EXCEPT !.at = "told",
                                      !.msg = IF IsServer THEN msg ELSE @]
                /\ rep' = [rep EXCEPT !.sq = Append(@,
                             Item(IF IsServer THEN "report" ELSE "ack", 0, msg))]
  /\ UNCHANGED <<active_num, wqe_table, post_turn, call, done, cum, slot>>

(* The paths are polled until the queues of the others are empty.  Then the *)
(* server reports the WQE the failed path is at, the packets of it that are *)
(* complete and its last WQE; the client acknowledges with its last WQE.    *)
(* The server takes the memory key of the report from wqe[max_posted]: when *)
(* the table has just wrapped that is -1, as an unsigned index far outside  *)
(* the table, and the process ends there.                                   *)
Clear ==
  /\ rec.at = "clear"
  /\ InnerPoll
  /\ IF \E p \in Survivors : qp_stat'[p].qlen > 0
       THEN UNCHANGED <<rec, rep>>
     ELSE IF IsServer /\ wqe_table.next = 0
       THEN rec' = [rec EXCEPT !.at = "nokey"] /\ UNCHANGED rep
     ELSE LET msg == [loss |-> qp_stat'[Err].wqe_idx,
                      max |-> wqe_table.next - 1,
                      completed |-> qp_stat'[Err].comp_temp]
          IN  /\ rec' = [rec EXCEPT !.at = "told",
                                    !.msg = IF IsServer THEN msg ELSE @]
              /\ rep' = [rep EXCEPT !.sq = Append(@,
                           Item(IF IsServer THEN "report" ELSE "ack", 0, msg))]
  /\ UNCHANGED <<active_num, wqe_table, post_turn, call, done, cum, slot>>

(* The indices a report carries are unsigned: -1 is above every slot.       *)
Above(x, y) == (IF x < 0 THEN TableLen ELSE x) > (IF y < 0 THEN TableLen ELSE y)

(* Mutant of LastOf: each side recovers up to its own last WQE. *)
LastOf_Own(mine, theirs) == mine

(* Both sides recover up to the last WQE that either has posted.            *)
LastOf(mine, theirs) == IF Above(theirs, mine) THEN theirs ELSE mine

(* The control message is away.  The server posts the receive for the       *)
(* acknowledgement; both set the range of WQEs to recover, the server for   *)
(* now with its own last one.                                               *)
Told ==
  /\ rec.at = "told"
  /\ rep.scq > 0
  /\ rep' = [rep EXCEPT !.scq = @ - 1,
                        !.rq = IF IsServer THEN Append(@, Item("ack", 0, NoReport))
                                           ELSE @]
  /\ rec' = [rec EXCEPT
       !.at = "polls", !.post = rec.msg.loss, !.poll = rec.msg.loss,
       !.max = IF IsServer THEN wqe_table.next - 1
                           ELSE LastOf(wqe_table.next - 1, rec.msg.max)]
  /\ UNCHANGED <<vars, slot>>

-----------------------------------------------------------------------------
(***************************************************************************)
(* Completions of the report QP.                                           *)
(***************************************************************************)

(* mprud_recovery_poll takes what completion it finds on its side.          *)
Completed == IF IsServer THEN rep.rcq > 0 ELSE rep.scq > 0

(* Mutant of CountPacket: the packets of a WQE are counted from one. *)
CountPacket_FromOne(r) ==
  LET need == slot[r.poll].need
      pkt  == r.pkt + 2
  IN  IF need = 0 THEN [r EXCEPT !.at = "spin", !.out = @ - 1]
      ELSE [r EXCEPT !.out = @ - 1, !.pkt = IF pkt >= need THEN 0 ELSE pkt - 1,
                     !.poll = @ + pkt \div need]

(* One more packet is complete: the WQE it belongs to may be recovered. The *)
(* loop that subtracts comp_need never ends when that is 0.                 *)
CountPacket(r) ==
  LET need == slot[r.poll].need
      pkt  == r.pkt + 1
  IN  IF need = 0 THEN [r EXCEPT !.at = "spin", !.out = @ - 1]
      ELSE [r EXCEPT !.out = @ - 1, !.pkt = pkt % need, !.poll = @ + pkt \div need]

(* mprud_recovery_poll finds a completion to count. *)
RecoveryTakes == rec.out > 0 /\ Completed

Counted(r) == IF RecoveryTakes THEN CountPacket(r) ELSE r

(* mprud_recovery_poll, in a step whose outcome is r.                       *)
RecoveryPoll(r) ==
  /\ rec' = r
  /\ IF RecoveryTakes
       THEN /\ rep' = IF IsServer THEN [rep EXCEPT !.rcq = @ - 1]
                                  ELSE [rep EXCEPT !.scq = @ - 1]
            /\ wqe_table' = IF IsServer /\ r.poll > rec.poll
                              THEN [wqe_table EXCEPT
                                      !.wqe[rec.poll].iter_each[Err] = 0]
                              ELSE wqe_table
       ELSE UNCHANGED <<rep, wqe_table>>

-----------------------------------------------------------------------------
(***************************************************************************)
(* A pass of the loop: first mprud_recovery_server / mprud_recovery_client.*)
(***************************************************************************)

InPass == rec.flag /\ (rec.at = "pass" \/ Polls)

(* The server looks for the acknowledgement in the receive completions.     *)
AckHere == IsServer /\ ~rec.got /\ rep.rcq > 0

Acked ==
  IF AckHere THEN [rec EXCEPT !.got = TRUE,
                              !.max = LastOf(@, rep.buf.max)]
             ELSE rec

Read == IF AckHere THEN [rep EXCEPT !.rcq = @ - 1] ELSE rep

(* Mutant of Finished: the acknowledgement is not waited for. *)
Finished_NoAck == Acked.poll > Acked.max

Finished == Acked.poll > Acked.max /\ (IsServer => Acked.got)

(* Mutant of Finish: active_num is not reduced. *)
Finish_AllPaths ==
  /\ InPass
  /\ Finished
  /\ rec' = [Acked EXCEPT !.at = "sync", !.flag = FALSE, !.listening = FALSE,
                          !.over = TRUE]
  /\ tot' = IF IsServer THEN [tot EXCEPT !.polled = tot.posted] ELSE tot
  /\ rep' = IF IsServer
              THEN [Read EXCEPT !.sq = Append(@, Item("done", 0, NoReport))]
              ELSE [Read EXCEPT !.rq = Append(@, Item("done", 0, NoReport))]
  /\ UNCHANGED <<active_num, wqe_table, qp_stat, post_turn, poll_turn, call, cq,
                 done, cum, slot>>

(* Mutant of Finish: only the client takes the path out. *)
Finish_ClientOnly ==
  /\ InPass
  /\ Finished
  /\ rec' = [Acked EXCEPT !.at = "sync", !.flag = FALSE, !.listening = FALSE,
                          !.over = TRUE]
  /\ active_num' = IF IsServer THEN active_num ELSE active_num - 1
  /\ tot' = IF IsServer THEN [tot EXCEPT !.polled = tot.posted] ELSE tot
  /\ rep' = IF IsServer
              THEN [Read EXCEPT !.sq = Append(@, Item("done", 0, NoReport))]
              ELSE [Read EXCEPT !.rq = Append(@, Item("done", 0, NoReport))]
  /\ UNCHANGED <<wqe_table, qp_stat, post_turn, poll_turn, call, cq, done, cum,
                 slot>>

(* Mutant of Finish: the server does not say that it is done. *)
Finish_Silent ==
  /\ InPass
  /\ Finished
  /\ rec' = [Acked EXCEPT !.at = IF IsServer THEN "polls" ELSE "sync",
                          !.flag = FALSE, !.listening = FALSE, !.over = TRUE]
  /\ active_num' = active_num - 1
  /\ tot' = IF IsServer THEN [tot EXCEPT !.polled = tot.posted] ELSE tot
  /\ rep' = IF IsServer THEN Read
              ELSE [Read EXCEPT !.rq = Append(@, Item("done", 0, NoReport))]
  /\ UNCHANGED <<wqe_table, qp_stat, post_turn, poll_turn, call, cq, done, cum,
                 slot>>

(* Every WQE of the range is recovered: the path is taken out, what is      *)
(* outstanding is taken for complete, and the sides wait for each other.    *)
Finish ==
  /\ InPass
  /\ Finished
  /\ rec' = [Acked EXCEPT !.at = "sync", !.flag = FALSE, !.listening = FALSE,
                          !.over = TRUE]
  /\ active_num' = active_num - 1
  /\ tot' = IF IsServer THEN [tot EXCEPT !.polled = tot.posted] ELSE tot
  /\ rep' = IF IsServer
              THEN [Read EXCEPT !.sq = Append(@, Item("done", 0, NoReport))]
              ELSE [Read EXCEPT !.rq = Append(@, Item("done", 0, NoReport))]
  /\ UNCHANGED <<wqe_table, qp_stat, post_turn, poll_turn, call, cq, done, cum,
                 slot>>

(* The server's note of its end has left, or the client has it.             *)
Sync ==
  /\ rec.at = "sync"
  /\ IF IsServer THEN rep.scq > 0 /\ rep' = [rep EXCEPT !.scq = @ - 1]
                 ELSE rep.rcq > 0 /\ rep' = [rep EXCEPT !.rcq = @ - 1]
  /\ rec' = [rec EXCEPT !.at = "polls"]
  /\ UNCHANGED <<vars, slot>>

(* Everything is resent, not everything complete. *)
AllResent ==
  /\ InPass
  /\ ~Finished
  /\ Acked.post > Acked.max
  /\ rec' = [Acked EXCEPT !.at = "polls"]
  /\ rep' = Read
  /\ UNCHANGED <<vars, slot>>

(* The part of WQE k that the failed path still owes: its chunk, less what  *)
(* was complete of the first one.                                           *)
Portion(k) ==
  LET chunk == slot[k].len \div active_num
  IN  IF k = rec.msg.loss
        THEN chunk - (chunk \div wqe_table.wqe[k].iter_each[Err]) * rec.msg.completed
        ELSE chunk

(* Mutant of StartResend: comp_need keeps the value of the slot's last use. *)
StartResend_OldNeed ==
  /\ InPass
  /\ ~Finished
  /\ Acked.post <= Acked.max
  /\ LET k == Acked.post
     IN  IF slot[k].len = 0
           THEN rec' = [Acked EXCEPT !.at = "crash"] /\ UNCHANGED slot
           ELSE LET len  == Portion(k)
                    iter == Iter(len, active_num - 1)
                IN  /\ slot' = [slot EXCEPT ![k].len = len]
                    /\ rec' = [Acked EXCEPT
                         !.i = 0, !.iter = iter, !.turn = @ % (active_num - 1),
                         !.at = IF iter = 0 THEN "polls" ELSE "resend",
                         !.post = IF iter = 0 THEN @ + 1 ELSE @]
  /\ rep' = Read
  /\ UNCHANGED vars

(* The next WQE is resent, cut like a message over the surviving paths. The *)
(* scatter list of a slot that was never used is a null pointer.            *)
StartResend ==
  /\ InPass
  /\ ~Finished
  /\ Acked.post <= Acked.max
  /\ LET k == Acked.post
     IN  IF slot[k].len = 0
           THEN rec' = [Acked EXCEPT !.at = "crash"] /\ UNCHANGED slot
           ELSE LET len  == Portion(k)
                    iter == Iter(len, active_num - 1)
                IN  /\ slot' = [slot EXCEPT ![k] = [len |-> len, need |-> iter]]
                    /\ rec' = [Acked EXCEPT
                         !.i = 0, !.iter = iter, !.turn = @ % (active_num - 1),
                         !.at = IF iter = 0 THEN "polls" ELSE "resend",
                         !.post = IF iter = 0 THEN @ + 1 ELSE @]
  /\ rep' = Read
  /\ UNCHANGED vars

(* Mutant of NextResend: the loop posts one more before it polls. *)
NextResend_OneMore(r) ==
  IF r.at = "spin" \/ r.out > RecMax THEN r
  ELSE LET last == r.i + 1 = r.iter
       IN  [r EXCEPT !.at = IF last THEN "polls" ELSE "resend",
                     !.post = IF last THEN @ + 1 ELSE @,
                     !.i = @ + 1,
                     !.turn = (@ + 1) % (active_num - 1)]

(* The end of an iteration of the resending loop. *)
NextResend(r) ==
  IF r.at = "spin" \/ r.out >= RecMax THEN r
  ELSE LET last == r.i + 1 = r.iter
       IN  [r EXCEPT !.at = IF last THEN "polls" ELSE "resend",
                     !.post = IF last THEN @ + 1 ELSE @,
                     !.i = @ + 1,
                     !.turn = (@ + 1) % (active_num - 1)]

(* A packet, or the receive for it, goes to the report QP; with RecMax      *)
(* outstanding the loop polls before it goes on.                            *)
ResendPacket ==
  /\ rec.at = "resend"
  /\ LET packet == Item("data", rec.turn, [k |-> rec.post, i |-> rec.i])
     IN  rep' = IF IsServer THEN [rep EXCEPT !.rq = Append(@, packet)]
                            ELSE [rep EXCEPT !.sq = Append(@, packet)]
  /\ rec' = NextResend([rec EXCEPT !.at = "rdrain", !.out = @ + 1])
  /\ UNCHANGED <<vars, slot>>

ResendDrain ==
  /\ rec.at = "rdrain"
  /\ RecoveryPoll(NextResend(Counted(rec)))
  /\ UNCHANGED <<active_num, qp_stat, tot, post_turn, poll_turn, call, cq, done,
                 cum, slot>>

-----------------------------------------------------------------------------
(***************************************************************************)
(* The rest of a pass: the outer poll, unless a posting loop polls, then   *)
(* the inner poll and, during the recovery, mprud_recovery_poll.           *)
(***************************************************************************)

PassReports ==
  /\ rec.at = "polls"
  /\ PollComplete
  /\ rec' = [rec EXCEPT !.at = "out"]
  /\ UNCHANGED <<slot, rep>>

PassPolls ==
  /\ rec.at = "polls"
  /\ call.pc = "drain" \/ ~HeadComplete
  /\ InnerPoll
  /\ IF rec.flag
       THEN /\ RecoveryPoll(Counted([rec EXCEPT !.at = "pass"]))
            /\ UNCHANGED <<call, post_turn>>
       ELSE /\ rec' = [rec EXCEPT !.at = "out"]
            /\ IF call.pc = "drain" /\ ~QueueFull(tot')
                 THEN NextPacket ELSE UNCHANGED <<call, post_turn>>
            /\ UNCHANGED <<rep, wqe_table>>
  /\ UNCHANGED <<active_num, done, cum, slot>>

(* The steps of an endpoint that is inside a recovery.                      *)
RecoveryStep ==
  \/ TakeReport \/ Clear \/ Told
  \/ AllResent \/ StartResend \/ ResendPacket \/ ResendDrain
  \/ Finish \/ Sync \/ PassReports \/ PassPolls

RecTypeOK ==
  LET report == [loss : Slots, max : -1 .. TableLen - 1, completed : Nat]
      item   == [kind : {"report", "ack", "done"}, path : {0}, body : report]
                \cup [kind : {"data"}, path : Survivors, body : [k : Slots, i : Nat]]
  IN  /\ rec \in [at : {"out", "clear", "told", "polls", "pass", "resend",
                        "rdrain", "sync", "nokey", "crash", "spin"},
                  flag : BOOLEAN, listening : BOOLEAN, got : BOOLEAN,
                  over : BOOLEAN, msg : report, max : -1 .. TableLen - 1,
                  post : 0 .. TableLen, poll : 0 .. TableLen, i : Nat,
                  iter : Nat, turn : Survivors, out : 0 .. RecMax, pkt : Nat]
      /\ slot \in [Slots -> [len : Nat, need : Nat]]
      /\ rep \in [sq : Seq(item), scq : Nat, rq : Seq(item), rcq : Nat, buf : report]
=============================================================================

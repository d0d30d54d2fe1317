---------------------------- MODULE MprudTransfer ----------------------------
(***************************************************************************)
(* Two endpoints of an MPRUD connection and the network between them: the  *)
(* client runs mprud_post_send and mprud_poll_cq_client, the server        *)
(* mprud_post_recv and mprud_poll_cq_server, each in its own thread.       *)
(*                                                                         *)
(* Every path is a pair of UD queue pairs.  A UD send completes when the   *)
(* packet leaves, whether or not it arrives; an arriving packet fills the  *)
(* oldest receive of its path, and is dropped when there is none.  Packets *)
(* carry nothing that says what they are: the server takes the packet that *)
(* fills a receive for the one it posted the receive for.                  *)
(*                                                                         *)
(* The paths are independent: their packets arrive in any order between    *)
(* paths, and in the order they were sent on one path.  Path failure is    *)
(* not in this module.                                                     *)
(***************************************************************************)
EXTENDS MprudSplit, SequencesExt

CONSTANTS
  NumPath, TableLen, Sizes, MaxMsgs,
  SendMax,      \* max_outstd of mprud_post_send
  RecvMax,      \* max_outstd of mprud_post_recv
  TxDepth,      \* the client application's tx_depth
  RxDepth,      \* the server application's rx_depth
  MayOverrun    \* whether a packet may arrive before a receive is posted for it

ASSUME TransferAssumption ==
  /\ NumPath \in Nat \ {0}
  /\ TableLen \in Nat \ {0}
  /\ MaxMsgs \in Nat
  /\ TxDepth \in Nat \ {0}
  /\ RxDepth \in Nat \ {0}
  /\ Sizes \subseteq Nat
  /\ \A size \in Sizes : size >= NumPath
  /\ MayOverrun \in BOOLEAN

VARIABLES
  cl_active, cl_table, cl_stat, cl_tot, cl_post_turn, cl_poll_turn, cl_call,
  cl_cq, cl_done, cl_cum,      \* the client
  sv_active, sv_table, sv_stat, sv_tot, sv_post_turn, sv_poll_turn, sv_call,
  sv_cq, sv_done, sv_cum,      \* the server
  sizes,    \* the size of each message, which both applications know
  sq,       \* the packets each send queue has to send
  wire,     \* the packets in flight on each path
  rq,       \* the packets the posted receives of each path are meant for
  landed    \* history: the packet that filled each receive of a path

clVars == <<cl_active, cl_table, cl_stat, cl_tot, cl_post_turn, cl_poll_turn,
            cl_call, cl_cq, cl_done, cl_cum>>
svVars == <<sv_active, sv_table, sv_stat, sv_tot, sv_post_turn, sv_poll_turn,
            sv_call, sv_cq, sv_done, sv_cum>>
netVars == <<sq, wire, rq, landed>>
vars == <<clVars, svVars, sizes, netVars>>

Client == INSTANCE MprudEndpoint WITH
  active_num <- cl_active, wqe_table <- cl_table, qp_stat <- cl_stat,
  tot <- cl_tot, post_turn <- cl_post_turn, poll_turn <- cl_poll_turn,
  call <- cl_call, cq <- cl_cq, done <- cl_done, cum <- cl_cum,
  MaxOutstd <- SendMax, Depth <- TxDepth, PollIdle <- FALSE

Server == INSTANCE MprudEndpoint WITH
  active_num <- sv_active, wqe_table <- sv_table, qp_stat <- sv_stat,
  tot <- sv_tot, post_turn <- sv_post_turn, poll_turn <- sv_poll_turn,
  call <- sv_call, cq <- sv_cq, done <- sv_done, cum <- sv_cum,
  MaxOutstd <- RecvMax, Depth <- RxDepth, PollIdle <- FALSE

Paths == 0 .. NumPath - 1

(* Packet i of message msg, both counted from 0. *)
Packet(msg, i) == [msg |-> msg, i |-> i]

(* The packets of message m: on either side the split makes them of size.  *)
PacketsOf(m) == {Packet(m, i) : i \in 0 .. Iter(sizes[m + 1], NumPath) - 1}

-----------------------------------------------------------------------------
Init ==
  /\ Client!Init
  /\ Server!Init
  /\ sizes \in [1 .. MaxMsgs -> Sizes]
  /\ sq = [p \in Paths |-> <<>>]
  /\ wire = [p \in Paths |-> <<>>]
  /\ rq = [p \in Paths |-> <<>>]
  /\ landed = [p \in Paths |-> <<>>]

(* The client's application sends the messages in order. *)
ClientPosts ==
  /\ cl_table.sqn < MaxMsgs
  /\ Client!Post(sizes[cl_table.sqn + 1])

(* The packet goes to the send queue of the inner QP of the turn. *)
ClientPacket ==
  /\ Client!PostPacket
  /\ sq' = [sq EXCEPT ![cl_post_turn] =
              Append(@, Packet(cl_table.sqn - 1, cl_call.i))]
  /\ UNCHANGED <<wire, rq, landed>>

(* The client's program posts, is in a posting call, or polls; its loop's   *)
(* own counters and their moderation by cq_mod are left out.                *)
ClientStep ==
  /\ \/ ClientPacket
     \/ /\ \/ ClientPosts
           \/ Client!DrainPoll
           \/ Client!PollComplete
           \/ Client!PollProgress
        /\ UNCHANGED netVars
  /\ UNCHANGED <<svVars, sizes>>

(* The server's application posts a buffer for each of them. *)
ServerPosts ==
  /\ sv_table.sqn < MaxMsgs
  /\ Server!Post(sizes[sv_table.sqn + 1])

(* A receive for the packet goes to the inner QP of the turn. *)
ServerPacket ==
  /\ Server!PostPacket
  /\ rq' = [rq EXCEPT ![sv_post_turn] =
              Append(@, Packet(sv_table.sqn - 1, sv_call.i))]
  /\ UNCHANGED <<sq, wire, landed>>

(* The server's program, likewise. *)
ServerStep ==
  /\ \/ ServerPacket
     \/ /\ \/ ServerPosts
           \/ Server!DrainPoll
           \/ Server!PollComplete
           \/ Server!PollProgress
        /\ UNCHANGED netVars
  /\ UNCHANGED <<clVars, sizes>>

(* The client's card sends the oldest packet of path p and completes it. *)
Leave(p) ==
  /\ sq[p] # <<>>
  /\ Client!NicComplete(p)
  /\ wire' = [wire EXCEPT ![p] = Append(@, Head(sq[p]))]
  /\ sq' = [sq EXCEPT ![p] = Tail(@)]
  /\ UNCHANGED <<svVars, sizes, rq, landed>>

(* The packet fills the oldest receive of path p. *)
Fill(p, packet) ==
  /\ rq[p] # <<>>
  /\ Server!NicComplete(p)
  /\ landed' = [landed EXCEPT ![p] =
                  Append(@, [packet |-> packet, meant |-> Head(rq[p])])]
  /\ rq' = [rq EXCEPT ![p] = Tail(@)]
  /\ UNCHANGED <<clVars, sizes, sq>>

(* The oldest packet in flight on path p arrives. *)
Arrive(p) ==
  /\ wire[p] # <<>>
  /\ Fill(p, Head(wire[p]))
  /\ wire' = [wire EXCEPT ![p] = Tail(@)]

(* A packet finds no receive posted and is dropped.  Nothing holds the      *)
(* client back until the server has posted: the handshake that did is       *)
(* compiled out of send_bw.c.                                               *)
Overrun(p) ==
  /\ MayOverrun
  /\ wire[p] # <<>>
  /\ rq[p] = <<>>
  /\ wire' = [wire EXCEPT ![p] = Tail(@)]
  /\ UNCHANGED <<clVars, svVars, sizes, sq, rq, landed>>

Network == \E p \in Paths : Leave(p) \/ Arrive(p) \/ Overrun(p)

Next == ClientStep \/ ServerStep \/ Network

(* Both applications run until all messages are through; the cards and the  *)
(* network keep working.                                                    *)
Fairness ==
  /\ WF_vars(ClientStep)
  /\ WF_vars(ServerStep)
  /\ \A p \in Paths : WF_vars(Leave(p)) /\ WF_vars(Arrive(p))

Spec == Init /\ [][Next]_vars

FairSpec == Spec /\ Fairness

-----------------------------------------------------------------------------
(***************************************************************************)
(* Properties.                                                             *)
(***************************************************************************)

(* Everything that has landed, on whatever path. *)
Landed == UNION {ToSet(landed[p]) : p \in Paths}

TypeOK ==
  LET packets == [msg : 0 .. MaxMsgs - 1, i : Nat]
  IN  /\ Client!TypeOK
      /\ Server!TypeOK
      /\ sizes \in [1 .. MaxMsgs -> Sizes]
      /\ sq \in [Paths -> Seq(packets)]
      /\ wire \in [Paths -> Seq(packets)]
      /\ rq \in [Paths -> Seq(packets)]
      /\ landed \in [Paths -> Seq([packet : packets, meant : packets])]

(* Without loss every packet fills the very receive that was posted for it: *)
(* the two sides agree on the path of every packet and on the order on each *)
(* path, although each waits for room at other packets than its peer, and   *)
(* nothing in a packet would let them notice if they did not.               *)
SamePacket == \A l \in Landed : l.packet = l.meant

(* A message reported to the server's application is there in full: exactly *)
(* its packets have filled its receives.                                    *)
DeliveredWhole ==
  \A m \in 0 .. sv_done - 1 :
    {l.packet : l \in {x \in Landed : x.meant.msg = m}} = PacketsOf(m)

(* What an application owns again is left alone: no send queue holds a      *)
(* packet of a message reported to the client's application, which may      *)
(* overwrite its memory, and no receive is posted into a message reported   *)
(* to the server's.  Lost packets do not change that.                       *)
ReturnedMemoryIsQuiet ==
  \A p \in Paths :
    /\ \A packet \in ToSet(sq[p]) : packet.msg >= cl_done
    /\ \A meant \in ToSet(rq[p]) : meant.msg >= sv_done

(* A lost packet lets later packets of its path move up, never the other    *)
(* way round: no receive is filled by a packet before the one it is for.    *)
NeverStale ==
  \A l \in Landed :
    \/ l.packet.msg > l.meant.msg
    \/ l.packet.msg = l.meant.msg /\ l.packet.i >= l.meant.i

(* The abstract specification the transfer implements. *)
Stream == INSTANCE MessageStream WITH
  sent <- cl_table.sqn, room <- sv_table.sqn,
  delivered <- sv_done, released <- cl_done

(* A lossless transfer is a fair message stream. *)
IsStream == Stream!FairSpec

(* With packets lost it may stop, but what it does is still what a stream   *)
(* does: no message is reported on either side before it was posted on the  *)
(* client's and, on the server's, on both.                                  *)
IsStreamWhileItLasts == Stream!Spec
=============================================================================

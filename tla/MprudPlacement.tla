--------------------------- MODULE MprudPlacement ---------------------------
(***************************************************************************)
(* Where the bytes of a message end up in the server's memory.             *)
(*                                                                         *)
(* The application's buffer and MPRUD's own are one registered region:     *)
(*                                                                         *)
(*   application | GRH spare | sub, a slot per path | last | send | recv   *)
(*                                                                         *)
(* The card writes a header (GRH) below the payload of every packet.  The  *)
(* pieces of a chunk are received straight into the message from its end   *)
(* towards its start, so that a header falls where the next piece goes.    *)
(* The last piece of a chunk, the lowest one, is received into the sub     *)
(* slot of its path, and inner_poll copies chnk_last bytes into the        *)
(* message when it has counted the chunk's last packet.                    *)
(*                                                                         *)
(* Packets arrive on the paths in any order between paths, every receive   *)
(* is posted (MprudTransfer's SamePacket), and completions are polled in   *)
(* any order between paths; a message is reported when every path is past  *)
(* it (MprudEndpoint's ReportsExactly).  A cell of the model is a byte of  *)
(* memory; reading beyond the region gives Junk.                           *)
(***************************************************************************)
EXTENDS MprudSplit

CONSTANTS
  NumPath,   \* active_num
  GRH,       \* MPRUD_GRH_SIZE
  Control,   \* the bytes of a control message: MPRUD_SEND_BUF_SIZE
  Sizes,     \* the message sizes
  MaxMsgs,   \* bound: messages of a behaviour, a buffer each
  Depth      \* rx_depth: messages with receives posted

Paths == 0 .. NumPath - 1
Msgs == 0 .. MaxMsgs - 1

(* "Recommend to test message sizes of multiples of 4096" (README.md): the  *)
(* last piece of a chunk is no shorter than a header, or the only one.      *)
ASSUME PlacementAssumption ==
  /\ NumPath \in Nat \ {0}
  /\ GRH \in Nat
  /\ Control \in Nat
  /\ Depth \in Nat \ {0}
  /\ MaxMsgs \in Nat \ {0}
  /\ Sizes \subseteq Nat
  /\ \E s \in Sizes : \A t \in Sizes : s >= t
  /\ \A s \in Sizes : s >= NumPath
  /\ \A s \in Sizes : IterEach(s, NumPath) = 1 \/ ChnkLast(s, NumPath) >= GRH

VARIABLES
  sizes,     \* the size of each message
  mem,       \* the registered region
  arrived,   \* per path, the next packet to arrive: its message and piece
  polled,    \* per path, the next one inner_poll counts: wqe_idx and comp_temp
  done       \* messages reported

vars == <<sizes, mem, arrived, polled, done>>

-----------------------------------------------------------------------------
(***************************************************************************)
(* The layout of the region: __ibv_exp_reg_mr and mprud_set_outer_buffer.  *)
(***************************************************************************)
BufSize == (CHOOSE s \in Sizes : \A t \in Sizes : s >= t) + GRH

(* The buffer of message m: sg_list->addr. *)
Addr(m) == BufSize * m

(* The bytes of the region: in->length. *)
RegionLen == BufSize * MaxMsgs + GRH + (GRH + MTU) * (NumPath + 1)
               + Control + (Control + GRH)

Cells == 0 .. RegionLen - 1

BufRecv == RegionLen - (Control + GRH)
BufLast == BufRecv - Control - (MTU + GRH)

(* Mutant of BufSub: no room for the headers in the sub slots. *)
BufSub_NoHeaders == BufLast - MTU * NumPath

BufSub == BufLast - (MTU + GRH) * NumPath

(***************************************************************************)
(* Contents of a byte: byte b of message m, a part of a header, what was   *)
(* there before, or the result of reading beyond the region.               *)
(***************************************************************************)
Data(m, b) == <<"data", m, b>>
Header == <<"header", 0, 0>>
Old == <<"old", 0, 0>>
Junk == <<"junk", 0, 0>>

Size(m) == sizes[m + 1]
Pieces(m) == IterEach(Size(m), NumPath)
Last(m) == ChnkLast(Size(m), NumPath)

-----------------------------------------------------------------------------
(* Mutant of PayloadAddr: pieces are received from the start of the chunk. *)
PayloadAddr_Forward(p, m, k) ==
  IF k = Pieces(m) - 1
    THEN BufSub + (MTU + GRH) * p
    ELSE Addr(m) + BaseAddr(Size(m), NumPath, p - 1) + GRH + k * MTU

(* Where mprud_post_recv has piece k of the chunk of path p received.  The  *)
(* last one goes to the sub slot of the path.                               *)
PayloadAddr(p, m, k) ==
  IF k = Pieces(m) - 1
    THEN BufSub + (MTU + GRH) * p
    ELSE Addr(m) + BaseAddr(Size(m), NumPath, p) + GRH - (k + 1) * MTU

(* A packet: the header, then the bytes the client put in it. *)
Received(p, m, k) ==
  LET to == PayloadAddr(p, m, k)
      piece == PieceOf(Size(m), NumPath, k, p)
  IN  [c \in Cells |->
         IF c \in to - GRH .. to - 1 THEN Header
         ELSE IF c \in to .. to + piece.len - 1 THEN Data(m, piece.from + c - to)
         ELSE mem[c]]

(* Where inner_poll copies the last piece of path p of message m: length is *)
(* that of the receive, header included.                                    *)
CopyTo(p, m) == Addr(m) + ((Size(m) + GRH) \div NumPath) * p

(* Where it copies from: the recv buffer, with the stride of the sub slots. *)
CopyFrom(p) == BufRecv + GRH + (GRH + MTU) * p

(* The bytes the copy of path p of message m overwrites. *)
CopyRange(p, m) == CopyTo(p, m) .. CopyTo(p, m) + Last(m) - 1

Copied(p, m) ==
  [c \in Cells |->
     IF c \in CopyRange(p, m)
       THEN LET from == CopyFrom(p) + c - CopyTo(p, m)
            IN  IF from \in Cells THEN mem[from] ELSE Junk
       ELSE mem[c]]

(* Mutant of Successor: comp_temp is not reset at the end of a chunk. *)
Successor_NotReset(c) ==
  IF c.piece + 1 >= Pieces(c.msg)
    THEN [msg |-> c.msg + 1, piece |-> c.piece + 1]
    ELSE [c EXCEPT !.piece = @ + 1]

(* The packet after packet c of a path. *)
Successor(c) == IF c.piece + 1 = Pieces(c.msg)
                  THEN [msg |-> c.msg + 1, piece |-> 0]
                  ELSE [c EXCEPT !.piece = @ + 1]

-----------------------------------------------------------------------------
Init ==
  /\ sizes \in [1 .. MaxMsgs -> Sizes]
  /\ mem = [c \in Cells |-> Old]
  /\ arrived = [p \in Paths |-> [msg |-> 0, piece |-> 0]]
  /\ polled = [p \in Paths |-> [msg |-> 0, piece |-> 0]]
  /\ done = 0

(* The next packet of path p arrives in the receive posted for it. *)
Arrive(p) ==
  /\ arrived[p].msg \in Msgs
  /\ arrived[p].msg < done + Depth
  /\ mem' = Received(p, arrived[p].msg, arrived[p].piece)
  /\ arrived' = [arrived EXCEPT ![p] = Successor(@)]
  /\ UNCHANGED <<sizes, polled, done>>

(* mprud_inner_poll counts it, and copies after the last of its chunk. *)
Poll(p) ==
  /\ polled[p] # arrived[p]
  /\ polled' = [polled EXCEPT ![p] = Successor(@)]
  /\ mem' = IF polled[p].piece + 1 = Pieces(polled[p].msg)
              THEN Copied(p, polled[p].msg)
              ELSE mem
  /\ UNCHANGED <<sizes, arrived, done>>

(* mprud_outer_poll reports the oldest message. *)
Report ==
  /\ \A p \in Paths : polled[p].msg > done
  /\ done' = done + 1
  /\ UNCHANGED <<sizes, mem, arrived, polled>>

Next == Report \/ \E p \in Paths : Arrive(p) \/ Poll(p)

Spec == Init /\ [][Next]_vars

-----------------------------------------------------------------------------
(***************************************************************************)
(* Properties.                                                             *)
(***************************************************************************)

(* The cursors of arrival and of polling are at a packet or at the end. *)
TypeOK ==
  LET cursor == {[msg |-> MaxMsgs, piece |-> 0]}
                  \cup UNION {[msg : {m}, piece : 0 .. Pieces(m) - 1] : m \in Msgs}
  IN  /\ sizes \in [1 .. MaxMsgs -> Sizes]
      /\ DOMAIN mem = Cells
      /\ arrived \in [Paths -> cursor]
      /\ polled \in [Paths -> cursor]
      /\ done \in 0 .. MaxMsgs

(* Packet [msg, piece] of path p has arrived. *)
HasArrived(p, m, k) ==
  \/ m < arrived[p].msg
  \/ m = arrived[p].msg /\ k < arrived[p].piece

(* The reverse order does what it is for: a byte received straight into the *)
(* message is there from the arrival of its packet on, whatever headers the *)
(* later packets of its own path and those of the other paths bring, and is *)
(* lost only where a copy of a last piece is misplaced over it.             *)
DirectBytesStay ==
  \A p \in Paths, m \in Msgs : \A k \in 0 .. Pieces(m) - 2 :
    HasArrived(p, m, k) =>
      LET piece == PieceOf(Size(m), NumPath, k, p)
      IN  \A b \in piece.from .. piece.from + piece.len - 1 :
            LET c == Addr(m) + GRH + b
            IN  \/ mem[c] = Data(m, b)
                \/ \E q \in Paths : polled[q].msg > m /\ c \in CopyRange(q, m)

(* Packets stay out of MPRUD's other buffers and of each other's: a byte of *)
(* a message is only ever in the buffer of that message or in a sub slot,   *)
(* and nothing is written over the buffers for control messages.            *)
NothingStrays ==
  \A c \in Cells :
    /\ c >= BufLast => mem[c] = Old
    /\ \A m \in Msgs :
         (\E b \in 0 .. Size(m) - 1 : mem[c] = Data(m, b)) =>
            \/ c \in Addr(m) .. Addr(m) + Size(m) + GRH - 1
            \/ c \in BufSub .. BufLast - 1

(* A reported message is in its buffer, behind the room for a header: "By   *)
(* processing in reverse order, MPRUD can receive the entire data without   *)
(* any help of buffer in the middle" (README.md).  It is not: the last      *)
(* piece of a chunk is copied from buf.recv, not from the sub slot it was   *)
(* received into, and not to its place.                                     *)
MessageIntact ==
  \A m \in 0 .. done - 1 : \A b \in 0 .. Size(m) - 1 :
    mem[Addr(m) + GRH + b] = Data(m, b)
=============================================================================

----------------------------- MODULE MprudSplit -----------------------------
(***************************************************************************)
(* How MPRUD cuts one message of the application into packets.             *)
(*                                                                         *)
(* mprud_post_send and mprud_post_recv (mprud.c) both divide the message   *)
(* into one chunk per active path and each chunk into MTU-sized pieces,    *)
(* numbered from the end of the chunk towards its start, so that the only  *)
(* short piece is the one at the start of the chunk, posted last.  Packet  *)
(* number i of a message travels on path i % active and carries piece      *)
(* i \div active of that path's chunk.                                     *)
(*                                                                         *)
(* A byte of a message is named by its offset from the first byte, so a    *)
(* region of memory is a pair [from, len].                                 *)
(***************************************************************************)
EXTENDS Integers

CONSTANT MTU      \* MPRUD_DEFAULT_MTU: the payload of a full packet

ASSUME MTUAssumption == MTU \in Nat \ {0}

(* The bytes of one path's chunk. *)
ChunkSize(size, active) == size \div active

(* The pieces of one path's chunk: wqe->iter_each of every active path. *)
IterEach(size, active) ==
  LET c == ChunkSize(size, active)
  IN  c \div MTU + (IF c % MTU # 0 THEN 1 ELSE 0)

(* The bytes of the last piece of a chunk. *)
ChnkLast(size, active) ==
  LET r == ChunkSize(size, active) % MTU
  IN  IF r # 0 THEN r ELSE MTU

(* The packets of a message. *)
Iter(size, active) == IterEach(size, active) * active

(* Packet i of a message is in the last round of its posting loop. *)
LastRound(size, active, i) == Iter(size, active) - i <= active

(* The offset of the end of the chunk of path turn: base_addr[turn]. *)
BaseAddr(size, active, turn) == ChunkSize(size, active) * (turn + 1)

(* The payload bytes of packet i, on either side. *)
MsgLength(size, active, i) ==
  IF LastRound(size, active, i) THEN ChnkLast(size, active) ELSE MTU

(* The part of the message that mprud_post_send puts in packet i. *)
SendPiece(size, active, i, turn) ==
  LET addr == BaseAddr(size, active, turn) - (i \div active + 1) * MTU
      len  == MsgLength(size, active, i)
  IN  [from |-> addr + (IF LastRound(size, active, i) THEN MTU - len ELSE 0),
       len  |-> len]

(* The part of the chunk a piece of the chunk covers, by piece number k. *)
PieceOf(size, active, k, turn) ==
  SendPiece(size, active, k * active + turn, turn)
=============================================================================

----------------------------- MODULE MCTransfer -----------------------------
(***************************************************************************)
(* Instances of MprudTransfer for TLC.                                     *)
(***************************************************************************)
EXTENDS MprudTransfer

(* With MTU = 2 and two paths: one piece per path, two pieces per path. *)
MCSizes == {4, 6}
=============================================================================

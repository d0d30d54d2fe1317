----------------------------- MODULE MCFailover -----------------------------
(***************************************************************************)
(* Instances of MprudFailover for TLC.                                     *)
(***************************************************************************)
EXTENDS MprudFailover

(* With MTU = 2 and two paths: one piece per path, two pieces per path. *)
MCSizes == {4, 8}
MCLong == {8}

(* With MTU = 2 and three paths: two pieces per path, so that the chunk of  *)
(* the failed path, 4 bytes, is resent as one piece on each of the others.  *)
MCThree == {12}
MCShort == {4}
=============================================================================

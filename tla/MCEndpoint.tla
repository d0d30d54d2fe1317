----------------------------- MODULE MCEndpoint -----------------------------
(***************************************************************************)
(* Instances of MprudEndpoint for TLC.                                     *)
(***************************************************************************)
EXTENDS MprudEndpoint

(* With MTU = 2 and three paths: one piece per path, two pieces per path. *)
MCSizes == {6, 10}
=============================================================================

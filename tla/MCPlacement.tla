---------------------------- MODULE MCPlacement ----------------------------
(***************************************************************************)
(* Instances of MprudPlacement for TLC, with MTU = 3, a header of two      *)
(* bytes and two paths.                                                    *)
(***************************************************************************)
EXTENDS MprudPlacement

(* One piece, two pieces with a short last one, three with a full one. *)
MCSizes == {4, 10, 18}
=============================================================================

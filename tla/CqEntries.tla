------------------------------ MODULE CqEntries ------------------------------
(***************************************************************************)
(* What is left of a sequence of CQEs when those of one resource are swept *)
(* out of it.  It is SelectSeq, written as a recursive function: the        *)
(* provers know nothing of SelectSeq.                                      *)
(***************************************************************************)
EXTENDS Integers, Sequences

(* "removing CQ entries that match our QP": the others keep their order.    *)
Without(s, r) ==
  LET kept[k \in 0 .. Len(s)] ==
        IF k = 0 THEN <<>>
        ELSE IF s[k].rsn # r THEN Append(kept[k - 1], s[k])
        ELSE kept[k - 1]
  IN  kept[Len(s)]
=============================================================================

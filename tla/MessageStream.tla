---------------------------- MODULE MessageStream ----------------------------
(***************************************************************************)
(* What an MPRUD connection promises an application that knows nothing of  *)
(* paths and packets: messages are posted on one side, buffers for them on *)
(* the other; message m arrives in buffer m, once, in order, after both    *)
(* were posted; the sender learns in order which messages have left.       *)
(***************************************************************************)
EXTENDS Integers

VARIABLES
  sent,       \* messages posted by the sender
  room,       \* buffers posted by the receiver
  delivered,  \* messages reported to the receiver
  released    \* messages reported to the sender: their memory may be reused

vars == <<sent, room, delivered, released>>

Init == sent = 0 /\ room = 0 /\ delivered = 0 /\ released = 0

Send == /\ sent' = sent + 1
        /\ UNCHANGED <<room, delivered, released>>

MakeRoom == /\ room' = room + 1
            /\ UNCHANGED <<sent, delivered, released>>

Deliver == /\ delivered < sent
           /\ delivered < room
           /\ delivered' = delivered + 1
           /\ UNCHANGED <<sent, room, released>>

Release == /\ released < sent
           /\ released' = released + 1
           /\ UNCHANGED <<sent, room, delivered>>

Next == Send \/ MakeRoom \/ Deliver \/ Release

Spec == Init /\ [][Next]_vars

(* Nothing posted on both sides stays undelivered, nothing sent unreleased. *)
FairSpec == Spec /\ WF_vars(Deliver) /\ WF_vars(Release)
=============================================================================

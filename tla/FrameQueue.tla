----------------------------- MODULE FrameQueue -----------------------------
(***************************************************************************)
(* What the receive path promises to the IP stack, without memory, rings   *)
(* or registers: frames are numbered in the order the controller accepted  *)
(* them, they are handled in that order and each once, and a frame that is *)
(* delivered is one the controller marked as good.  A good frame may be    *)
(* discarded (no pbuf was free), a bad one is never delivered.             *)
(***************************************************************************)
EXTENDS Naturals, Sequences

CONSTANT MaxFrames      \* bound: frames that arrive in a behaviour

VARIABLES
    accepted,       \* how many frames the controller has accepted
    good,           \* those whose receive status is OK
    handled,        \* how many of them the driver is done with
    delivered       \* the frames given to the IP stack, oldest first

vars == <<accepted, good, handled, delivered>>

Init ==
    /\ accepted = 0
    /\ good = {}
    /\ handled = 0
    /\ delivered = <<>>

Accept ==
    /\ accepted < MaxFrames
    /\ accepted' = accepted + 1
    /\ good' \in {good, good \cup {accepted + 1}}
    /\ UNCHANGED <<handled, delivered>>

Deliver ==
    /\ handled < accepted
    /\ handled + 1 \in good
    /\ handled' = handled + 1
    /\ delivered' = Append(delivered, handled + 1)
    /\ UNCHANGED <<accepted, good>>

Discard ==
    /\ handled < accepted
    /\ handled' = handled + 1
    /\ UNCHANGED <<accepted, good, delivered>>

Next == Accept \/ Deliver \/ Discard

SafeSpec == Init /\ [][Next]_vars

Spec == SafeSpec /\ WF_vars(Deliver \/ Discard)
=============================================================================

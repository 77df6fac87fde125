---------------------------- MODULE MCEventLoop -----------------------------
(***************************************************************************)
(* Three packets: one being received, one behind it and one that arrives   *)
(* while the loop drains.  More of them add no new relation to the edge.   *)
(***************************************************************************)
EXTENDS EventLoop
=============================================================================

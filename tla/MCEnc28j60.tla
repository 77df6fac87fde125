----------------------------- MODULE MCEnc28j60 -----------------------------
(***************************************************************************)
(* A ring of 8 cells, a 2 byte header (so that a header can be split by    *)
(* the end of the ring), frames of 3 to 5 cells and up to 4 of them: the   *)
(* ring fills up, is refused, wraps inside a header and inside a payload.  *)
(***************************************************************************)
EXTENDS Enc28j60
=============================================================================

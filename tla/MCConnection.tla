---------------------------- MODULE MCConnection ----------------------------
(***************************************************************************)
(* A rectangle of four bytes, which a chunk can end in the middle of, and  *)
(* two bytes too many, which can come with the last one or after it.       *)
(***************************************************************************)
EXTENDS Connection
=============================================================================

---------------------------- MODULE MCHttpParser ----------------------------
(***************************************************************************)
(* Two header lines, so that one can be lost and the other found, and up   *)
(* to two body bytes of any kind: 14 to 16 tokens, cut in every way.       *)
(***************************************************************************)
EXTENDS HttpParser
=============================================================================

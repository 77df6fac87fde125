------------------------------ MODULE MCJenkins ------------------------------
(***************************************************************************)
(* Two header lines, so that a line end can be taken for the header's, and *)
(* two characters of a body that may look like one; two jobs, so that one  *)
(* follows a complete one, and structures and arrays nested in one.        *)
(***************************************************************************)
EXTENDS Jenkins
=============================================================================

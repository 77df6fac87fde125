---------------------------- MODULE MCJsonParser ----------------------------
(***************************************************************************)
(* Every document of up to twelve characters: a pair inside an array, an      *)
(* array as the value of a pair, three levels of arrays.                   *)
(***************************************************************************)
EXTENDS JsonParser
=============================================================================

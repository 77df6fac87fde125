----------------------------- MODULE MCDrawing ------------------------------
(***************************************************************************)
(* Coordinates of 2 bits and header values 0, 1 and 2: empty rectangles,   *)
(* single rows and columns, 2 by 2 cells, one that reaches the largest     *)
(* coordinate, and a body one byte longer than the largest rectangle.      *)
(***************************************************************************)
EXTENDS Drawing
=============================================================================

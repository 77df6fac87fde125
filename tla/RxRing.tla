------------------------------- MODULE RxRing -------------------------------
(***************************************************************************)
(* Address arithmetic of the ENC28J60 receive ring.  The driver programs   *)
(* ERXST = 0 and ERXND = RX_END (enc28j60.cpp:25-26,90), so the ring is    *)
(* the addresses 0 .. RxSize-1 with RxSize = RX_END + 1.  Every operand of *)
(* Wrap is below 2 * RxSize, so wrapping is one subtraction.               *)
(***************************************************************************)
EXTENDS Integers

CONSTANT RxSize     \* bytes of the receive ring (0x19FF in the firmware)

ASSUME RxSizeAssumption == RxSize \in Nat /\ RxSize >= 3

Ring == 0 .. RxSize - 1

\* ERXST, where the buffer pointers start and wrap to; ERXND is the last cell.
Erxst == 0
Erxnd == RxSize - 1

Wrap(a) == IF a >= RxSize THEN a - RxSize ELSE a

\* Cells between a and b walking upwards from a.
Dist(a, b) == IF b >= a THEN b - a ELSE (b - a) + RxSize

\* The cell just below a.
Pred(a) == IF a = Erxst THEN Erxnd ELSE a - 1
=============================================================================

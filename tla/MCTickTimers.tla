---------------------------- MODULE MCTickTimers ----------------------------
(***************************************************************************)
(* A 4 bit word, so that the counter wraps every 16 ticks and the product  *)
(* with a tick of 2 ms every 8.  Timers of 3, 1 and 2 ticks stand for the  *)
(* long ones (ARP 20, DHCP coarse 240), tcp_tmr (1) and dhcp_fine_tmr (2). *)
(* The loop may fall two ticks behind, so that one flag stands for two.    *)
(***************************************************************************)
EXTENDS TickTimers

MCInterval == <<6, 2, 4>>
=============================================================================

----------------------------- MODULE EventLoop ------------------------------
(***************************************************************************)
(* How a packet gets from the controller's INT pin to ENC28J60::Interrupt: *)
(* the controller pulls INT low while packets are pending, the GPIO block  *)
(* latches the falling edge, GPIOPortEIntHandler sets FLAG_ENC_INT, and    *)
(* the main loop clears the flag and drains the controller.  In between    *)
(* the main loop sleeps (WFI) and any interrupt wakes it: the port, the    *)
(* SysTick or timer 0.  The handlers run at one priority and preempt only  *)
(* the main loop; the controller goes on receiving while they run.         *)
(*                                                                         *)
(* The flags are written through the bit band, each store changing one     *)
(* bit, so a handler that sets one cannot be undone by the loop clearing   *)
(* another.  FLAG_UPDATE is never set and is left out.  What Receive does  *)
(* is module Enc28j60; here a packet is one unit of EPKTCNT.               *)
(***************************************************************************)
EXTENDS Naturals

CONSTANT MaxPending     \* bound: packets the controller can hold

ASSUME MaxPendingAssumption == MaxPending \in Nat \ {0}

VARIABLES
    epktcnt,    \* controller: packets pending; INT is low iff there are any
    portLatch,  \* GPIO block: a falling edge was seen
    raised,     \* periodic interrupts raised and not yet served
    handler,    \* where GPIOPortEIntHandler is, "none" when it is not running
    asleep,     \* the processor is stopped in WFI
    encFlag,    \* FLAG_ENC_INT
    tickFlag,   \* FLAG_SYSTICK
    pc          \* where the main loop is

vars == <<epktcnt, portLatch, raised, handler, asleep, encFlag, tickFlag, pc>>

Periodic == {"systick", "timer0"}
PCs == {"boot", "sleep", "tick", "timers", "enc", "eir", "poll", "receive"}

\* if_en.Init has enabled the port's interrupt and then reception; the rest
\* of the initialisation of main is still to run.
Init ==
    /\ epktcnt = 0
    /\ portLatch = FALSE
    /\ raised = {}
    /\ handler = "none"
    /\ asleep = FALSE
    /\ encFlag = FALSE
    /\ tickFlag = FALSE
    /\ pc = "boot"
-----------------------------------------------------------------------------
\* A packet is received.  INT falls when it is the only one (external).
Arrive ==
    /\ epktcnt < MaxPending
    /\ epktcnt' = epktcnt + 1
    /\ portLatch' = (portLatch \/ epktcnt = 0)
    /\ UNCHANGED <<raised, handler, asleep, encFlag, tickFlag, pc>>

\* Fault: the SysTick is never enabled.
RaiseTimerOnly(source) ==
    /\ source \notin raised /\ source # "systick"
    /\ raised' = raised \cup {source}
    /\ UNCHANGED <<epktcnt, portLatch, handler, asleep, encFlag, tickFlag, pc>>

\* A timer expires; a second time before it is served makes no difference.
Raise(source) ==
    /\ source \notin raised
    /\ raised' = raised \cup {source}
    /\ UNCHANGED <<epktcnt, portLatch, handler, asleep, encFlag, tickFlag, pc>>

\* SysTickIntHandler; tickCounter is in module TickTimers.
SysTickIntHandler ==
    /\ handler = "none"
    /\ "systick" \in raised
    /\ raised' = raised \ {"systick"}
    /\ tickFlag' = TRUE
    /\ asleep' = FALSE
    /\ UNCHANGED <<epktcnt, portLatch, handler, encFlag, pc>>

\* timer0_int_handler and timer0b_int_handler touch neither flags nor packets.
Timer0Handler ==
    /\ handler = "none"
    /\ "timer0" \in raised
    /\ raised' = raised \ {"timer0"}
    /\ asleep' = FALSE
    /\ UNCHANGED <<epktcnt, portLatch, handler, encFlag, tickFlag, pc>>

\* GPIOPortEIntHandler: read the status, clear what was read, set the flag.
PortStatus ==
    /\ handler = "none"
    /\ portLatch
    /\ handler' = "clear"
    /\ asleep' = FALSE
    /\ UNCHANGED <<epktcnt, portLatch, raised, encFlag, tickFlag, pc>>

PortClear ==
    /\ handler = "clear"
    /\ portLatch' = FALSE
    /\ handler' = "flag"
    /\ UNCHANGED <<epktcnt, raised, asleep, encFlag, tickFlag, pc>>

PortFlag ==
    /\ handler = "flag"
    /\ encFlag' = TRUE
    /\ handler' = "none"
    /\ UNCHANGED <<epktcnt, portLatch, raised, asleep, tickFlag, pc>>

PortHandler == PortStatus \/ PortClear \/ PortFlag
-----------------------------------------------------------------------------
\* The main loop runs when no handler does and it is not asleep.
Running == handler = "none" /\ ~asleep

\* lwip_init .. httpd.init, up to the loop.
Boot ==
    /\ Running /\ pc = "boot"
    /\ pc' = "sleep"
    /\ UNCHANGED <<epktcnt, portLatch, raised, handler, asleep, encFlag, tickFlag>>

\* Fault: all flags are cleared before going to sleep.
SleepClearsFlags ==
    /\ Running /\ pc = "sleep"
    /\ asleep' = (raised = {} /\ ~portLatch)
    /\ encFlag' = FALSE /\ tickFlag' = FALSE
    /\ pc' = "tick"
    /\ UNCHANGED <<epktcnt, portLatch, raised, handler>>

\* SysCtlSleep: WFI falls through when an interrupt is pending.  One that was
\* served between the test of its flag and here does not stop it.
Sleep ==
    /\ Running /\ pc = "sleep"
    /\ asleep' = (raised = {} /\ ~portLatch)
    /\ pc' = "tick"
    /\ UNCHANGED <<epktcnt, portLatch, raised, handler, encFlag, tickFlag>>

CheckTick ==
    /\ Running /\ pc = "tick"
    /\ tickFlag' = FALSE
    /\ pc' = IF tickFlag THEN "timers" ELSE "enc"
    /\ UNCHANGED <<epktcnt, portLatch, raised, handler, asleep, encFlag>>

\* The four lwIP timers (module TickTimers).
Timers ==
    /\ Running /\ pc = "timers"
    /\ pc' = "enc"
    /\ UNCHANGED <<epktcnt, portLatch, raised, handler, asleep, encFlag, tickFlag>>

\* The flag is cleared before the controller is looked at.
CheckEnc ==
    /\ Running /\ pc = "enc"
    /\ encFlag' = FALSE
    /\ pc' = IF encFlag THEN "eir" ELSE "sleep"
    /\ UNCHANGED <<epktcnt, portLatch, raised, handler, asleep, tickFlag>>

\* Fault: wait for PKTIF instead of returning when it is clear.
ReadEirWaits ==
    /\ Running /\ pc = "eir"
    /\ pc' = IF epktcnt > 0 THEN "poll" ELSE "eir"
    /\ UNCHANGED <<epktcnt, portLatch, raised, handler, asleep, encFlag, tickFlag>>

\* Interrupt: if (EIR & PKTIF)
ReadEir ==
    /\ Running /\ pc = "eir"
    /\ pc' = IF epktcnt > 0 THEN "poll" ELSE "sleep"
    /\ UNCHANGED <<epktcnt, portLatch, raised, handler, asleep, encFlag, tickFlag>>

\* Fault: the drain loop compares with >= 0.
PollCountOffByOne ==
    /\ Running /\ pc = "poll"
    /\ pc' = IF epktcnt >= 0 THEN "receive" ELSE "sleep"
    /\ UNCHANGED <<epktcnt, portLatch, raised, handler, asleep, encFlag, tickFlag>>

\* Interrupt: while (EPKTCNT > 0)
PollCount ==
    /\ Running /\ pc = "poll"
    /\ pc' = IF epktcnt > 0 THEN "receive" ELSE "sleep"
    /\ UNCHANGED <<epktcnt, portLatch, raised, handler, asleep, encFlag, tickFlag>>

\* Interrupt: Receive(), which ends with PKTDEC.
Receive ==
    /\ Running /\ pc = "receive"
    /\ epktcnt' = epktcnt - 1
    /\ pc' = "poll"
    /\ UNCHANGED <<portLatch, raised, handler, asleep, encFlag, tickFlag>>

MainLoop ==
    \/ Boot \/ Sleep \/ CheckTick \/ Timers
    \/ CheckEnc \/ ReadEir \/ PollCount \/ Receive

Next ==
    \/ Arrive
    \/ \E source \in Periodic : Raise(source)
    \/ SysTickIntHandler
    \/ Timer0Handler
    \/ PortHandler
    \/ MainLoop

(* The processor runs what it can (the loop, pending handlers), and the    *)
(* SysTick, enabled at main.cpp:369-371, never stops.  Nothing is assumed  *)
(* of the network or of timer 0.                                           *)
Spec ==
    /\ Init /\ [][Next]_vars
    /\ WF_vars(MainLoop)
    /\ WF_vars(PortHandler)
    /\ WF_vars(SysTickIntHandler)
    /\ WF_vars(Timer0Handler)
    /\ WF_vars(Raise("systick"))
-----------------------------------------------------------------------------
TypeOK ==
    /\ epktcnt \in 0 .. MaxPending
    /\ portLatch \in BOOLEAN
    /\ raised \subseteq Periodic
    /\ handler \in {"none", "clear", "flag"}
    /\ asleep \in BOOLEAN
    /\ encFlag \in BOOLEAN
    /\ tickFlag \in BOOLEAN
    /\ pc \in PCs

(* A pending packet is never forgotten: the edge is latched, or its        *)
(* handler is running, or the flag is set, or the loop is draining.  The   *)
(* INT pin gives one edge for any number of packets, so a flag cleared at  *)
(* the wrong moment would leave the controller waiting for ever.           *)
Draining == pc \in {"eir", "poll", "receive"}

NoLostPacket ==
    epktcnt > 0 => portLatch \/ handler # "none" \/ encFlag \/ Draining

(* Receive is called only while a packet is there: between the test of     *)
(* EPKTCNT and PKTDEC nothing else takes a packet away.                    *)
ReceiveHasPacket == pc = "receive" => epktcnt > 0

(* A pending packet is received, although the flag can be set between the  *)
(* test and WFI, in which case only the next interrupt brings the loop     *)
(* back to it.                                                             *)
PacketReceived == epktcnt > 0 ~> pc = "receive"

(* A tick reaches the timers, unless packets never stop arriving: the      *)
(* drain loop ends only when the controller is empty.                      *)
TickServed == (tickFlag ~> pc = "timers") \/ []<><<Arrive>>_vars
=============================================================================

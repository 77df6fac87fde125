-------------------------- MODULE EventLoop_proof ---------------------------
(***************************************************************************)
(* No packet is forgotten by the interrupt path, whatever the number of    *)
(* packets the controller can hold.  TypeOK, NoLostPacket and              *)
(* ReceiveHasPacket are inductive together: a drain ends only where        *)
(* EPKTCNT is zero, and from zero the next packet gives a new edge.        *)
(***************************************************************************)
EXTENDS EventLoop, TLAPS

LoopInv == TypeOK /\ NoLostPacket /\ ReceiveHasPacket

LEMMA InitLoopInv == Init => LoopInv
  <1> SUFFICES ASSUME Init PROVE LoopInv
    OBVIOUS
  <1>1. epktcnt \in 0 .. MaxPending /\ ~(epktcnt > 0)
    BY MaxPendingAssumption DEF Init
  <1> QED BY <1>1 DEF Init, LoopInv, TypeOK, NoLostPacket, ReceiveHasPacket, PCs

\* The network and the interrupt handlers.
LEMMA EnvironmentStep ==
    ASSUME LoopInv,
           \/ Arrive \/ SysTickIntHandler \/ Timer0Handler \/ PortHandler
           \/ \E source \in Periodic : Raise(source)
    PROVE  LoopInv'
  <1>1. TypeOK /\ NoLostPacket /\ ReceiveHasPacket
    BY DEF LoopInv
  <1>2. CASE Arrive
    <2>1. epktcnt \in Nat /\ epktcnt' = epktcnt + 1 /\ epktcnt' \in 0 .. MaxPending
      BY <1>1, <1>2, MaxPendingAssumption DEF TypeOK, Arrive
    <2>2. portLatch' \in BOOLEAN /\ (epktcnt = 0 \/ portLatch => portLatch')
      BY <1>2 DEF Arrive
    <2>3. UNCHANGED <<raised, handler, asleep, encFlag, tickFlag, pc>>
      BY <1>2 DEF Arrive
    <2>4. TypeOK'
      BY <1>1, <2>1, <2>2, <2>3 DEF TypeOK
    <2>5. NoLostPacket' /\ ReceiveHasPacket'
      BY <1>1, <2>1, <2>2, <2>3 DEF NoLostPacket, ReceiveHasPacket, Draining
    <2> QED BY <2>4, <2>5 DEF LoopInv
  <1>3. CASE \E source \in Periodic : Raise(source)
    BY <1>1, <1>3 DEF LoopInv, TypeOK, NoLostPacket, ReceiveHasPacket, Draining, Raise
  <1>4. CASE SysTickIntHandler \/ Timer0Handler
    BY <1>1, <1>4 DEF LoopInv, TypeOK, NoLostPacket, ReceiveHasPacket, Draining,
                      SysTickIntHandler, Timer0Handler
  <1>5. CASE PortHandler
    <2>1. CASE PortStatus
      BY <1>1, <2>1 DEF LoopInv, TypeOK, NoLostPacket, ReceiveHasPacket, Draining, PortStatus
    <2>2. CASE PortClear
      BY <1>1, <2>2 DEF LoopInv, TypeOK, NoLostPacket, ReceiveHasPacket, Draining, PortClear
    <2>3. CASE PortFlag
      BY <1>1, <2>3 DEF LoopInv, TypeOK, NoLostPacket, ReceiveHasPacket, Draining, PortFlag
    <2> QED BY <1>5, <2>1, <2>2, <2>3 DEF PortHandler
  <1> QED BY <1>2, <1>3, <1>4, <1>5

\* The main loop.  CheckEnc trades the flag for a drain; PollCount and
\* ReadEir leave the drain only where there is nothing to drain.
LEMMA MainLoopStep == LoopInv /\ MainLoop => LoopInv'
  <1> SUFFICES ASSUME LoopInv, MainLoop
               PROVE  LoopInv'
    OBVIOUS
  <1>1. TypeOK /\ NoLostPacket /\ ReceiveHasPacket
    BY DEF LoopInv
  <1>2. CASE Boot \/ Sleep \/ CheckTick \/ Timers
    <2>1. /\ UNCHANGED <<epktcnt, portLatch, raised, handler, encFlag>>
          /\ asleep' \in BOOLEAN /\ tickFlag' \in BOOLEAN
          /\ pc \notin {"eir", "poll", "receive"}
          /\ pc' \in {"sleep", "tick", "timers", "enc"}
      BY <1>1, <1>2 DEF TypeOK, Boot, Sleep, CheckTick, Timers
    <2> QED BY <1>1, <2>1
            DEF LoopInv, TypeOK, NoLostPacket, ReceiveHasPacket, Draining, PCs
  <1>3. CASE CheckEnc
    <2>1. /\ UNCHANGED <<epktcnt, portLatch, raised, handler, asleep, tickFlag>>
          /\ encFlag' = FALSE
          /\ pc = "enc"
          /\ pc' = IF encFlag THEN "eir" ELSE "sleep"
      BY <1>3 DEF CheckEnc
    <2> QED BY <1>1, <2>1
            DEF LoopInv, TypeOK, NoLostPacket, ReceiveHasPacket, Draining, PCs
  <1>4. CASE ReadEir \/ PollCount
    <2>1. /\ UNCHANGED <<epktcnt, portLatch, raised, handler, asleep, encFlag, tickFlag>>
          /\ \/ epktcnt > 0 /\ pc' \in {"poll", "receive"}
             \/ ~(epktcnt > 0) /\ pc' = "sleep"
      BY <1>4 DEF ReadEir, PollCount
    <2> QED BY <1>1, <2>1
            DEF LoopInv, TypeOK, NoLostPacket, ReceiveHasPacket, Draining, PCs
  <1>5. CASE Receive
    <2>1. /\ UNCHANGED <<portLatch, raised, handler, asleep, encFlag, tickFlag>>
          /\ epktcnt > 0
          /\ epktcnt' = epktcnt - 1
          /\ pc' = "poll"
      BY <1>1, <1>5 DEF Receive, ReceiveHasPacket
    <2>2. epktcnt' \in 0 .. MaxPending
      BY <1>1, <2>1, MaxPendingAssumption DEF TypeOK
    <2> QED BY <1>1, <2>1, <2>2
            DEF LoopInv, TypeOK, NoLostPacket, ReceiveHasPacket, Draining, PCs
  <1> QED BY <1>2, <1>3, <1>4, <1>5 DEF MainLoop

LEMMA LoopInvariance == Spec => []LoopInv
  <1>1. LoopInv /\ [Next]_vars => LoopInv'
    <2> SUFFICES ASSUME LoopInv, [Next]_vars
                 PROVE  LoopInv'
      OBVIOUS
    <2>1. CASE UNCHANGED vars
      BY <2>1 DEF LoopInv, TypeOK, NoLostPacket, ReceiveHasPacket, Draining, vars
    <2>2. CASE MainLoop
      BY <2>2, MainLoopStep
    <2>3. CASE \/ Arrive \/ SysTickIntHandler \/ Timer0Handler \/ PortHandler
               \/ \E source \in Periodic : Raise(source)
      BY <2>3, EnvironmentStep
    <2> QED BY <2>1, <2>2, <2>3 DEF Next
  <1> QED BY <1>1, InitLoopInv, PTL DEF Spec

(* The interrupt path never forgets a pending packet: clearing             *)
(* FLAG_ENC_INT before if_en.Interrupt (main.cpp:470-473) and setting it   *)
(* after the latch is cleared (main.cpp:554-560) leave no gap.             *)
THEOREM PacketsNotLost == Spec => []NoLostPacket
  <1>1. LoopInv => NoLostPacket
    BY DEF LoopInv
  <1> QED BY <1>1, LoopInvariance, PTL

(* Receive is never entered with no packet in the controller               *)
(* (enc28j60.cpp:178-181), whatever the handlers do meanwhile.             *)
THEOREM ReceiveOnlyPending == Spec => []ReceiveHasPacket
  <1>1. LoopInv => ReceiveHasPacket
    BY DEF LoopInv
  <1> QED BY <1>1, LoopInvariance, PTL

(* Type correctness of the main loop and the handlers, for any number of   *)
(* packets the controller can hold (main.cpp:432-475, 523-560).            *)
THEOREM LoopTypes == Spec => []TypeOK
  <1>1. LoopInv => TypeOK
    BY DEF LoopInv
  <1> QED BY <1>1, LoopInvariance, PTL
=============================================================================

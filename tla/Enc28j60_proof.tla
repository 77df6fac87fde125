--------------------------- MODULE Enc28j60_proof ---------------------------
(***************************************************************************)
(* The receive path keeps every frame it has not given back intact, for    *)
(* every ring size, header size, set of frame lengths and number of        *)
(* frames.  IInv is the inductive invariant; the lemmas come first on the  *)
(* ring, then on the steps that leave the ring alone, then on the three    *)
(* that change it: Accept, MarkRead and PacketDecrement.                   *)
(***************************************************************************)
EXTENDS Enc28j60, TLAPS

\* Walking n cells up from b, short of a full turn from a.
LEMMA WrapDist ==
    ASSUME NEW a \in Ring, NEW b \in Ring, NEW n \in Nat,
           Dist(a, b) + n < RxSize
    PROVE  /\ Wrap(b + n) \in Ring
           /\ Dist(a, Wrap(b + n)) = Dist(a, b) + n
  BY RxSizeAssumption DEF Ring, Dist, Wrap

\* A distance is less than a turn, and two cells at one distance are one cell.
LEMMA DistRange ==
    ASSUME NEW a \in Ring, NEW b \in Ring
    PROVE  /\ Dist(a, b) \in Nat
           /\ Dist(a, b) < RxSize
           /\ Dist(a, a) = 0
           /\ Dist(a, b) = 0 => a = b
  BY RxSizeAssumption DEF Ring, Dist

LEMMA DistInjective ==
    ASSUME NEW a \in Ring, NEW b \in Ring, NEW c \in Ring,
           Dist(a, b) = Dist(a, c)
    PROVE  b = c
  BY RxSizeAssumption DEF Ring, Dist

\* Moving the origin from a up to b shortens the distances beyond b.
LEMMA DistShift ==
    ASSUME NEW a \in Ring, NEW b \in Ring, NEW c \in Ring,
           Dist(a, b) <= Dist(a, c)
    PROVE  Dist(b, c) = Dist(a, c) - Dist(a, b)
  BY RxSizeAssumption DEF Ring, Dist

\* Cells short of b, seen from b, are almost a turn away.
LEMMA DistBehind ==
    ASSUME NEW a \in Ring, NEW b \in Ring, NEW c \in Ring,
           Dist(a, c) < Dist(a, b)
    PROVE  Dist(b, c) = (Dist(a, c) - Dist(a, b)) + RxSize
  BY RxSizeAssumption DEF Ring, Dist

\* Wrap brings every sum the code forms back into the ring.
LEMMA WrapInRing ==
    ASSUME NEW a \in Ring, NEW n \in Nat, n <= RxSize
    PROVE  Wrap(a + n) \in Ring
  BY RxSizeAssumption DEF Ring, Wrap

LEMMA WrapZero ==
    ASSUME NEW a \in Ring
    PROVE  Wrap(a + 0) = a
  BY RxSizeAssumption DEF Ring, Wrap

\* Two walks in a row, together short of a turn, are one.
LEMMA WrapTwice ==
    ASSUME NEW a \in Ring, NEW m \in Nat, NEW n \in Nat, m + n < RxSize
    PROVE  Wrap(Wrap(a + m) + n) = Wrap(a + (m + n))
  BY RxSizeAssumption DEF Ring, Wrap

\* The controller's free-space rule never counts a cell that is held.
LEMMA FreeSpaceBound ==
    ASSUME NEW b \in Ring, erxwrpt \in Ring, erxrdpt \in Ring,
           \/ erxrdpt = Pred(b) /\ Dist(b, erxwrpt) <= RxSize - 2
           \/ erxrdpt = Erxst /\ b = Erxst
    PROVE  /\ FreeSpace \in Nat
           /\ erxrdpt = Pred(b) /\ Dist(b, erxwrpt) <= RxSize - 2
                => Dist(b, erxwrpt) + FreeSpace = RxSize - 2
           /\ Dist(b, erxwrpt) + FreeSpace <= RxSize - 1
  BY RxSizeAssumption DEF Ring, Dist, Pred, FreeSpace, Erxst, Erxnd
-----------------------------------------------------------------------------
\* Every frame held lies in the ring, and After is where its last cell ends.
LEMMA HeldFacts ==
    ASSUME IInv
    PROVE  /\ Base \in Ring
           /\ Released \in Nat /\ Released <= arrived
           /\ \A f \in Held :
                /\ f \in Frames
                /\ f \in Nat
                /\ frame[f].start \in Ring
                /\ frame[f].size \in Nat
                /\ frame[f].count \in Nat
                /\ frame[f].size >= 1
                /\ After(f) \in Ring
                /\ Dist(Base, frame[f].start) + frame[f].size < RxSize
                /\ After(f) = Wrap(frame[f].start + frame[f].size)
  <1>1. Released \in Nat /\ Released <= arrived
    BY DEF IInv, TypeOK, CountInStep, Released, PCs
  <1>2. arrived \in 0 .. MaxFrames /\ erxwrpt \in Ring
    BY DEF IInv, TypeOK
  <1>3. \A f \in Frames : /\ frame[f].start \in Ring
                          /\ frame[f].size \in Nat
                          /\ frame[f].count \in Nat
    BY DEF IInv, TypeOK
  <1>4. Base \in Ring
    BY <1>1, <1>2, <1>3, MaxFramesAssumption DEF Base, Frames
  <1>5. ASSUME NEW f \in Held
        PROVE  /\ f \in Frames
               /\ f \in Nat
               /\ frame[f].start \in Ring
               /\ frame[f].size \in Nat
               /\ frame[f].count \in Nat
               /\ frame[f].size >= 1
               /\ After(f) \in Ring
               /\ Dist(Base, frame[f].start) + frame[f].size < RxSize
               /\ After(f) = Wrap(frame[f].start + frame[f].size)
    <2>1. f \in Frames /\ f \in Nat /\ f <= arrived
      BY <1>1, <1>2, MaxFramesAssumption DEF Held, Frames
    <2>2. /\ frame[f].start \in Ring
          /\ frame[f].size \in Nat
          /\ frame[f].count \in Nat
      BY <1>3, <2>1
    <2>3. After(f) \in Ring
      BY <1>2, <1>3, <2>1, MaxFramesAssumption DEF After, Frames
    <2>4. /\ frame[f].size >= 1
          /\ Dist(Base, frame[f].start) + frame[f].size = Dist(Base, After(f))
      <3>1. /\ HdrSize + frame[f].count <= frame[f].size
            /\ Dist(Base, frame[f].start) + frame[f].size = Dist(Base, After(f))
        BY DEF IInv, RingInv, Chained
      <3> QED BY <2>2, <3>1, HdrAssumption
    <2>5. Dist(Base, After(f)) < RxSize /\ Dist(Base, frame[f].start) \in Nat
      BY <1>4, <2>2, <2>3, DistRange
    <2>6. Dist(Base, frame[f].start) + frame[f].size < RxSize
      BY <2>4, <2>5
    <2>7. /\ Wrap(frame[f].start + frame[f].size) \in Ring
          /\ Dist(Base, Wrap(frame[f].start + frame[f].size))
                = Dist(Base, frame[f].start) + frame[f].size
      BY <1>4, <2>2, <2>6, WrapDist
    <2>8. After(f) = Wrap(frame[f].start + frame[f].size)
      BY <1>4, <2>3, <2>4, <2>7, DistInjective
    <2> QED BY <2>1, <2>2, <2>3, <2>4, <2>6, <2>8
  <1> QED BY <1>1, <1>4, <1>5

\* The oldest frame not yet marked as read can be read back: its header at
\* Base, its payload behind the header.
LEMMA FirstHeld ==
    ASSUME IInv, freed < arrived, pc # "dec"
    PROVE  /\ freed + 1 \in Held
           /\ Base = frame[freed + 1].start
           /\ mem[Base].id = freed + 1
           /\ IsHeader(Base, freed + 1)
           /\ Wrap(Base + HdrSize) \in Ring
           /\ mem[Wrap(Base + HdrSize)].id = freed + 1
           /\ IsPayload(Wrap(Base + HdrSize), frame[freed + 1].count, freed + 1)
           /\ Wrap(Wrap(Base + HdrSize) + frame[freed + 1].count) \in Ring
  <1>1. freed \in Nat /\ arrived \in Nat
    BY MaxFramesAssumption DEF IInv, TypeOK
  <1>2. PICK f \in Nat : f = freed + 1
    BY <1>1
  <1>3. f \in Held /\ f \in 1 .. arrived /\ Base = frame[f].start
    BY <1>1, <1>2 DEF Held, Released, Base
  <1>4. /\ Base \in Ring
        /\ frame[f].size \in Nat
        /\ frame[f].count \in Nat
        /\ Dist(Base, Base) + frame[f].size < RxSize
    BY <1>3, HeldFacts
  <1>5. frame[f].count >= 1 /\ HdrSize + frame[f].count <= frame[f].size
    BY <1>3 DEF IInv, RingInv, Chained
  <1>6. frame[f].size < RxSize
    <2>1. Dist(Base, Base) = 0
      BY <1>4, DistRange
    <2> QED BY <2>1, <1>4
  <1>7. \A i \in 0 .. frame[f].size - 1 :
            mem[Wrap(Base + i)] = [id |-> f, off |-> i]
    BY <1>3 DEF IInv, RingInv, HeldIntact
  <1>8. IsHeader(Base, f)
    <2>1. 0 .. HdrSize - 1 \subseteq 0 .. frame[f].size - 1
      BY <1>4, <1>5, HdrAssumption
    <2> QED BY <1>3, <1>7, <2>1 DEF IsHeader
  <1>9. mem[Base].id = f
    <2>1. Wrap(Base + 0) = Base
      BY <1>4, WrapZero
    <2>2. 0 \in 0 .. frame[f].size - 1
      BY <1>4, <1>5, HdrAssumption
    <2>3. mem[Wrap(Base + 0)] = [id |-> f, off |-> 0]
      BY <1>7, <2>2
    <2> QED BY <2>1, <2>3
  <1>10. PICK p : p = Wrap(Base + HdrSize)
    OBVIOUS
  <1>11. p \in Ring
    BY <1>4, <1>5, <1>6, <1>10, HdrAssumption, RxSizeAssumption, WrapInRing
  <1>12. Wrap(p + frame[f].count) \in Ring
    BY <1>4, <1>5, <1>6, <1>11, HdrAssumption, RxSizeAssumption, WrapInRing
  <1>13. ASSUME NEW i \in 0 .. frame[f].count - 1
         PROVE  mem[Wrap(p + i)] = [id |-> f, off |-> HdrSize + i]
    <2>1. /\ HdrSize + i \in 0 .. frame[f].size - 1
          /\ i \in Nat
          /\ HdrSize + i < RxSize
      BY <1>4, <1>5, <1>6, HdrAssumption, RxSizeAssumption
    <2>2. Wrap(p + i) = Wrap(Base + (HdrSize + i))
      BY <1>4, <1>10, <2>1, HdrAssumption, WrapTwice
    <2> QED BY <1>7, <2>1, <2>2
  <1>14. IsPayload(p, frame[f].count, f)
    BY <1>3, <1>13 DEF IsPayload
  <1>15. mem[p].id = f
    <2>1. Wrap(p + 0) = p
      BY <1>11, WrapZero
    <2>2. 0 \in 0 .. frame[f].count - 1
      BY <1>4, <1>5
    <2>3. mem[Wrap(p + 0)] = [id |-> f, off |-> HdrSize + 0]
      BY <1>13, <2>2
    <2> QED BY <2>1, <2>3
  <1> QED BY <1>2, <1>3, <1>8, <1>9, <1>10, <1>11, <1>12, <1>14, <1>15
-----------------------------------------------------------------------------
LEMMA InitIInv == Init => IInv
  <1> SUFFICES ASSUME Init PROVE IInv
    OBVIOUS
  <1>1. /\ Erxst \in Ring /\ Erxnd \in Ring /\ Erxst \in Nat
        /\ Corrupt \in Nat
        /\ Dist(Erxst, Erxst) = 0
    BY RxSizeAssumption DEF Ring, Erxst, Erxnd, Corrupt, Dist
  <1>2. TypeOK
    <2>1. mem \in [Ring -> [id : Nat, off : Nat]]
      BY <1>1 DEF Init
    <2>2. frame \in [Frames -> [start : Ring, size : Nat, count : Nat, ok : BOOLEAN]]
      BY <1>1 DEF Init, NoFrame, Erxst
    <2> QED BY <1>1, <2>1, <2>2, MaxFramesAssumption DEF Init, TypeOK, PCs
  <1>3. Held = {} /\ Released = 0 /\ Base = Erxst
    BY DEF Init, Held, Released, Base
  <1>4. CountInStep
    BY DEF Init, CountInStep
  <1>5. NextPacketInStep
    BY <1>3 DEF Init, NextPacketInStep
  <1>6. RingInv
    BY <1>3 DEF Init, RingInv, HeldIntact, Chained, Ordered,
                BelowWritePointer, ReadPointerBehind
  <1>7. LocalsInv
    BY DEF Init, LocalsInv
  <1> QED BY <1>2, <1>4, <1>5, <1>6, <1>7 DEF IInv

\* Steps that leave the controller's ring alone leave RingInv alone.
LEMMA RingStable ==
    ASSUME RingInv, UNCHANGED <<chip, erxrdpt>>, Released' = Released
    PROVE  /\ RingInv'
           /\ Base' = Base
           /\ \A f : After(f)' = After(f)
  <1>1. /\ mem' = mem /\ frame' = frame /\ arrived' = arrived
        /\ erxwrpt' = erxwrpt /\ erxrdpt' = erxrdpt
    BY DEF chip
  <1>2. Base' = Base /\ Held' = Held
    BY <1>1 DEF Base, Held
  <1>3. \A f : After(f)' = After(f)
    BY <1>1 DEF After
  <1>4. HeldIntact'
    BY <1>1, <1>2 DEF RingInv, HeldIntact
  <1>5. Chained'
    BY <1>1, <1>2, <1>3 DEF RingInv, Chained
  <1>6. Ordered'
    BY <1>1, <1>2 DEF RingInv, Ordered
  <1>7. BelowWritePointer'
    BY <1>1, <1>2 DEF RingInv, BelowWritePointer
  <1>8. ReadPointerBehind'
    BY <1>1, <1>2 DEF RingInv, ReadPointerBehind
  <1> QED BY <1>2, <1>3, <1>4, <1>5, <1>6, <1>7, <1>8 DEF RingInv

\* The driver's steps between two writes to ERXRDPT and ECON2.
LEMMA ReadingStep ==
    ASSUME IInv,
           \/ Interrupt \/ PollCount \/ SetReadPointer \/ ReadHeader
           \/ ReadFrame \/ NoPbuf \/ Input \/ Send \/ Return
    PROVE  IInv'
  <1>1. /\ UNCHANGED <<chip, erxrdpt, epktcnt, freed>>
        /\ Released' = Released
        /\ frame' = frame /\ arrived' = arrived
    BY DEF IInv, TypeOK, PCs, Released, chip, Interrupt, PollCount, SetReadPointer,
           ReadHeader, ReadFrame, NoPbuf, Input, Send, Return
  <1>2. RingInv' /\ Base' = Base /\ \A f : After(f)' = After(f)
    BY <1>1, RingStable DEF IInv
  <1>3. TypeOK
    BY DEF IInv
  <1>4. /\ mem' \in [Ring -> [id : Nat, off : Nat]]
        /\ frame' \in [Frames -> [start : Ring, size : Nat, count : Nat, ok : BOOLEAN]]
        /\ arrived' \in 0 .. MaxFrames
        /\ erxwrpt' \in Ring
        /\ erxrdpt' \in Ring
        /\ epktcnt' \in Nat
        /\ freed' \in Nat
    BY <1>1, <1>3 DEF TypeOK, chip
  <1>5. CASE Interrupt
    <2>1. TypeOK'
      BY <1>3, <1>4, <1>5 DEF TypeOK, Interrupt, PCs
    <2>2. CountInStep'
      BY <1>1, <1>5 DEF IInv, CountInStep, Interrupt
    <2>3. NextPacketInStep'
      BY <1>2, <1>5 DEF IInv, NextPacketInStep, Interrupt
    <2>4. LocalsInv'
      BY <1>5 DEF LocalsInv, Interrupt
    <2> QED BY <1>2, <2>1, <2>2, <2>3, <2>4 DEF IInv
  <1>6. CASE PollCount
    <2>1. TypeOK'
      BY <1>3, <1>4, <1>6 DEF TypeOK, PollCount, PCs
    <2>2. CountInStep'
      BY <1>1, <1>3, <1>6, MaxFramesAssumption DEF IInv, TypeOK, CountInStep, PollCount
    <2>3. NextPacketInStep'
      BY <1>2, <1>6 DEF IInv, NextPacketInStep, PollCount
    <2>4. LocalsInv'
      BY <1>6 DEF LocalsInv, PollCount
    <2> QED BY <1>2, <2>1, <2>2, <2>3, <2>4 DEF IInv
  <1>7. CASE SetReadPointer
    <2>1. TypeOK'
      BY <1>3, <1>4, <1>7 DEF TypeOK, SetReadPointer, PCs
    <2>2. CountInStep'
      BY <1>1, <1>7 DEF IInv, CountInStep, SetReadPointer
    <2>3. NextPacketInStep'
      BY <1>2, <1>7 DEF IInv, NextPacketInStep, SetReadPointer
    <2>4. LocalsInv'
      BY <1>7 DEF LocalsInv, SetReadPointer
    <2> QED BY <1>2, <2>1, <2>2, <2>3, <2>4 DEF IInv
  <1>8. CASE ReadHeader
    <2>1. /\ erdpt = Base
          /\ freed < arrived
          /\ pc # "dec"
      BY <1>8 DEF IInv, CountInStep, NextPacketInStep, LocalsInv, ReadHeader
    <2>2. /\ freed + 1 \in Held
          /\ Base = frame[freed + 1].start
          /\ mem[Base].id = freed + 1
          /\ IsHeader(Base, freed + 1)
          /\ Wrap(Base + HdrSize) \in Ring
      BY <2>1, FirstHeld
    <2>3. /\ After(freed + 1) \in Ring
          /\ frame[freed + 1].count \in Nat
          /\ After(freed + 1) = Wrap(frame[freed + 1].start + frame[freed + 1].size)
      BY <2>2, HeldFacts
    <2>4. Headers(erdpt) = {[next |-> After(freed + 1),
                             count |-> frame[freed + 1].count,
                             ok |-> frame[freed + 1].ok]}
      BY <2>1, <2>2, <2>3 DEF Headers
    <2>5. /\ nextPacket' = After(freed + 1)
          /\ dataCount' = frame[freed + 1].count
          /\ pc' = IF frame[freed + 1].ok THEN "read" ELSE "mark"
          /\ erdpt' = Wrap(Base + HdrSize)
          /\ UNCHANGED <<rx, delivered>>
      BY <1>8, <2>1, <2>4 DEF ReadHeader
    <2>6. TypeOK'
      BY <1>3, <1>4, <2>2, <2>3, <2>5 DEF TypeOK, PCs
    <2>7. CountInStep'
      BY <1>1, <2>1, <2>5 DEF IInv, CountInStep
    <2>8. NextPacketInStep'
      BY <1>1, <1>2, <2>5 DEF NextPacketInStep
    <2>9. LocalsInv'
      BY <1>1, <2>2, <2>5 DEF LocalsInv
    <2> QED BY <1>2, <2>6, <2>7, <2>8, <2>9 DEF IInv
  <1>9. CASE ReadFrame
    <2>1. /\ freed < arrived
          /\ pc # "dec"
          /\ erdpt = Wrap(frame[freed + 1].start + HdrSize)
          /\ dataCount = frame[freed + 1].count
          /\ frame[freed + 1].ok
      BY <1>9 DEF IInv, CountInStep, LocalsInv, ReadFrame
    <2>2. /\ mem[erdpt].id = freed + 1
          /\ IsPayload(erdpt, dataCount, freed + 1)
          /\ Wrap(erdpt + dataCount) \in Ring
      BY <2>1, FirstHeld
    <2>3. rx' = freed + 1
      BY <1>9, <2>2 DEF ReadFrame, Payload
    <2>4. TypeOK'
      <3>1. rx' \in Nat
        BY <1>3, <2>3 DEF TypeOK
      <3>2. /\ erdpt' \in Ring
            /\ pc' = "alloc"
            /\ UNCHANGED <<nextPacket, dataCount, delivered>>
        BY <1>9, <2>2 DEF ReadFrame
      <3> QED BY <1>3, <1>4, <3>1, <3>2 DEF TypeOK, PCs
    <2>5. CountInStep'
      BY <1>1, <1>9, <2>1 DEF IInv, CountInStep, ReadFrame
    <2>6. NextPacketInStep'
      BY <1>1, <1>2, <1>9 DEF IInv, NextPacketInStep, ReadFrame
    <2>7. LocalsInv'
      BY <1>1, <1>9, <2>1, <2>3 DEF LocalsInv, ReadFrame
    <2> QED BY <1>2, <2>4, <2>5, <2>6, <2>7 DEF IInv
  <1>10. CASE NoPbuf
    <2>1. TypeOK'
      BY <1>3, <1>4, <1>10 DEF TypeOK, NoPbuf, PCs, Corrupt
    <2>2. CountInStep'
      BY <1>1, <1>10 DEF IInv, CountInStep, NoPbuf
    <2>3. NextPacketInStep'
      BY <1>1, <1>2, <1>10 DEF IInv, NextPacketInStep, NoPbuf
    <2>4. LocalsInv'
      BY <1>10 DEF LocalsInv, NoPbuf
    <2> QED BY <1>2, <2>1, <2>2, <2>3, <2>4 DEF IInv
  <1>11. CASE Input
    <2>1. delivered' \in Seq(Nat)
      BY <1>3, <1>11 DEF TypeOK, Input
    <2>2. TypeOK'
      BY <1>3, <1>4, <1>11, <2>1 DEF TypeOK, Input, PCs, Corrupt
    <2>3. CountInStep'
      BY <1>1, <1>11 DEF IInv, CountInStep, Input
    <2>4. NextPacketInStep'
      BY <1>1, <1>2, <1>11 DEF IInv, NextPacketInStep, Input
    <2>5. LocalsInv'
      BY <1>11 DEF LocalsInv, Input
    <2> QED BY <1>2, <2>2, <2>3, <2>4, <2>5 DEF IInv
  <1>12. CASE Send
    <2>1. TypeOK'
      BY <1>3, <1>4, <1>12 DEF TypeOK, Send, PCs
    <2>2. CountInStep'
      BY <1>1, <1>12 DEF IInv, CountInStep, Send
    <2>3. NextPacketInStep'
      BY <1>1, <1>2, <1>12 DEF IInv, NextPacketInStep, Send
    <2>4. LocalsInv'
      BY <1>12 DEF LocalsInv, Send
    <2> QED BY <1>2, <2>1, <2>2, <2>3, <2>4 DEF IInv
  <1>13. CASE Return
    <2>1. TypeOK'
      BY <1>3, <1>4, <1>13 DEF TypeOK, Return, PCs
    <2>2. CountInStep'
      BY <1>1, <1>13 DEF IInv, CountInStep, Return
    <2>3. NextPacketInStep'
      BY <1>1, <1>2, <1>13 DEF IInv, NextPacketInStep, Return
    <2>4. LocalsInv'
      BY <1>13 DEF LocalsInv, Return
    <2> QED BY <1>2, <2>1, <2>2, <2>3, <2>4 DEF IInv
  <1> QED BY <1>5, <1>6, <1>7, <1>8, <1>9, <1>10, <1>11, <1>12, <1>13

\* PKTDEC: the frame behind Base is forgotten, Base and the ring stay.
LEMMA PacketDecrementStep == IInv /\ PacketDecrement => IInv'
  <1> SUFFICES ASSUME IInv, PacketDecrement
               PROVE  IInv'
    OBVIOUS
  <1>1. TypeOK /\ CountInStep /\ pc = "dec" /\ freed < arrived
    BY DEF IInv, CountInStep, PacketDecrement
  <1>2. /\ UNCHANGED <<chip, erxrdpt>>
        /\ freed' = freed + 1
        /\ epktcnt' = epktcnt - 1
        /\ pc' = "loop"
        /\ arrived' = arrived
        /\ Released' = Released
    BY <1>1 DEF PacketDecrement, Released, chip
  <1>3. RingInv' /\ Base' = Base
    BY <1>2, RingStable DEF IInv
  <1>4. arrived \in Nat /\ freed \in Nat /\ epktcnt = arrived - freed
    BY <1>1, MaxFramesAssumption DEF TypeOK, CountInStep
  <1>5. epktcnt' \in Nat /\ freed' \in Nat
    BY <1>1, <1>2, <1>4
  <1>6. TypeOK'
    <2>1. UNCHANGED <<mem, frame, arrived, erxwrpt, erxrdpt, erdpt, nextPacket,
                      dataCount, rx, delivered>>
      BY DEF PacketDecrement, chip
    <2> QED BY <1>1, <1>2, <1>5, <2>1 DEF TypeOK, PCs
  <1>7. CountInStep'
    BY <1>2, <1>4 DEF CountInStep
  <1>8. NextPacketInStep'
    BY <1>1, <1>2, <1>3 DEF IInv, NextPacketInStep, PacketDecrement
  <1>9. LocalsInv'
    BY <1>2 DEF LocalsInv
  <1> QED BY <1>3, <1>6, <1>7, <1>8, <1>9 DEF IInv

\* Writing ERXRDPT: Base moves up to the next frame, and the distances of the
\* frames still held shrink by the size of the one given back.
LEMMA MarkReadStep == IInv /\ MarkRead => IInv'
  <1> SUFFICES ASSUME IInv, MarkRead
               PROVE  IInv'
    OBVIOUS
  <1>1. /\ TypeOK /\ CountInStep /\ RingInv
        /\ pc = "mark" /\ freed < arrived
        /\ nextPacket = After(freed + 1)
    BY DEF IInv, CountInStep, NextPacketInStep, MarkRead
  <1>2. /\ UNCHANGED <<mem, frame, arrived, erxwrpt, epktcnt, erdpt, nextPacket,
                       dataCount, rx, freed, delivered>>
        /\ pc' = "dec"
        /\ erxrdpt' = Pred(nextPacket)
    BY DEF MarkRead, chip, Pred
  <1>3. arrived \in Nat /\ freed \in Nat /\ erxwrpt \in Ring
    BY <1>1, MaxFramesAssumption DEF TypeOK
  <1>4. /\ Released = freed /\ Released' = freed + 1
        /\ Held = freed + 1 .. arrived
        /\ Held' = freed + 2 .. arrived
    BY <1>1, <1>2, <1>3 DEF Released, Held
  <1>5. Base = frame[freed + 1].start
    BY <1>1, <1>4 DEF Base
  <1>6. Base' = After(freed + 1)
    BY <1>2, <1>3, <1>4 DEF Base, After
  <1>7. \A f : After(f)' = After(f)
    BY <1>2 DEF After
  <1>8. PICK s \in Nat : s = frame[freed + 1].size
    BY <1>3, <1>4, <1>1, HeldFacts
  <1>9. /\ Base \in Ring /\ Base' \in Ring
        /\ s >= 1
        /\ Dist(Base, Base') = s
    <2>1. freed + 1 \in Held
      BY <1>1, <1>3, <1>4
    <2>2. Base \in Ring /\ Base' \in Ring /\ s >= 1
      BY <1>6, <1>8, <2>1, HeldFacts
    <2>3. Dist(Base, Base) + s = Dist(Base, Base')
      BY <1>1, <1>5, <1>6, <1>8, <2>1 DEF RingInv, Chained
    <2> QED BY <2>2, <2>3, DistRange
  \* The frames still held, and ERXWRPT, lie beyond the new Base.
  <1>10. \A f \in Held' :
            /\ f \in Held
            /\ frame[f].start \in Ring
            /\ After(f) \in Ring
            /\ frame[f].size \in Nat
            /\ s <= Dist(Base, frame[f].start)
            /\ s <= Dist(Base, After(f))
    <2> TAKE f \in Held'
    <2>1. /\ f \in Held /\ freed + 1 \in Held /\ freed + 1 < f
      BY <1>1, <1>3, <1>4
    <2>2. frame[f].start \in Ring /\ After(f) \in Ring /\ frame[f].size \in Nat
      BY <2>1, HeldFacts
    <2>3. Dist(Base, Base) + s <= Dist(Base, frame[f].start)
      BY <1>1, <1>5, <1>8, <2>1 DEF RingInv, Ordered
    <2>4. s <= Dist(Base, frame[f].start)
      BY <1>9, <2>3, DistRange
    <2>5. Dist(Base, frame[f].start) + frame[f].size = Dist(Base, After(f))
      BY <1>1, <2>1 DEF RingInv, Chained
    <2>6. Dist(Base, frame[f].start) \in Nat
      BY <1>9, <2>2, DistRange
    <2> QED BY <2>1, <2>2, <2>4, <2>5, <2>6
  <1>11. s <= Dist(Base, erxwrpt)
    <2>1. freed + 1 \in Held
      BY <1>1, <1>3, <1>4
    <2>2. Dist(Base, Base) + s <= Dist(Base, erxwrpt)
      BY <1>1, <1>5, <1>8, <2>1 DEF RingInv, BelowWritePointer
    <2> QED BY <1>9, <2>2, DistRange
  <1>12. \A f \in Held' :
            /\ Dist(Base', frame[f].start) = Dist(Base, frame[f].start) - s
            /\ Dist(Base', After(f)) = Dist(Base, After(f)) - s
            /\ Dist(Base, frame[f].start) \in Nat
            /\ Dist(Base, After(f)) \in Nat
    BY <1>9, <1>10, DistShift, DistRange
  <1>13. /\ Dist(Base', erxwrpt) = Dist(Base, erxwrpt) - s
         /\ Dist(Base, erxwrpt) \in Nat
         /\ Dist(Base, erxwrpt) < RxSize
    BY <1>3, <1>9, <1>11, DistShift, DistRange
  <1>14. HeldIntact'
    BY <1>1, <1>2, <1>10 DEF RingInv, HeldIntact
  <1>15. Chained'
    <2> SUFFICES ASSUME NEW f \in Held'
                 PROVE  /\ HdrSize + frame[f].count <= frame[f].size
                        /\ frame[f].count >= 1
                        /\ Dist(Base', frame[f].start) + frame[f].size
                              = Dist(Base', After(f))
      BY <1>2, <1>7 DEF Chained
    <2>1. /\ HdrSize + frame[f].count <= frame[f].size
          /\ frame[f].count >= 1
          /\ Dist(Base, frame[f].start) + frame[f].size = Dist(Base, After(f))
      BY <1>1, <1>10 DEF RingInv, Chained
    <2> QED BY <1>10, <1>12, <2>1
  <1>16. Ordered'
    <2> SUFFICES ASSUME NEW f \in Held', NEW g \in Held', f < g
                 PROVE  Dist(Base', frame[f].start) + frame[f].size
                           <= Dist(Base', frame[g].start)
      BY <1>2 DEF Ordered
    <2>1. Dist(Base, frame[f].start) + frame[f].size <= Dist(Base, frame[g].start)
      BY <1>1, <1>10 DEF RingInv, Ordered
    <2> QED BY <1>10, <1>12, <2>1
  <1>17. BelowWritePointer'
    <2> SUFFICES ASSUME NEW f \in Held'
                 PROVE  Dist(Base', frame[f].start) + frame[f].size
                           <= Dist(Base', erxwrpt)
      BY <1>2 DEF BelowWritePointer
    <2>1. Dist(Base, frame[f].start) + frame[f].size <= Dist(Base, erxwrpt)
      BY <1>1, <1>10 DEF RingInv, BelowWritePointer
    <2> QED BY <1>10, <1>12, <1>13, <2>1
  <1>18. ReadPointerBehind'
    <2>1. erxrdpt' = Pred(Base')
      BY <1>1, <1>2, <1>6
    <2>2. Dist(Base', erxwrpt) <= RxSize - 2
      BY <1>9, <1>13, RxSizeAssumption
    <2> QED BY <1>2, <2>1, <2>2 DEF ReadPointerBehind
  <1>19. TypeOK'
    <2>1. Pred(nextPacket) \in Ring
      BY <1>1, RxSizeAssumption DEF TypeOK, Pred, Ring, Erxst, Erxnd
    <2> QED BY <1>1, <1>2, <2>1 DEF TypeOK, PCs
  <1>20. CountInStep'
    BY <1>1, <1>2 DEF CountInStep
  <1>21. NextPacketInStep'
    BY <1>1, <1>2, <1>6 DEF NextPacketInStep
  <1>22. LocalsInv'
    BY <1>2 DEF LocalsInv
  <1> QED
    BY <1>14, <1>15, <1>16, <1>17, <1>18, <1>19, <1>20, <1>21, <1>22
       DEF IInv, RingInv

\* The controller stores a frame: it goes behind the frames held, where the
\* free-space rule leaves room for it, so the frames held keep their bytes.
LEMMA AcceptStep == IInv /\ Accept => IInv'
  <1> SUFFICES ASSUME IInv, Accept
               PROVE  IInv'
    OBVIOUS
  <1>1. PICK c \in Counts, pad \in 0 .. 1, ok \in BOOLEAN :
            LET f == arrived + 1
                size == HdrSize + c + pad
            IN  /\ arrived < MaxFrames
                /\ size <= FreeSpace
                /\ mem' = [a \in Ring |-> IF Dist(erxwrpt, a) < size
                                          THEN [id |-> f, off |-> Dist(erxwrpt, a)]
                                          ELSE mem[a]]
                /\ frame' = [frame EXCEPT ![f] = [start |-> erxwrpt, size |-> size,
                                                  count |-> c, ok |-> ok]]
                /\ arrived' = f
                /\ erxwrpt' = Wrap(erxwrpt + size)
                /\ epktcnt' = epktcnt + 1
                /\ UNCHANGED <<erxrdpt, erdpt, pc, nextPacket, dataCount, rx,
                               freed, delivered>>
    BY DEF Accept
  <1>2. PICK n \in Nat : n = arrived + 1
    BY MaxFramesAssumption DEF IInv, TypeOK
  <1>3. PICK s \in Nat : s = HdrSize + c + pad
    BY CountsAssumption, HdrAssumption
  <1>4. c \in Nat /\ c >= 1 /\ HdrSize + c <= s /\ s >= 1
    BY <1>3, CountsAssumption, HdrAssumption
  <1>5. /\ n \in Frames
        /\ s <= FreeSpace
        /\ mem' = [a \in Ring |-> IF Dist(erxwrpt, a) < s
                                  THEN [id |-> n, off |-> Dist(erxwrpt, a)]
                                  ELSE mem[a]]
        /\ frame' = [frame EXCEPT ![n] = [start |-> erxwrpt, size |-> s,
                                          count |-> c, ok |-> ok]]
        /\ arrived' = n
        /\ erxwrpt' = Wrap(erxwrpt + s)
        /\ epktcnt' = epktcnt + 1
        /\ UNCHANGED <<erxrdpt, erdpt, pc, nextPacket, dataCount, rx,
                       freed, delivered>>
    <2>1. arrived < MaxFrames /\ arrived \in Nat
      BY <1>1, MaxFramesAssumption DEF IInv, TypeOK
    <2>2. n \in Frames
      BY <2>1, <1>2, MaxFramesAssumption DEF Frames
    <2> QED BY <1>1, <1>2, <1>3, <2>2
  <1>6. /\ TypeOK /\ CountInStep /\ RingInv
        /\ arrived \in Nat /\ freed \in Nat /\ erxwrpt \in Ring /\ erxrdpt \in Ring
        /\ frame \in [Frames -> [start : Ring, size : Nat, count : Nat, ok : BOOLEAN]]
    BY MaxFramesAssumption DEF IInv, TypeOK
  <1>7. /\ frame'[n] = [start |-> erxwrpt, size |-> s, count |-> c, ok |-> ok]
        /\ \A f \in Frames : f # n => frame'[f] = frame[f]
    BY <1>5, <1>6
  <1>8. /\ Base \in Ring /\ Released \in Nat /\ Released <= arrived
        /\ Released' = Released
        /\ Held' = Held \cup {n}
        /\ \A f \in Held : f \in Frames /\ f # n /\ f <= arrived
    <2>1. Base \in Ring /\ Released \in Nat /\ Released <= arrived
      BY HeldFacts
    <2>2. Released' = Released
      BY <1>5 DEF Released
    <2>3. Held' = Held \cup {n}
      BY <1>2, <1>5, <1>6, <2>1, <2>2 DEF Held
    <2>4. \A f \in Held : f \in Frames /\ f # n /\ f <= arrived
      BY <1>2, <1>6, HeldFacts DEF Held
    <2> QED BY <2>1, <2>2, <2>3, <2>4
  <1>9. Base' = Base
    <2>1. CASE Released < arrived
      <3>1. Released + 1 \in Held
        BY <1>6, <1>8, <2>1 DEF Held
      <3>2. frame'[Released + 1] = frame[Released + 1]
        BY <1>7, <1>8, <3>1
      <3>3. Released' < arrived'
        BY <1>2, <1>5, <1>6, <1>8, <2>1
      <3> QED BY <1>8, <2>1, <3>2, <3>3 DEF Base
    <2>2. CASE Released = arrived
      <3>1. Released' + 1 = n /\ Released' < arrived'
        BY <1>2, <1>5, <1>6, <1>8, <2>2
      <3>2. Base' = frame'[n].start
        BY <3>1 DEF Base
      <3>3. Base = erxwrpt
        BY <1>6, <2>2 DEF Base
      <3> QED BY <1>7, <3>2, <3>3
    <2> QED BY <1>6, <1>8, <2>1, <2>2
  <1>10. \A f \in Frames : f <= arrived => After(f)' = After(f)
    <2> SUFFICES ASSUME NEW f \in Frames, f <= arrived
                 PROVE  After(f)' = After(f)
      OBVIOUS
    <2>1. f \in Nat /\ f < arrived'
      BY <1>2, <1>5, <1>6, MaxFramesAssumption DEF Frames
    <2>2. After(f)' = frame'[f + 1].start
      BY <2>1 DEF After
    <2>3. CASE f < arrived
      <3>1. f + 1 \in Frames /\ f + 1 # n
        BY <1>2, <1>6, <2>1, <2>3, MaxFramesAssumption DEF Frames, TypeOK
      <3> QED BY <1>7, <2>2, <2>3, <3>1 DEF After
    <2>4. CASE f = arrived
      <3>1. frame'[f + 1].start = erxwrpt
        BY <1>2, <1>7, <2>4
      <3>2. After(f) = erxwrpt
        BY <1>6, <2>4 DEF After
      <3> QED BY <2>2, <3>1, <3>2
    <2> QED BY <1>6, <2>1, <2>3, <2>4
  <1>11. After(n)' = erxwrpt'
    BY <1>5 DEF After
  \* There is room: the new frame ends short of a turn from Base.
  <1>12. /\ Dist(Base, erxwrpt) \in Nat
         /\ FreeSpace \in Nat
         /\ Dist(Base, erxwrpt) + s <= RxSize - 1
         /\ erxrdpt = Pred(Base) /\ Dist(Base, erxwrpt) <= RxSize - 2
                => Dist(Base, erxwrpt) + s <= RxSize - 2
    <2>1. \/ erxrdpt = Pred(Base) /\ Dist(Base, erxwrpt) <= RxSize - 2
          \/ erxrdpt = Erxst /\ Base = Erxst
      BY <1>6 DEF RingInv, ReadPointerBehind
    <2>2. /\ FreeSpace \in Nat
          /\ erxrdpt = Pred(Base) /\ Dist(Base, erxwrpt) <= RxSize - 2
                => Dist(Base, erxwrpt) + FreeSpace = RxSize - 2
          /\ Dist(Base, erxwrpt) + FreeSpace <= RxSize - 1
      BY <1>6, <1>8, <2>1, FreeSpaceBound
    <2>3. Dist(Base, erxwrpt) \in Nat
      BY <1>6, <1>8, DistRange
    <2> QED BY <1>5, <2>2, <2>3, RxSizeAssumption
  <1>13. erxwrpt' \in Ring /\ Dist(Base, erxwrpt') = Dist(Base, erxwrpt) + s
    <2>1. Dist(Base, erxwrpt) + s < RxSize
      BY <1>12, RxSizeAssumption
    <2> QED BY <1>5, <1>6, <1>8, <2>1, WrapDist
  <1>14. \A f \in Held :
            /\ frame'[f] = frame[f]
            /\ After(f)' = After(f)
            /\ frame[f].start \in Ring
            /\ frame[f].size \in Nat
            /\ Dist(Base, frame[f].start) \in Nat
            /\ Dist(Base, frame[f].start) + frame[f].size < RxSize
            /\ Dist(Base, frame[f].start) + frame[f].size <= Dist(Base, erxwrpt)
    <2> TAKE f \in Held
    <2>1. /\ frame'[f] = frame[f]
          /\ After(f)' = After(f)
      BY <1>7, <1>8, <1>10
    <2>2. /\ frame[f].start \in Ring
          /\ frame[f].size \in Nat
          /\ Dist(Base, frame[f].start) + frame[f].size < RxSize
      BY HeldFacts
    <2>3. Dist(Base, frame[f].start) + frame[f].size <= Dist(Base, erxwrpt)
      BY <1>6 DEF RingInv, BelowWritePointer
    <2> QED BY <1>8, <2>1, <2>2, <2>3, DistRange
  <1>15. HeldIntact'
    <2>1. ASSUME NEW f \in Held, NEW i \in 0 .. frame[f].size - 1
          PROVE  mem'[Wrap(frame[f].start + i)] = [id |-> f, off |-> i]
      <3>1. PICK x : x = Wrap(frame[f].start + i)
        OBVIOUS
      <3>2. /\ i \in Nat /\ i < frame[f].size
            /\ Dist(Base, frame[f].start) + i < Dist(Base, erxwrpt)
        BY <1>12, <1>14
      <3>3. x \in Ring /\ Dist(Base, x) = Dist(Base, frame[f].start) + i
        <4>1. Dist(Base, frame[f].start) + i < RxSize
          BY <1>14, <3>2, RxSizeAssumption
        <4> QED BY <1>8, <1>14, <3>1, <3>2, <4>1, WrapDist
      <3>4. Dist(erxwrpt, x) = (Dist(Base, x) - Dist(Base, erxwrpt)) + RxSize
        BY <1>6, <1>8, <3>2, <3>3, DistBehind
      <3>5. ~(Dist(erxwrpt, x) < s)
        BY <1>12, <1>14, <3>2, <3>3, <3>4, RxSizeAssumption
      <3>6. mem'[x] = mem[x]
        BY <1>5, <3>3, <3>5
      <3>7. mem[x] = [id |-> f, off |-> i]
        BY <1>6, <3>1 DEF RingInv, HeldIntact
      <3> QED BY <3>1, <3>6, <3>7
    <2>2. ASSUME NEW i \in 0 .. s - 1
          PROVE  mem'[Wrap(erxwrpt + i)] = [id |-> n, off |-> i]
      <3>1. /\ i \in Nat /\ i < s /\ i < RxSize
        BY <1>12, RxSizeAssumption
      <3>2. Dist(erxwrpt, erxwrpt) = 0
        BY <1>6, DistRange
      <3>3. /\ Wrap(erxwrpt + i) \in Ring
            /\ Dist(erxwrpt, Wrap(erxwrpt + i)) = Dist(erxwrpt, erxwrpt) + i
        <4>1. Dist(erxwrpt, erxwrpt) + i < RxSize
          BY <3>1, <3>2
        <4> QED BY <1>6, <3>1, <4>1, WrapDist
      <3>4. Dist(erxwrpt, Wrap(erxwrpt + i)) = i
        BY <3>1, <3>2, <3>3
      <3> QED BY <1>5, <3>1, <3>3, <3>4
    <2>3. frame'[n].start = erxwrpt /\ frame'[n].size = s
      BY <1>7
    <2> QED BY <1>8, <1>14, <2>1, <2>2, <2>3 DEF HeldIntact
  <1>16. Chained'
    <2>1. ASSUME NEW f \in Held
          PROVE  /\ HdrSize + frame'[f].count <= frame'[f].size
                 /\ frame'[f].count >= 1
                 /\ Dist(Base, frame'[f].start) + frame'[f].size
                       = Dist(Base, After(f)')
      BY <1>6, <1>14 DEF RingInv, Chained
    <2>2. /\ HdrSize + frame'[n].count <= frame'[n].size
          /\ frame'[n].count >= 1
          /\ Dist(Base, frame'[n].start) + frame'[n].size = Dist(Base, After(n)')
      BY <1>4, <1>7, <1>11, <1>13
    <2> QED BY <1>8, <1>9, <2>1, <2>2 DEF Chained
  <1>17. Ordered'
    <2> SUFFICES ASSUME NEW f \in Held', NEW g \in Held', f < g
                 PROVE  Dist(Base, frame'[f].start) + frame'[f].size
                           <= Dist(Base, frame'[g].start)
      BY <1>9 DEF Ordered
    <2>1. CASE f \in Held /\ g \in Held
      BY <1>6, <1>14, <2>1 DEF RingInv, Ordered
    <2>2. CASE f \in Held /\ g = n
      BY <1>7, <1>14, <2>2
    <2>3. f \in Held
      BY <1>2, <1>6, <1>8 DEF Held
    <2> QED BY <1>8, <2>1, <2>2, <2>3
  <1>18. BelowWritePointer'
    <2>1. ASSUME NEW f \in Held
          PROVE  Dist(Base, frame'[f].start) + frame'[f].size <= Dist(Base, erxwrpt')
      BY <1>12, <1>13, <1>14
    <2>2. Dist(Base, frame'[n].start) + frame'[n].size <= Dist(Base, erxwrpt')
      BY <1>7, <1>12, <1>13
    <2> QED BY <1>8, <1>9, <2>1, <2>2 DEF BelowWritePointer
  <1>19. ReadPointerBehind'
    <2>1. \/ erxrdpt = Pred(Base) /\ Dist(Base, erxwrpt) <= RxSize - 2
          \/ erxrdpt = Erxst /\ Base = Erxst /\ Released = 0
      BY <1>6 DEF RingInv, ReadPointerBehind
    <2> QED BY <1>5, <1>8, <1>9, <1>12, <1>13, <2>1 DEF ReadPointerBehind
  <1>20. TypeOK'
    <2>1. mem' \in [Ring -> [id : Nat, off : Nat]]
      <3>1. \A a \in Ring : mem[a] \in [id : Nat, off : Nat] /\ Dist(erxwrpt, a) \in Nat
        BY <1>6, DistRange DEF TypeOK
      <3> QED BY <1>5, <3>1
    <2>2. frame' \in [Frames -> [start : Ring, size : Nat, count : Nat, ok : BOOLEAN]]
      BY <1>4, <1>5, <1>6
    <2>3. arrived' \in 0 .. MaxFrames /\ epktcnt' \in Nat
      BY <1>5, <1>6, MaxFramesAssumption DEF TypeOK, Frames
    <2> QED BY <1>5, <1>6, <1>13, <2>1, <2>2, <2>3 DEF TypeOK
  <1>21. CountInStep'
    BY <1>2, <1>5, <1>6 DEF CountInStep, TypeOK
  <1>22. pc \notin {"main", "loop"} =>
            /\ frame'[freed + 1] = frame[freed + 1]
            /\ After(freed + 1)' = After(freed + 1)
    <2>1. pc \notin {"main", "loop"} =>
             freed + 1 \in Frames /\ freed + 1 <= arrived /\ freed + 1 # n
      BY <1>2, <1>5, <1>6, MaxFramesAssumption DEF CountInStep, Frames
    <2>2. freed' = freed
      BY <1>5
    <2>3. ASSUME NEW k \in Frames, k <= arrived, k = freed + 1
          PROVE  After(freed + 1)' = After(freed + 1)
      BY <1>10, <2>2, <2>3
    <2> QED BY <1>7, <2>1, <2>3
  <1>23. NextPacketInStep'
    BY <1>5, <1>9, <1>22, <1>6 DEF IInv, NextPacketInStep, TypeOK, PCs
  <1>24. LocalsInv'
    BY <1>5, <1>22 DEF IInv, LocalsInv
  <1> QED
    BY <1>15, <1>16, <1>17, <1>18, <1>19, <1>20, <1>21, <1>23, <1>24
       DEF IInv, RingInv
-----------------------------------------------------------------------------
(* IInv holds in every reachable state: it holds after InitConfig, and     *)
(* every SPI access of the driver and every reception keeps it.            *)
THEOREM Invariance == Spec => []IInv
  <1>1. Init => IInv
    BY InitIInv
  <1>2. IInv /\ [Next]_vars => IInv'
    <2> SUFFICES ASSUME IInv, [Next]_vars
                 PROVE  IInv'
      OBVIOUS
    <2>1. CASE Accept
      BY <2>1, AcceptStep
    <2>2. CASE Interrupt \/ Send
      BY <2>2, ReadingStep
    <2>3. CASE Driver
      BY <2>3, ReadingStep, MarkReadStep, PacketDecrementStep DEF Driver
    <2>4. CASE UNCHANGED vars
      <3>1. UNCHANGED <<mem, frame, arrived, erxwrpt, erxrdpt, epktcnt, erdpt,
                        pc, nextPacket, dataCount, rx, freed, delivered>>
        BY <2>4 DEF vars
      <3>2. Released' = Released
        BY <3>1 DEF Released
      <3>3. RingInv' /\ Base' = Base /\ \A f : After(f)' = After(f)
        BY <3>1, <3>2, RingStable DEF IInv, chip
      <3>4. TypeOK' /\ CountInStep' /\ LocalsInv'
        BY <3>1 DEF IInv, TypeOK, CountInStep, LocalsInv
      <3>5. NextPacketInStep'
        BY <3>1, <3>3 DEF IInv, NextPacketInStep
      <3> QED BY <3>3, <3>4, <3>5 DEF IInv
    <2> QED BY <2>1, <2>2, <2>3, <2>4 DEF Next
  <1> QED BY <1>1, <1>2, PTL DEF Spec

(* No step of the driver or of the controller leaves the registers, the    *)
(* ring or the driver's variables with a value outside their ranges; in    *)
(* particular ERXRDPT always stays inside the ring (enc28j60.cpp:213-222). *)
THEOREM TypeCorrect == Spec => []TypeOK
  <1>1. IInv => TypeOK
    BY DEF IInv
  <1> QED BY <1>1, Invariance, PTL

(* The controller never overwrites a frame that Receive has not marked as  *)
(* read (enc28j60.cpp:191-222), whatever arrives between its steps.        *)
THEOREM HeldFramesIntact == Spec => []HeldIntact
  <1>1. IInv => HeldIntact
    BY DEF IInv, RingInv
  <1> QED BY <1>1, Invariance, PTL

(* Driver and controller never lose step: nextPacket is where the next     *)
(* frame is (enc28j60.cpp:196), EPKTCNT is the number of frames the driver *)
(* has still to acknowledge, and Receive runs only when there is one.      *)
THEOREM InStep == Spec => [](NextPacketInStep /\ CountInStep)
  <1>1. IInv => NextPacketInStep /\ CountInStep
    BY DEF IInv
  <1> QED BY <1>1, Invariance, PTL

(* Draining the packets gives the whole ring but two bytes back, so the    *)
(* receive path cannot run out of space for good (enc28j60.cpp:210-223).   *)
THEOREM RingReclaimed == Spec => []SpaceReclaimed
  <1>1. IInv => SpaceReclaimed
    <2> SUFFICES ASSUME IInv, epktcnt = 0
                 PROVE  FreeSpace >= RxSize - 2
      BY DEF SpaceReclaimed
    <2>1. /\ arrived \in Nat /\ freed \in Nat /\ arrived = freed
          /\ erxwrpt \in Ring /\ erxrdpt \in Ring
      BY MaxFramesAssumption DEF IInv, TypeOK, CountInStep
    <2>2. Released = arrived
      BY <2>1 DEF IInv, CountInStep, Released
    <2>3. Base = erxwrpt
      BY <2>1, <2>2 DEF Base
    <2>4. \/ erxrdpt = Pred(erxwrpt)
          \/ erxrdpt = Erxst /\ erxwrpt = Erxst
      BY <2>3 DEF IInv, RingInv, ReadPointerBehind
    <2> QED BY <2>1, <2>4, RxSizeAssumption
            DEF FreeSpace, Pred, Ring, Erxst, Erxnd
  <1> QED BY <1>1, Invariance, PTL
-----------------------------------------------------------------------------
(* The receive path implements the safety part of FrameQueue: the frames   *)
(* given to netif->input (enc28j60_stellaris.cpp:136) are good frames, in  *)
(* order of arrival, none twice, and none of them damaged.                 *)
THEOREM ImplementsQueue == Spec => Queue!SafeSpec
  <1> DEFINE Good == {f \in 1 .. arrived : frame[f].ok}
  <1>1. Init => Queue!Init
    <2> SUFFICES ASSUME Init PROVE Queue!Init
      OBVIOUS
    <2>1. Good = {}
      BY DEF Init
    <2> QED BY <2>1 DEF Init, Queue!Init, Handled
  <1>2. IInv /\ [Next]_vars => [Queue!Next]_Queue!vars
    <2> SUFFICES ASSUME IInv, [Next]_vars
                 PROVE  Queue!Next \/ UNCHANGED Queue!vars
      OBVIOUS
    <2>1. /\ arrived \in Nat /\ freed \in Nat /\ arrived <= MaxFrames
          /\ freed <= arrived
          /\ pc \notin {"main", "loop"} => freed < arrived
      BY MaxFramesAssumption DEF IInv, TypeOK, CountInStep
    \* Steps that keep what the queue is made of are stuttering steps.
    <2>2. ASSUME UNCHANGED <<frame, arrived, delivered>>, Handled' = Handled
          PROVE  UNCHANGED Queue!vars
      <3>1. Good' = Good
        BY <2>2
      <3> QED BY <2>2, <3>1 DEF Queue!vars
    \* Steps that only move on to the next frame discard one.
    <2>3. ASSUME UNCHANGED <<frame, arrived, delivered>>, Handled = freed,
                 freed < arrived, Handled' = freed + 1
          PROVE  Queue!Next
      <3>1. Good' = Good
        BY <2>3
      <3> QED BY <2>3, <3>1 DEF Queue!Next, Queue!Discard
    <2>4. CASE Accept
      <3>1. PICK ok \in BOOLEAN, c \in Counts, pad \in 0 .. 1 :
                /\ arrived < MaxFrames
                /\ frame' = [frame EXCEPT ![arrived + 1] =
                        [start |-> erxwrpt, size |-> HdrSize + c + pad,
                         count |-> c, ok |-> ok]]
                /\ arrived' = arrived + 1
                /\ UNCHANGED <<pc, freed, delivered>>
        BY <2>4 DEF Accept
      <3>2. frame \in [Frames -> [start : Ring, size : Nat, count : Nat, ok : BOOLEAN]]
        BY DEF IInv, TypeOK
      <3>3. PICK n \in Nat : n = arrived + 1
        BY <2>1
      <3>4. n \in Frames
        BY <2>1, <3>1, <3>3, MaxFramesAssumption DEF Frames
      <3>5. /\ frame'[n].ok = ok
            /\ \A f \in 1 .. arrived : frame'[f] = frame[f]
        BY <2>1, <3>1, <3>2, <3>3, <3>4, MaxFramesAssumption DEF Frames
      <3>6. Good' = IF ok THEN Good \cup {n} ELSE Good
        <4>1. 1 .. arrived' = (1 .. arrived) \cup {n}
          BY <2>1, <3>1, <3>3
        <4> QED BY <3>5, <4>1
      <3>7. Handled' = Handled
        BY <3>1 DEF Handled
      <3> QED BY <3>1, <3>3, <3>6, <3>7 DEF Queue!Next, Queue!Accept
    <2>5. CASE Interrupt \/ PollCount \/ SetReadPointer \/ ReadFrame \/ Send
               \/ Return \/ MarkRead
      <3>1. UNCHANGED <<frame, arrived, delivered>> /\ Handled' = Handled
        BY <2>5 DEF Interrupt, PollCount, SetReadPointer, ReadFrame, Send, Return,
                    MarkRead, Handled, chip
      <3> QED BY <2>2, <3>1
    <2>6. CASE ReadHeader
      <3>1. UNCHANGED <<frame, arrived, delivered, freed>>
            /\ Handled = freed /\ freed < arrived
        BY <2>1, <2>6 DEF ReadHeader, Handled, chip
      <3>2. pc' \in {"read", "mark"}
        BY <2>6 DEF ReadHeader
      <3>3. CASE pc' = "read"
        BY <2>2, <3>1, <3>3 DEF Handled
      <3>4. CASE pc' = "mark"
        BY <2>3, <3>1, <3>4 DEF Handled
      <3> QED BY <3>2, <3>3, <3>4
    <2>7. CASE NoPbuf
      <3>1. /\ UNCHANGED <<frame, arrived, delivered>>
            /\ Handled = freed /\ freed < arrived /\ Handled' = freed + 1
        BY <2>1, <2>7 DEF NoPbuf, Handled, chip
      <3> QED BY <2>3, <3>1
    <2>8. CASE Input
      <3>1. /\ UNCHANGED <<frame, arrived>>
            /\ delivered' = Append(delivered, rx)
            /\ Handled = freed /\ freed < arrived /\ Handled' = freed + 1
        BY <2>1, <2>8 DEF Input, Handled, chip
      <3>2. rx = freed + 1 /\ freed + 1 \in Good
        BY <2>1, <2>8, <3>1 DEF IInv, LocalsInv, Input
      <3>3. Good' = Good
        BY <3>1
      <3> QED BY <3>1, <3>2, <3>3 DEF Queue!Next, Queue!Deliver
    <2>9. CASE PacketDecrement
      <3>1. UNCHANGED <<frame, arrived, delivered>> /\ Handled' = Handled
        BY <2>1, <2>9 DEF PacketDecrement, Handled, chip
      <3> QED BY <2>2, <3>1
    <2>10. CASE UNCHANGED vars
      <3>1. UNCHANGED <<frame, arrived, delivered>> /\ Handled' = Handled
        BY <2>10 DEF vars, Handled
      <3> QED BY <2>2, <3>1
    <2> QED BY <2>4, <2>5, <2>6, <2>7, <2>8, <2>9, <2>10 DEF Next, Driver
  <1> QED BY <1>1, <1>2, Invariance, PTL DEF Spec, Queue!SafeSpec
=============================================================================

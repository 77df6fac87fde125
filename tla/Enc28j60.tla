------------------------------ MODULE Enc28j60 ------------------------------
(***************************************************************************)
(* The receive path of the ENC28J60 driver (ENC28J60::Interrupt and        *)
(* ENC28J60::Receive, with BusDriver::OnReceive) against the controller.   *)
(* Every access is an SPI transaction and the controller goes on receiving *)
(* between two of them, so the driver is one action per group of           *)
(* transactions whose effect the controller can see, in the order of the   *)
(* source, and the controller accepts a frame between any two of them.     *)
(*                                                                         *)
(* Addresses are cells of the ring of RxRing.  A cell holds the number of  *)
(* the frame that was last written there and the offset of the byte in it; *)
(* what the header bytes say is looked up in the table "frame" when they   *)
(* are intact, and is anything at all when they are not.                   *)
(***************************************************************************)
EXTENDS RxRing, Sequences

CONSTANTS
    HdrSize,        \* bytes of the receive status vector and next pointer: 6
    Counts,         \* values of the byte count (data_count) of a frame
    MaxFrames       \* bound: frames that arrive in a behaviour

ASSUME HdrAssumption == HdrSize \in Nat /\ HdrSize >= 1
ASSUME CountsAssumption == Counts \subseteq Nat \ {0}
ASSUME MaxFramesAssumption == MaxFrames \in Nat

VARIABLES
    \* the controller
    mem,            \* the receive ring
    frame,          \* frames accepted so far: where they are, their header
    arrived,        \* number of frames accepted so far
    erxwrpt,        \* where the next frame will be written
    erxrdpt,        \* the controller may not write past this cell
    epktcnt,        \* packets not yet acknowledged with PKTDEC
    erdpt,          \* read pointer of RBM, shared by Receive and Send
    \* the driver
    pc,             \* where Interrupt is
    nextPacket,     \* ENC28J60::nextPacket
    dataCount,      \* local data_count of Receive
    rx,             \* what OnReceive's buffer holds: a frame, or Corrupt
    \* history
    freed,          \* number of packets acknowledged
    delivered       \* what netif->input was called with, oldest first

chip == <<mem, frame, arrived, erxwrpt>>
vars == <<mem, frame, arrived, erxwrpt, erxrdpt, epktcnt, erdpt,
          pc, nextPacket, dataCount, rx, freed, delivered>>

Frames == 1 .. MaxFrames
Corrupt == 0                        \* bytes that are not those of one frame
NoFrame == [start |-> 0, size |-> 0, count |-> 0, ok |-> FALSE]
TxArea == RxSize                    \* TX_START: the first address above RX_END

PCs == {"main", "loop", "seek", "header", "read", "alloc", "input", "mark", "dec"}

\* Bytes the controller may still write (its free-space rule, external).
FreeSpace ==
    IF erxwrpt > erxrdpt THEN (RxSize - 1) - (erxwrpt - erxrdpt)
    ELSE IF erxwrpt = erxrdpt THEN RxSize - 1
    ELSE (erxrdpt - erxwrpt) - 1

\* The header bytes at address a are those of frame f, and the c bytes there
\* are its payload.
IsHeader(a, f) ==
    /\ f \in 1 .. arrived
    /\ \A i \in 0 .. HdrSize - 1 : mem[Wrap(a + i)] = [id |-> f, off |-> i]
IsPayload(a, c, f) ==
    /\ f \in 1 .. arrived
    /\ c = frame[f].count
    /\ \A i \in 0 .. c - 1 : mem[Wrap(a + i)] = [id |-> f, off |-> HdrSize + i]

\* What six bytes of RBM at address a can decode to.
Headers(a) ==
    LET f == mem[a].id
    IN  IF IsHeader(a, f)
        THEN {[next |-> Wrap(frame[f].start + frame[f].size),
               count |-> frame[f].count, ok |-> frame[f].ok]}
        ELSE [next : Ring, count : Counts, ok : BOOLEAN]

\* What c bytes of RBM at address a are.
Payload(a, c) == IF IsPayload(a, c, mem[a].id) THEN mem[a].id ELSE Corrupt
-----------------------------------------------------------------------------
\* After InitConfig: pointers at ERXST, reception enabled.
Init ==
    /\ mem = [a \in Ring |-> [id |-> Corrupt, off |-> 0]]
    /\ frame = [f \in Frames |-> NoFrame]
    /\ arrived = 0
    /\ erxwrpt = Erxst
    /\ erxrdpt = Erxst
    /\ epktcnt = 0
    /\ erdpt = Erxst
    /\ pc = "main"
    /\ nextPacket = Erxst
    /\ dataCount = 0
    /\ rx = Corrupt
    /\ freed = 0
    /\ delivered = <<>>

(* The controller stores header, c bytes and at most one padding byte when *)
(* they fit, and counts the packet.  A frame that does not fit is lost     *)
(* and leaves no trace, which is a stuttering step.                        *)
Accept ==
    \E c \in Counts, pad \in 0 .. 1, ok \in BOOLEAN :
        LET f == arrived + 1
            size == HdrSize + c + pad
        IN  /\ arrived < MaxFrames
            /\ size <= FreeSpace
            /\ mem' = [a \in Ring |-> IF Dist(erxwrpt, a) < size
                                      THEN [id |-> f, off |-> Dist(erxwrpt, a)]
                                      ELSE mem[a]]
            /\ frame' = [frame EXCEPT ![f] = [start |-> erxwrpt, size |-> size,
                                              count |-> c, ok |-> ok]]
            /\ arrived' = f
            /\ erxwrpt' = Wrap(erxwrpt + size)
            /\ epktcnt' = epktcnt + 1
            /\ UNCHANGED <<erxrdpt, erdpt, pc, nextPacket, dataCount, rx,
                           freed, delivered>>

\* Interrupt reads EIR.  PKTIF mirrors "EPKTCNT is not zero"; when it is
\* clear the call returns with nothing done.
Interrupt ==
    /\ pc = "main"
    /\ epktcnt > 0
    /\ pc' = "loop"
    /\ UNCHANGED <<chip, erxrdpt, epktcnt, erdpt, nextPacket, dataCount, rx,
                   freed, delivered>>

\* while (READ_REG(ENC_EPKTCNT) > 0)
PollCount ==
    /\ pc = "loop"
    /\ pc' = IF epktcnt > 0 THEN "seek" ELSE "main"
    /\ UNCHANGED <<chip, erxrdpt, epktcnt, erdpt, nextPacket, dataCount, rx,
                   freed, delivered>>

\* Fault: trust ERDPT to stand at the next packet already.
SetReadPointerOmitted ==
    /\ pc = "seek"
    /\ pc' = "header"
    /\ erdpt' = IF erdpt = TxArea THEN nextPacket ELSE erdpt
    /\ UNCHANGED <<chip, erxrdpt, epktcnt, nextPacket, dataCount, rx,
                   freed, delivered>>

\* ERDPT := nextPacket
SetReadPointer ==
    /\ pc = "seek"
    /\ erdpt' = nextPacket
    /\ pc' = "header"
    /\ UNCHANGED <<chip, erxrdpt, epktcnt, nextPacket, dataCount, rx,
                   freed, delivered>>

\* Fault: the space is given back before the frame is read.
ReadHeaderFreesEarly ==
    /\ pc = "header"
    /\ \E h \in Headers(erdpt) :
        /\ nextPacket' = h.next
        /\ dataCount' = h.count
        /\ pc' = IF h.ok THEN "read" ELSE "mark"
        /\ erxrdpt' = Pred(h.next)
    /\ erdpt' = Wrap(erdpt + HdrSize)
    /\ UNCHANGED <<chip, epktcnt, rx, freed, delivered>>

\* Fault: a frame with an error status does not move nextPacket.
ReadHeaderStaysOnBad ==
    /\ pc = "header"
    /\ \E h \in Headers(erdpt) :
        /\ nextPacket' = IF h.ok THEN h.next ELSE nextPacket
        /\ dataCount' = h.count
        /\ pc' = IF h.ok THEN "read" ELSE "mark"
    /\ erdpt' = Wrap(erdpt + HdrSize)
    /\ UNCHANGED <<chip, erxrdpt, epktcnt, rx, freed, delivered>>

\* Fault: a frame with an error status is acknowledged but not marked as read.
ReadHeaderLeaksBad ==
    /\ pc = "header"
    /\ \E h \in Headers(erdpt) :
        /\ nextPacket' = h.next
        /\ dataCount' = h.count
        /\ pc' = IF h.ok THEN "read" ELSE "dec"
    /\ erdpt' = Wrap(erdpt + HdrSize)
    /\ UNCHANGED <<chip, erxrdpt, epktcnt, rx, freed, delivered>>

\* RBM(header, 6), and the branch on the "received OK" status bit.
ReadHeader ==
    /\ pc = "header"
    /\ \E h \in Headers(erdpt) :
        /\ nextPacket' = h.next
        /\ dataCount' = h.count
        /\ pc' = IF h.ok THEN "read" ELSE "mark"
    /\ erdpt' = Wrap(erdpt + HdrSize)
    /\ UNCHANGED <<chip, erxrdpt, epktcnt, rx, freed, delivered>>

\* OnReceive: RBM(frame, data_count), before a pbuf is asked for.  That the
\* count may be larger than frame is left out.
ReadFrame ==
    /\ pc = "read"
    /\ rx' = Payload(erdpt, dataCount)
    /\ erdpt' = Wrap(erdpt + dataCount)
    /\ pc' = "alloc"
    /\ UNCHANGED <<chip, erxrdpt, epktcnt, nextPacket, dataCount, freed, delivered>>

\* OnReceive: pbuf_alloc returned NULL, the frame is dropped silently.
NoPbuf ==
    /\ pc = "alloc"
    /\ rx' = Corrupt
    /\ pc' = "mark"
    /\ UNCHANGED <<chip, erxrdpt, epktcnt, erdpt, nextPacket, dataCount,
                   freed, delivered>>

\* OnReceive: the copy is given to netif->input.
Input ==
    /\ pc = "alloc"
    /\ delivered' = Append(delivered, rx)
    /\ rx' = Corrupt
    /\ pc' = "input"
    /\ UNCHANGED <<chip, erxrdpt, epktcnt, erdpt, nextPacket, dataCount, freed>>

\* Send reads its transmit status with the same read pointer.  The stack
\* calls it from inside netif->input, and from its timers in the main loop.
Send ==
    /\ pc \in {"main", "input"}
    /\ erdpt' = TxArea
    /\ UNCHANGED <<chip, erxrdpt, epktcnt, pc, nextPacket, dataCount, rx,
                   freed, delivered>>

\* netif->input and OnReceive return.
Return ==
    /\ pc = "input"
    /\ pc' = "mark"
    /\ UNCHANGED <<chip, erxrdpt, epktcnt, erdpt, nextPacket, dataCount, rx,
                   freed, delivered>>

\* Fault: no case for a next packet at ERXST.
MarkReadUnwrapped ==
    /\ pc = "mark"
    /\ erxrdpt' = nextPacket - 1
    /\ pc' = "dec"
    /\ UNCHANGED <<chip, epktcnt, erdpt, nextPacket, dataCount, rx,
                   freed, delivered>>

\* Give the space back.  The controller acts on ERXRDPT when the high byte
\* is written, so the two byte writes are one step.
MarkRead ==
    /\ pc = "mark"
    /\ erxrdpt' = IF nextPacket = Erxst THEN Erxnd ELSE nextPacket - 1
    /\ pc' = "dec"
    /\ UNCHANGED <<chip, epktcnt, erdpt, nextPacket, dataCount, rx,
                   freed, delivered>>

\* ECON2.PKTDEC
PacketDecrement ==
    /\ pc = "dec"
    /\ epktcnt' = epktcnt - 1
    /\ freed' = freed + 1
    /\ pc' = "loop"
    /\ UNCHANGED <<chip, erxrdpt, erdpt, nextPacket, dataCount, rx, delivered>>

Driver ==
    \/ PollCount \/ SetReadPointer \/ ReadHeader \/ ReadFrame
    \/ NoPbuf \/ Input \/ Return \/ MarkRead \/ PacketDecrement

Next == Accept \/ Interrupt \/ Driver \/ Send

Spec == Init /\ [][Next]_vars

(* The driver's own code runs to its end (Driver), and Interrupt is called *)
(* again as long as a packet is pending, which is what EventLoop shows of  *)
(* the main loop.  Nothing is assumed of Accept and of Send.               *)
FairSpec == Spec /\ WF_vars(Driver) /\ WF_vars(Interrupt)
-----------------------------------------------------------------------------
\* Frames whose space has been given back, and the oldest address in use.
Released == IF pc = "dec" THEN freed + 1 ELSE freed
Held == Released + 1 .. arrived
Base == IF Released < arrived THEN frame[Released + 1].start ELSE erxwrpt

\* Where the frame after f starts.
After(f) == IF f < arrived THEN frame[f + 1].start ELSE erxwrpt

TypeOK ==
    /\ mem \in [Ring -> [id : Nat, off : Nat]]
    /\ frame \in [Frames -> [start : Ring, size : Nat, count : Nat, ok : BOOLEAN]]
    /\ arrived \in 0 .. MaxFrames
    /\ erxwrpt \in Ring
    /\ erxrdpt \in Ring
    /\ epktcnt \in Nat
    /\ erdpt \in Ring \cup {TxArea}
    /\ pc \in PCs
    /\ nextPacket \in Ring
    /\ dataCount \in Nat
    /\ rx \in Nat
    /\ freed \in Nat
    /\ delivered \in Seq(Nat)

(* The controller never writes over a frame whose space the driver has not *)
(* given back: each of its bytes is still where it was stored.             *)
HeldIntact ==
    \A f \in Held : \A i \in 0 .. frame[f].size - 1 :
        mem[Wrap(frame[f].start + i)] = [id |-> f, off |-> i]

(* The driver and the controller agree on where the next frame starts:     *)
(* before the header is read nextPacket is the oldest frame held, after it *)
(* the frame behind it, and ERXWRPT when there is none.                    *)
NextPacketInStep ==
    nextPacket = IF pc \in {"main", "loop", "seek", "header", "dec"}
                 THEN Base ELSE After(freed + 1)

(* EPKTCNT counts exactly the frames the driver is not done with, so       *)
(* Receive is never entered for a frame that is not there.                 *)
CountInStep ==
    /\ epktcnt = arrived - freed
    /\ pc \notin {"main", "loop"} => freed < arrived

(* Nothing of the ring is lost for good: when all packets are acknowledged *)
(* all but two bytes of it are free again, whatever mixture of good, bad   *)
(* and undeliverable frames went through it.                               *)
SpaceReclaimed == epktcnt = 0 => FreeSpace >= RxSize - 2

(* The receive path implements the abstract queue: what the stack gets are *)
(* the good frames, in order, each at most once, byte for byte; and under  *)
(* FairSpec each accepted frame is handled.                                *)
Handled == IF pc \in {"input", "mark", "dec"} THEN freed + 1 ELSE freed
Queue == INSTANCE FrameQueue WITH
            accepted <- arrived,
            good <- {f \in 1 .. arrived : frame[f].ok},
            handled <- Handled

DeliversQueue == Queue!Spec
-----------------------------------------------------------------------------
(***************************************************************************)
(* Why it works: measured from Base, the frames held lie one after the     *)
(* other below ERXWRPT, and ERXRDPT is one cell behind Base, so that the   *)
(* controller's idea of free space never reaches into a frame held.        *)
(***************************************************************************)
\* Frame f ends where the next one starts, without going round the ring.
Chained ==
    \A f \in Held :
        /\ HdrSize + frame[f].count <= frame[f].size
        /\ frame[f].count >= 1
        /\ Dist(Base, frame[f].start) + frame[f].size = Dist(Base, After(f))

Ordered ==
    \A f, g \in Held :
        f < g => Dist(Base, frame[f].start) + frame[f].size
                    <= Dist(Base, frame[g].start)

BelowWritePointer ==
    \A f \in Held :
        Dist(Base, frame[f].start) + frame[f].size <= Dist(Base, erxwrpt)

\* Until the first packet is given back ERXRDPT is still ERXST.
ReadPointerBehind ==
    \/ erxrdpt = Pred(Base) /\ Dist(Base, erxwrpt) <= RxSize - 2
    \/ erxrdpt = Erxst /\ Base = Erxst /\ Released = 0

RingInv ==
    /\ HeldIntact
    /\ Chained
    /\ Ordered
    /\ BelowWritePointer
    /\ ReadPointerBehind

\* What the driver's registers and locals hold at each of its steps.
LocalsInv ==
    /\ pc = "header" => erdpt = nextPacket
    /\ pc = "read" => /\ erdpt = Wrap(frame[freed + 1].start + HdrSize)
                      /\ dataCount = frame[freed + 1].count
                      /\ frame[freed + 1].ok
    /\ pc = "alloc" => rx = freed + 1 /\ frame[freed + 1].ok

IInv ==
    /\ TypeOK
    /\ CountInStep
    /\ NextPacketInStep
    /\ RingInv
    /\ LocalsInv
=============================================================================

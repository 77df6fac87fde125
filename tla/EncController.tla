---------------------------- MODULE EncController ----------------------------
(***************************************************************************)
(* The register calls of the ENC28J60 driver, in the order of the source:  *)
(* ENC28J60::InitConfig with ReadPHY and WritePHY, GetMACAddress called    *)
(* from lwip_init, Interrupt and Receive, and Send, called by the stack    *)
(* from a timer or from inside Receive.  Every call goes through the banks *)
(* of RegisterBanks, the controller works on by itself, and the processor  *)
(* may be reset anywhere.                                                  *)
(*                                                                         *)
(* Left out: the buffer memory with the pointers its transactions move     *)
(* (Enc28j60 is about those), the delays, the transmit status, and a count *)
(* of packets above one.                                                   *)
(***************************************************************************)
EXTENDS RegisterBanks

CONSTANTS
    Mac,            \* mac_addr of main.cpp: six bytes
    PhyPowerOn,     \* PHY register -> its contents at power on
    NextPackets,    \* what a received header's next pointer can be
    Counts,         \* sizes of transmitted frames
    MaxRestarts     \* bound: resets of the processor

\* The registers the driver names, and those it sets and clears bits of.
BitFields == {"ECON1", "ECON2", "EIE", "EIR"}
Named ==
    BitFields \cup
    {"ERDPTL", "ERDPTH", "EWRPTL", "EWRPTH", "ETXSTL", "ETXSTH", "ETXNDL", "ETXNDH",
     "ERXSTL", "ERXSTH", "ERXNDL", "ERXNDH", "ERXRDPTL", "ERXRDPTH", "ERXFCON",
     "EPKTCNT", "ESTAT", "MACON1", "MACON3", "MABBIPG", "MAIPGL", "MAIPGH",
     "MAMXFLL", "MAMXFLH", "MICMD", "MIREGADR", "MIWRL", "MIWRH", "MIRDL", "MIRDH",
     "MISTAT", "MAADR1", "MAADR2", "MAADR3", "MAADR4", "MAADR5", "MAADR6"}
ASSUME NamedAssumption == Named \subseteq Register /\ BitFields \cap MacMii = {}
ASSUME VolatileNamed ==
    {"ESTAT", "MISTAT", "MIRDL", "MIRDH", "EIR", "EPKTCNT"} \subseteq Volatile

VARIABLES
    stage,          \* where the driver is when todo is empty
    phy,            \* PHY register -> its contents, a set of bits
    hwaddr,         \* netif->hwaddr, as far as lwip_init has filled it
    nextPacket,     \* ENC28J60::nextPacket
    restarts

own == <<stage, phy, hwaddr, nextPacket, restarts>>
vars == <<bankVars, own>>

TX_START == 8191 - 1536
RX_END == TX_START - 1
PHCON1 == Byte(0)
PHSTAT2 == Byte(17)
PDPXMD == 8
DPXSTAT == 9
ASSUME PhyAssumption == PhyPowerOn \in [{PHCON1, PHSTAT2} -> SUBSET (0 .. 15)]
\* The 16-bit word of two bytes; the bytes of a word.
Word(bytes) == bytes[1] \cup {b + 8 : b \in bytes[2]}
LowByte(w) == w \cap Bit
HighByte(w) == {b \in Bit : b + 8 \in w}
WriteWord(l, h, n) == <<Write(l, Low(n)), Write(h, High(n))>>

Init ==
    /\ BanksInit
    /\ stage = "off"
    /\ phy = PhyPowerOn
    /\ hwaddr = <<>>
    /\ nextPacket = 0
    /\ restarts = 0
-----------------------------------------------------------------------------
(* InitConfig.                                                             *)
\* Fault: the loop's condition the wrong way round.
AwaitClockStopped == <<UntilClear("ESTAT", CLKRDY)>>
\* do { reg = READ_REG(ENC_ESTAT) } while ((reg & ENC_ESTAT_CLKRDY) == 0)
AwaitClock == <<UntilSet("ESTAT", CLKRDY)>>

SetRXMemoryArea(start, end) ==
    WriteWord("ERXSTL", "ERXSTH", start) \o WriteWord("ERXNDL", "ERXNDH", end)
       \o WriteWord("ERXRDPTL", "ERXRDPTH", start)

Prepare ==
    <<Set("ECON1", {TXRST}), Clear("ECON1", {RXEN}), Set("ECON2", {AUTOINC})>>
       \o SetRXMemoryArea(0, RX_END)

\* Fault: the wait for the end of the MII operation is left out.
ReadPHYAtOnce(address) ==
    <<Write("MIREGADR", address), Write("MICMD", {MIIRD}), Write("MICMD", {}),
      ReadM("MIRDL"), ReadM("MIRDH")>>
ReadPHY(address) ==
    <<Write("MIREGADR", address), Write("MICMD", {MIIRD}),
      UntilClearM("MISTAT", BUSY), Write("MICMD", {}),
      ReadM("MIRDL"), ReadM("MIRDH")>>
WritePHY(address, w) ==
    <<Write("MIREGADR", address), Write("MIWRL", LowByte(w)),
      Write("MIWRH", HighByte(w)), UntilClearM("MISTAT", BUSY)>>

Maadr == <<"MAADR1", "MAADR2", "MAADR3", "MAADR4", "MAADR5", "MAADR6">>
SetMACAddress == [i \in 1 .. 6 |-> Write(Maadr[i], Byte(Mac[i]))]

Configure ==
    <<Write("ERXFCON", {7, 5, 0, 1}),       \* UCEN, CRCEN, BCEN, MCEN
      Write("MACON1", {3, 2, 0}),           \* TXPAUS, RXPAUS, MARXEN
      Write("MACON3", {5, 4, 1}),           \* PADCFG 1, TXRCEN, FRMLNEN
      Write("MAMXFLL", Low(1518)), Write("MAMXFLH", High(1518)),
      Write("MABBIPG", Byte(18)), Write("MAIPGL", Byte(18)), Write("MAIPGH", Byte(12))>>
Enable ==
    <<Set("EIE", {7, 6}),                   \* INTIE, PKTIE
      Clear("ECON1", {TXRST, RXRST}), Set("ECON1", {RXEN})>>
\* Fault: packets can arrive while the MAC is being set up.
FinishEnabledEarly == Enable \o SetMACAddress \o Configure
Finish == SetMACAddress \o Configure \o Enable

InitConfig ==
    /\ Boot(AwaitClock \o Prepare \o ReadPHY(PHSTAT2))
    /\ stage' = "phstat2"
    /\ nextPacket' = 0
    /\ UNCHANGED <<phy, hwaddr, restarts>>
PhyStat2 ==
    /\ stage = "phstat2"
    /\ Begin(WritePHY(PHSTAT2, Word(read) \ {DPXSTAT}) \o ReadPHY(PHCON1))
    /\ stage' = "phcon1"
    /\ UNCHANGED <<phy, hwaddr, nextPacket, restarts>>
PhyCon1 ==
    /\ stage = "phcon1"
    /\ Begin(WritePHY(PHCON1, Word(read) \ {PDPXMD}) \o Finish)
    /\ stage' = "config"
    /\ UNCHANGED <<phy, hwaddr, nextPacket, restarts>>

\* StellarisENC28J60::lwip_init, called by netif_add, and GetMACAddress: a
\* byte at a time, with READ_REG.
LwipInit ==
    /\ stage = "config"
    /\ Begin(<<Read(Maadr[1])>>)
    /\ stage' = "mac"
    /\ hwaddr' = <<>>
    /\ UNCHANGED <<phy, nextPacket, restarts>>
GetMACAddress ==
    /\ stage = "mac"
    /\ hwaddr' = Append(hwaddr, read[2])
    /\ IF Len(hwaddr) < 5
       THEN Begin(<<Read(Maadr[Len(hwaddr) + 2])>>) /\ stage' = stage
       ELSE Begin(<<>>) /\ stage' = "idle"
    /\ UNCHANGED <<phy, nextPacket, restarts>>
-----------------------------------------------------------------------------
(* Send.                                                                   *)
SendPrepare(count) ==
    WriteWord("ETXSTL", "ETXSTH", TX_START) \o WriteWord("EWRPTL", "EWRPTH", TX_START)
       \o WriteWord("ETXNDL", "ETXNDH", TX_START + count)
       \o <<Set("ECON1", {TXRST}), Clear("ECON1", {TXRST}), Clear("EIR", {TXIF})>>
\* Fault: the transmission is left to itself.
SendDoesNotWait(count) ==
    SendPrepare(count) \o <<Set("ECON1", {TXRTS})>>
       \o WriteWord("ERDPTL", "ERDPTH", TX_START + count + 1)
Send(count) ==
    SendPrepare(count) \o <<Set("ECON1", {TXRTS}), UntilClear("ECON1", TXRTS)>>
       \o WriteWord("ERDPTL", "ERDPTH", TX_START + count + 1)

\* A timer of the main loop makes the stack send.
Timer ==
    /\ stage = "idle"
    /\ \E count \in Counts : Begin(Send(count))
    /\ UNCHANGED own

(* Interrupt and Receive.                                                  *)
Interrupt ==
    /\ stage = "idle"
    /\ Begin(<<Read("EIR")>>)
    /\ stage' = "eir"
    /\ UNCHANGED <<phy, hwaddr, nextPacket, restarts>>
CheckEir ==
    /\ stage = "eir"
    /\ IF PKTIF \in read[2] THEN Begin(<<Read("EPKTCNT")>>) /\ stage' = "count"
                            ELSE Begin(<<>>) /\ stage' = "idle"
    /\ UNCHANGED <<phy, hwaddr, nextPacket, restarts>>
PollCount ==
    /\ stage = "count"
    /\ IF read[2] # {}
       THEN Begin(WriteWord("ERDPTL", "ERDPTH", nextPacket)) /\ stage' = "header"
       ELSE Begin(<<>>) /\ stage' = "idle"
    /\ UNCHANGED <<phy, hwaddr, nextPacket, restarts>>
\* The header is read, and OnReceive may make the stack send an answer.
OnReceive ==
    /\ stage = "header"
    /\ nextPacket' \in NextPackets
    /\ \E answer \in {<<>>} \cup {Send(count) : count \in Counts} :
           Begin(answer \o <<Read("ERXSTL"), Read("ERXSTH")>>)
    /\ stage' = "erxst"
    /\ UNCHANGED <<phy, hwaddr, restarts>>
MarkAtEnd ==
    <<Read("ERXNDL"), WriteRead("ERXRDPTL"), Read("ERXNDH"), WriteRead("ERXRDPTH")>>
MarkRead ==
    /\ stage = "erxst"
    /\ Begin((IF Word(read) = Word(<<Low(nextPacket), High(nextPacket)>>)
              THEN MarkAtEnd
              ELSE WriteWord("ERXRDPTL", "ERXRDPTH", nextPacket - 1))
             \o <<Set("ECON2", {PKTDEC}), Read("EPKTCNT")>>)
    /\ stage' = "count"
    /\ UNCHANGED <<phy, hwaddr, nextPacket, restarts>>
-----------------------------------------------------------------------------
(* The calls themselves, the controller, and a reset of the processor.     *)
Transaction == (SwitchRead \/ SwitchWrite \/ Access) /\ UNCHANGED own

ClockReady ==
    /\ CLKRDY \notin chip["ESTAT"]
    /\ chip' = [chip EXCEPT !["ESTAT"] = @ \cup {CLKRDY}]
    /\ UNCHANGED <<bsel, on, activeBank, todo, step, econ1, read, own>>

\* PHSTAT2 cannot be written.
MiiDone ==
    /\ BUSY \in chip["MISTAT"]
    /\ LET address == chip["MIREGADR"]
       IN  IF MIIRD \in chip["MICMD"]
           THEN /\ chip' = [chip EXCEPT !["MISTAT"] = @ \ {BUSY},
                                        !["MIRDL"] = LowByte(phy[address]),
                                        !["MIRDH"] = HighByte(phy[address])]
                /\ phy' = phy
           ELSE /\ chip' = [chip EXCEPT !["MISTAT"] = @ \ {BUSY}]
                /\ phy' = IF address = PHCON1
                          THEN [phy EXCEPT ![PHCON1] = Word(<<chip["MIWRL"], chip["MIWRH"]>>)]
                          ELSE phy
    /\ UNCHANGED <<bsel, on, activeBank, todo, step, econ1, read,
                   stage, hwaddr, nextPacket, restarts>>

TxDone ==
    /\ TXRTS \in chip["ECON1"]
    /\ chip' = [chip EXCEPT !["ECON1"] = @ \ {TXRTS}, !["EIR"] = @ \cup {TXIF}]
    /\ UNCHANGED <<bsel, on, activeBank, todo, step, econ1, read, own>>

PacketArrives ==
    /\ RXEN \in chip["ECON1"]
    /\ chip["EPKTCNT"] = {}
    /\ chip' = [chip EXCEPT !["EPKTCNT"] = {0}, !["EIR"] = @ \cup {PKTIF}]
    /\ UNCHANGED <<bsel, on, activeBank, todo, step, econ1, read, own>>

ProcessorReset ==
    /\ restarts < MaxRestarts
    /\ Restart
    /\ stage' = "off"
    /\ hwaddr' = <<>>
    /\ nextPacket' = 0
    /\ restarts' = restarts + 1
    /\ UNCHANGED phy

Starting == InitConfig \/ PhyStat2 \/ PhyCon1 \/ LwipInit \/ GetMACAddress
Running == Timer \/ Interrupt \/ CheckEir \/ PollCount \/ OnReceive \/ MarkRead
Next ==
    \/ Starting \/ Running \/ Transaction
    \/ ClockReady \/ MiiDone \/ TxDone \/ PacketArrives \/ ProcessorReset
Fairness ==
    /\ WF_vars(Starting \/ Transaction)
    /\ WF_vars(ClockReady) /\ WF_vars(MiiDone) /\ WF_vars(TxDone)
Spec == Init /\ [][Next]_vars /\ Fairness
-----------------------------------------------------------------------------
\* Reception is enabled only while the controller is set up as the comments
\* of InitConfig say, also when the processor was reset at any point of an
\* earlier set-up, reception or transmission: each register written has its
\* byte, each one set bit by bit has the bits.  ERXRDPT, which InitConfig
\* writes too, moves with the packets read.
Intended ==
    [ERXSTL |-> 0, ERXSTH |-> 0, ERXNDL |-> RX_END % 256, ERXNDH |-> RX_END \div 256,
     ERXFCON |-> 163, MACON1 |-> 13, MACON3 |-> 50, MAMXFLL |-> 238, MAMXFLH |-> 5,
     MABBIPG |-> 18, MAIPGL |-> 18, MAIPGH |-> 12,
     MAADR1 |-> Mac[1], MAADR2 |-> Mac[2], MAADR3 |-> Mac[3],
     MAADR4 |-> Mac[4], MAADR5 |-> Mac[5], MAADR6 |-> Mac[6]]
IntendedBits == [ECON2 |-> {AUTOINC}, EIE |-> {7, 6}]       \* EIE: INTIE, PKTIE
ConfiguredBeforeReceiving ==
    RXEN \in chip["ECON1"] =>
        /\ \A r \in DOMAIN Intended : chip[r] = Byte(Intended[r])
        /\ \A r \in DOMAIN IntendedBits : IntendedBits[r] \subseteq chip[r]

\* PHCON1 ends up with what InitConfig writes to it, its contents at power on
\* with PDPXMD clear: what ReadPHY returned was what the PHY had, and WritePHY
\* reached it.
PhyAsWritten ==
    stage \notin {"off", "phstat2", "phcon1", "config"}
       => phy[PHCON1] = PhyPowerOn[PHCON1] \ {PDPXMD}

\* Init and Send come back: the series of calls under way ends, and start-up
\* reaches the main loop unless the processor is reset.
SettingUp == stage \in {"phstat2", "phcon1", "config", "mac"}
CallsEnd == (todo # <<>> \/ SettingUp) ~> (todo = <<>> /\ ~SettingUp)

\* What two comments say of start-up: netif->hwaddr is the address the
\* controller was given ("Get MAC address", enc28j60.cpp:560), and the PHY is
\* in full duplex mode ("Configure PDPXMD for full-duplex operation", line 97).
MacReadBack == hwaddr = [i \in 1 .. 6 |-> Byte(Mac[i])]
FullDuplex == PDPXMD \in phy[PHCON1]

\* When start-up is over at least one of the two is true: a state that
\* violates this contradicts both comments.
StartedAsCommented == stage = "idle" => MacReadBack \/ FullDuplex
=============================================================================

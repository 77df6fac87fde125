---------------------------- MODULE RegisterCalls ----------------------------
(***************************************************************************)
(* The calls the ENC28J60 driver makes on registers (READ_REG, WRITE_REG,  *)
(* READ_MREG, SET_REG_BITS, CLEAR_REG_BITS) and what the controller does   *)
(* to its registers when one arrives.  A byte is the set of its bits.      *)
(***************************************************************************)
EXTENDS Integers, Sequences

CONSTANTS
    Table,          \* enc28j60reg.h: register -> its bank and address
    MacMii,         \* the registers RCR answers with a dummy byte first
    DummyBytes,     \* what a dummy byte can be
    Volatile        \* the registers the controller changes by itself

Bit == 0 .. 7
Byte(n) == {b \in Bit : (n \div 2^b) % 2 = 1}
Low(n) == Byte(n % 256)
High(n) == Byte(n \div 256)

Register == DOMAIN Table
BankOf(r) == Table[r].bank
AddrOf(r) == Table[r].addr
ANY_BANK == 4
CLKRDY == 0                         \* ESTAT
MIIRD == 0                          \* MICMD
BUSY == 0                           \* MISTAT
RXEN == 2  TXRTS == 3  RXRST == 6  TXRST == 7       \* ECON1
PKTDEC == 6  AUTOINC == 7                           \* ECON2
PKTIF == 6  TXIF == 3                               \* EIR

\* No two registers answer at one address of one bank; those of every bank
\* have their addresses to themselves.
ASSUME TableAssumption ==
    /\ Table \in [Register -> [bank : 0 .. 4, addr : 0 .. 31]]
    /\ \A r, s \in Register :
           r # s /\ AddrOf(r) = AddrOf(s)
              => BankOf(r) # BankOf(s) /\ ANY_BANK \notin {BankOf(r), BankOf(s)}
    /\ {"ECON1", "ECON2", "EIR", "EPKTCNT", "MICMD", "MIWRH", "MISTAT"}
          \subseteq Register
    /\ BankOf("ECON1") = ANY_BANK
ASSUME MacMiiAssumption == MacMii \subseteq Register \ {"ECON1"}
ASSUME DummyAssumption == DummyBytes \subseteq SUBSET Bit /\ DummyBytes # {}
ASSUME VolatileAssumption == Volatile \subseteq Register \ {"ECON1"}

-----------------------------------------------------------------------------
(* A call: the SPI command, the register, the byte sent.  A read may be    *)
(* one turn of a loop "until" a bit of the byte is set or clear.           *)
Read(r) == [op |-> "RCR", reg |-> r, byte |-> {}, until |-> "read"]
ReadM(r) == [op |-> "RCRM", reg |-> r, byte |-> {}, until |-> "read"]
UntilSet(r, b) == [op |-> "RCR", reg |-> r, byte |-> {b}, until |-> "set"]
UntilClear(r, b) == [op |-> "RCR", reg |-> r, byte |-> {b}, until |-> "clear"]
UntilClearM(r, b) == [op |-> "RCRM", reg |-> r, byte |-> {b}, until |-> "clear"]
Write(r, v) == [op |-> "WCR", reg |-> r, byte |-> v, until |-> "read"]
WriteRead(r) == [op |-> "WCRread", reg |-> r, byte |-> {}, until |-> "read"]
Set(r, m) == [op |-> "BFS", reg |-> r, byte |-> m, until |-> "read"]
Clear(r, m) == [op |-> "BFC", reg |-> r, byte |-> m, until |-> "read"]

(* ECON1 is only read for its flags, and only changed bit by bit by the    *)
(* callers: its BSEL bits are SwitchBank's.  Bit fields are "not valid for *)
(* MAC and MII registers" (enc28j60.cpp:379).                              *)
Call ==
    {c \in [op : {"RCR", "RCRM", "WCR", "WCRread", "BFS", "BFC"},
            reg : Register, byte : SUBSET Bit, until : {"read", "set", "clear"}] :
        /\ c.reg = "ECON1" => c.op \in {"RCR", "BFS", "BFC"}
        /\ c.op \in {"BFS", "BFC"} => c.reg \notin MacMii
        /\ c.until # "read" => c.op \in {"RCR", "RCRM"}}

Transmits(c) == c.reg = "ECON1" /\ c.op = "BFS" /\ TXRTS \in c.byte
AwaitsTransmit(c) == c = UntilClear("ECON1", TXRTS)

\* What the driver may be about to call: whoever starts a transmission waits
\* for its end at once.
Program ==
    {s \in Seq(Call) : \A i \in 1 .. Len(s) :
        Transmits(s[i]) => i < Len(s) /\ AwaitsTransmit(s[i + 1])}
-----------------------------------------------------------------------------
(* The registers f after the byte v was sent for r, and what the           *)
(* controller does at once: it starts an MII operation, or counts a packet *)
(* down.                                                                   *)
Stored(op, old, v) ==
    CASE op = "BFS" -> old \cup v
      [] op = "BFC" -> old \ v
      [] op \in {"WCR", "WCRread"} -> v
      [] OTHER -> old
React(f, op, r, v) ==
    IF op = "WCR" /\ (r = "MIWRH" \/ (r = "MICMD" /\ MIIRD \in v))
    THEN [f EXCEPT !["MISTAT"] = @ \cup {BUSY}]
    ELSE IF op = "BFS" /\ r = "ECON2" /\ PKTDEC \in v
    THEN [f EXCEPT !["ECON2"] = @ \ {PKTDEC}, !["EPKTCNT"] = {}, !["EIR"] = @ \ {PKTIF}]
    ELSE f
After(f, c, r, v) == React([f EXCEPT ![r] = Stored(c.op, @, v)], c.op, r, v)

\* read is what the last two reads returned: the two bytes of a word.
Sent(c, read) == IF c.op = "WCRread" THEN read[2] ELSE c.byte
Reads(c) == c.op \in {"RCR", "RCRM"}
Returned(f, c, r) == IF c.op = "RCR" /\ r \in MacMii THEN DummyBytes ELSE {f[r]}
ReadNext(c, read, got) == IF Reads(c) THEN <<read[2], got>> ELSE read
Over(c, got) ==
    /\ c.until = "set" => c.byte \cap got # {}
    /\ c.until = "clear" => c.byte \cap got = {}
Remaining(todo, got) == IF Over(Head(todo), got) THEN Tail(todo) ELSE todo

\* What the controller may do to f by itself; in ECON1 it ends transmissions.
ByItself(f, g) ==
    /\ g \in [Register -> SUBSET Bit]
    /\ \A r \in Register \ (Volatile \cup {"ECON1"}) : g[r] = f[r]
    /\ g["ECON1"] \in {f["ECON1"], f["ECON1"] \ {TXRTS}}
=============================================================================

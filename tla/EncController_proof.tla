------------------------- MODULE EncController_proof -------------------------
(***************************************************************************)
(* The register banks, for any table of registers in which no two answer   *)
(* at one place: every access reaches its register, a transmission is      *)
(* started once, and the banked access implements RegisterFile.  The       *)
(* argument is about RegisterBanks alone, for any series of calls that     *)
(* waits for what it transmits; the controller's driver makes such series, *)
(* so that its behaviours are behaviours of RegisterBanks.                 *)
(*                                                                         *)
(* Then what the driver sets up, for any address and any PHY: reception is *)
(* enabled last (ConfigInv), and the PHY's control register ends up with   *)
(* what the driver writes to it (PhyInv).                                  *)
(***************************************************************************)
EXTENDS EncController, TLAPS

TypeInv ==
    /\ chip \in [Register -> SUBSET Bit]
    /\ bsel \in 0 .. 3
    /\ on \in BOOLEAN
    /\ activeBank \in 0 .. 3
    /\ todo \in Program
    /\ step \in {"call", "switch"}
    /\ econ1 \in SUBSET Bit
    /\ read \in (SUBSET Bit) \X (SUBSET Bit)

\* What the driver believes of the bank is true once it has reset the chip.
Coherent == on => bsel = activeBank

\* Between the two halves of a switch the flags read are still the flags.
Switching ==
    step = "switch" => /\ on
                       /\ todo # <<>>
                       /\ MustSwitch
                       /\ econ1 = chip["ECON1"]
                       /\ TXRTS \notin econ1

\* Whoever let the controller transmit is waiting for it.
Awaited ==
    on /\ TXRTS \in chip["ECON1"] => /\ step = "call"
                                     /\ todo # <<>>
                                     /\ AwaitsTransmit(Head(todo))

\* A processor that was reset has no calls left over.
Forgotten == ~on => todo = <<>>

Inv == TypeInv /\ Coherent /\ Switching /\ Awaited /\ Forgotten
-----------------------------------------------------------------------------
\* A series of calls without its first is one the driver may make.
LEMMA TailProgram ==
    ASSUME NEW s \in Program, s # <<>>
    PROVE  /\ Head(s) \in Call
           /\ Tail(s) \in Program
           /\ Transmits(Head(s)) => Tail(s) # <<>> /\ AwaitsTransmit(Head(Tail(s)))
<1>1. s \in Seq(Call) /\ Len(s) \in Nat /\ Len(s) > 0
  BY DEF Program
<1>2. Head(s) \in Call /\ Tail(s) \in Seq(Call) /\ Len(Tail(s)) = Len(s) - 1
  BY <1>1
<1>3. \A i \in 1 .. Len(Tail(s)) : Tail(s)[i] = s[i + 1]
  BY <1>1
<1>4. \A i \in 1 .. Len(Tail(s)) :
          Transmits(Tail(s)[i]) => i < Len(Tail(s)) /\ AwaitsTransmit(Tail(s)[i + 1])
  <2> TAKE i \in 1 .. Len(Tail(s))
  <2> SUFFICES ASSUME Transmits(Tail(s)[i])
               PROVE  i < Len(Tail(s)) /\ AwaitsTransmit(Tail(s)[i + 1])
    OBVIOUS
  <2>1. i + 1 \in 1 .. Len(s) /\ Transmits(s[i + 1])
    BY <1>1, <1>2, <1>3
  <2>2. i + 1 < Len(s) /\ AwaitsTransmit(s[i + 1 + 1])
    BY <2>1 DEF Program
  <2> QED
    BY <2>2, <1>1, <1>2, <1>3
<1>5. Transmits(Head(s)) => Tail(s) # <<>> /\ AwaitsTransmit(Head(Tail(s)))
  <2> SUFFICES ASSUME Transmits(Head(s))
               PROVE  Tail(s) # <<>> /\ AwaitsTransmit(Head(Tail(s)))
    OBVIOUS
  <2>1. 1 < Len(s) /\ AwaitsTransmit(s[1 + 1])
    BY <1>1 DEF Program
  <2> QED
    BY <2>1, <1>1, <1>2, <1>3
<1> QED
  BY <1>2, <1>4, <1>5 DEF Program

\* One register answers at an address: the one of the bank selected.
LEMMA OneAnswers ==
    ASSUME NEW r \in Register, BankOf(r) \in {bsel, ANY_BANK}
    PROVE  Answers(AddrOf(r)) = {r}
  BY TableAssumption DEF Answers, BankOf, AddrOf, ANY_BANK

\* What a call leaves in the registers.
LEMMA AfterType ==
    ASSUME NEW f \in [Register -> SUBSET Bit], NEW c \in Call, NEW v \in SUBSET Bit
    PROVE  /\ After(f, c, c.reg, v) \in [Register -> SUBSET Bit]
           /\ c.reg # "ECON1" => After(f, c, c.reg, v)["ECON1"] = f["ECON1"]
           /\ c.reg = "ECON1" => After(f, c, c.reg, v)["ECON1"] = Stored(c.op, f["ECON1"], v)
<1> DEFINE g == [f EXCEPT ![c.reg] = Stored(c.op, @, v)]
<1>1. c.reg \in Register /\ c.op \in {"RCR", "RCRM", "WCR", "WCRread", "BFS", "BFC"}
  BY DEF Call
<1>2. Stored(c.op, f[c.reg], v) \in SUBSET Bit
  BY <1>1 DEF Stored
<1>3. g \in [Register -> SUBSET Bit]
  BY <1>1, <1>2
<1>4. /\ c.reg # "ECON1" => g["ECON1"] = f["ECON1"]
      /\ c.reg = "ECON1" => g["ECON1"] = Stored(c.op, f["ECON1"], v)
  BY <1>1, TableAssumption
<1>5. React(g, c.op, c.reg, v) \in [Register -> SUBSET Bit]
  BY <1>3, TableAssumption DEF React, Bit, BUSY
<1>6. React(g, c.op, c.reg, v)["ECON1"] = g["ECON1"]
  BY <1>3, TableAssumption DEF React
<1> HIDE DEF g
<1> QED
  BY <1>4, <1>5, <1>6 DEF After, g

\* The bytes sent and returned are bytes.
LEMMA Bytes ==
    ASSUME NEW c \in Call, NEW f \in [Register -> SUBSET Bit],
           NEW rd \in (SUBSET Bit) \X (SUBSET Bit)
    PROVE  /\ Sent(c, rd) \in SUBSET Bit
           /\ \A got \in Returned(f, c, c.reg) :
                  /\ got \in SUBSET Bit
                  /\ ReadNext(c, rd, got) \in (SUBSET Bit) \X (SUBSET Bit)
  BY DummyAssumption DEF Sent, Returned, ReadNext, Call

\* When the access is made for the register c names, it is a call of the file.
LEMMA AccessIsCall ==
    ASSUME Inv, Access
    PROVE  /\ Head(todo) \in Call
           /\ AccessReachesRegister
           /\ \E got \in Returned(chip, Head(todo), Head(todo).reg) :
                 /\ chip' = After(chip, Head(todo), Head(todo).reg, Sent(Head(todo), read))
                 /\ read' = ReadNext(Head(todo), read, got)
                 /\ todo' = Remaining(todo, got)
<1>1. Head(todo) \in Call /\ Head(todo).reg \in Register
  BY TailProgram DEF Inv, TypeInv, Access, Call
<1>2. BankOf(Head(todo).reg) \in {bsel, ANY_BANK}
  BY DEF Inv, Coherent, Access, MustSwitch
<1>3. Answers(AddrOf(Head(todo).reg)) = {Head(todo).reg}
  BY <1>1, <1>2, OneAnswers
<1> DEFINE reached == Answers(AddrOf(Head(todo).reg))
<1>4. reached # {} /\ (CHOOSE x \in reached : TRUE) = Head(todo).reg
  BY <1>3
<1> HIDE DEF reached
<1>5. \E got \in Returned(chip, Head(todo), Head(todo).reg) :
          /\ chip' = After(chip, Head(todo), Head(todo).reg, Sent(Head(todo), read))
          /\ read' = ReadNext(Head(todo), read, got)
          /\ todo' = Remaining(todo, got)
  BY <1>4 DEF Access, reached
<1> QED
  BY <1>1, <1>3, <1>5 DEF AccessReachesRegister
-----------------------------------------------------------------------------
LEMMA BanksInitial == BanksInit => Inv
<1> SUFFICES ASSUME BanksInit PROVE Inv
  OBVIOUS
<1> USE DEF BanksInit
<1>1. todo \in Program
  BY DEF Program
<1>2. chip \in [Register -> SUBSET Bit] /\ read \in (SUBSET Bit) \X (SUBSET Bit)
  BY DEF ResetValues
<1>3. bsel \in 0 .. 3 /\ activeBank \in 0 .. 3 /\ econ1 \in SUBSET Bit
  OBVIOUS
<1>4. TypeInv
  <2> USE <1>1, <1>2, <1>3
  <2> QED
    BY DEF TypeInv
<1> QED
  BY <1>4 DEF Inv, Coherent, Switching, Awaited, Forgotten

LEMMA BanksStep == Inv /\ [BanksNext]_bankVars => Inv'
<1> SUFFICES ASSUME Inv, [BanksNext]_bankVars PROVE Inv'
  OBVIOUS
<1> USE DEF Inv
<1>1. ASSUME NEW calls \in Program, Boot(calls) PROVE Inv'
  <2>1. chip' \in [Register -> SUBSET Bit] /\ chip'["ECON1"] = {}
    BY <1>1, TableAssumption DEF Boot, ResetValues
  <2>2. step = "call"
    BY <1>1 DEF Boot, Switching, TypeInv
  <2> QED
    BY <1>1, <2>1, <2>2 DEF Boot, TypeInv, Coherent, Switching, Awaited, Forgotten
<1>2. ASSUME NEW calls \in Program, Begin(calls) PROVE Inv'
  <2>1. step = "call" /\ TXRTS \notin chip["ECON1"]
    BY <1>2 DEF Begin, Switching, Awaited, TypeInv
  <2> QED
    BY <1>2, <2>1 DEF Begin, TypeInv, Coherent, Switching, Awaited, Forgotten
<1>3. CASE SwitchRead
  <2>1. TXRTS \notin chip["ECON1"]
    <3>1. BankOf(Head(todo).reg) # ANY_BANK
      BY <1>3 DEF SwitchRead, MustSwitch
    <3>2. ~AwaitsTransmit(Head(todo))
      BY <3>1, TableAssumption DEF AwaitsTransmit, UntilClear
    <3> QED
      BY <1>3, <3>2 DEF SwitchRead, Awaited
  <2>2. TypeInv'
    BY <1>3, TableAssumption DEF SwitchRead, TypeInv
  <2> QED
    BY <1>3, <2>1, <2>2 DEF SwitchRead, Coherent, Switching, Awaited, Forgotten, MustSwitch
<1>4. CASE SwitchWrite
  <2>1. Head(todo) \in Call /\ Head(todo).reg \in Register
    BY <1>4, TailProgram DEF SwitchWrite, Switching, TypeInv, Call
  <2>2. BankOf(Head(todo).reg) \in 0 .. 3
    BY <1>4, <2>1, TableAssumption DEF SwitchWrite, Switching, MustSwitch, BankOf, ANY_BANK
  <2>3. chip' = chip
    BY <1>4 DEF SwitchWrite, Switching, TypeInv
  <2>4. TypeInv'
    BY <1>4, <2>2, <2>3 DEF SwitchWrite, TypeInv
  <2> QED
    BY <1>4, <2>3, <2>4 DEF SwitchWrite, Coherent, Switching, Awaited, Forgotten
<1>5. CASE Access
  <2> DEFINE c == Head(todo)
  <2>1. c \in Call /\ c.reg \in Register /\ Tail(todo) \in Program
    BY <1>5, TailProgram DEF Access, TypeInv, Call
  <2>2. PICK got \in Returned(chip, c, c.reg) :
            /\ chip' = After(chip, c, c.reg, Sent(c, read))
            /\ read' = ReadNext(c, read, got)
            /\ todo' = Remaining(todo, got)
    BY <1>5, AccessIsCall
  <2>3. Sent(c, read) \in SUBSET Bit /\ read' \in (SUBSET Bit) \X (SUBSET Bit)
    BY <2>1, <2>2, Bytes DEF TypeInv
  <2>4. /\ chip' \in [Register -> SUBSET Bit]
        /\ c.reg # "ECON1" => chip'["ECON1"] = chip["ECON1"]
        /\ c.reg = "ECON1" => chip'["ECON1"] = Stored(c.op, chip["ECON1"], Sent(c, read))
    BY <2>1, <2>2, <2>3, AfterType DEF TypeInv
  <2>5. todo' \in Program
    BY <2>1, <2>2 DEF Remaining, TypeInv
  <2>6. TypeInv'
    BY <1>5, <2>3, <2>4, <2>5 DEF Access, TypeInv
  <2>7. on /\ step = "call" /\ on' = on /\ step' = step
    BY <1>5 DEF Access
  <2>8. ASSUME TXRTS \in chip'["ECON1"]
        PROVE  todo' # <<>> /\ AwaitsTransmit(Head(todo'))
    <3>1. CASE TXRTS \in chip["ECON1"]
      <4>1. AwaitsTransmit(c) /\ todo # <<>>
        BY <1>5, <3>1, <2>7 DEF Awaited
      <4>2. c.reg = "ECON1" /\ c.op = "RCR" /\ c.until = "clear" /\ c.byte = {TXRTS}
        BY <4>1 DEF AwaitsTransmit, UntilClear
      <4>3. got = chip["ECON1"]
        BY <2>2, <4>2, MacMiiAssumption DEF Returned
      <4>4. ~Over(c, got)
        BY <4>3, <4>2, <3>1 DEF Over
      <4> QED
        BY <4>4, <2>2, <4>1 DEF Remaining
    <3>2. CASE TXRTS \notin chip["ECON1"]
      <4>1. c.reg = "ECON1"
        BY <2>4, <2>8, <3>2
      <4>2. c.op \in {"RCR", "BFS", "BFC"}
        BY <2>1, <4>1 DEF Call
      <4>3. c.op = "BFS" /\ TXRTS \in c.byte
        BY <2>4, <2>8, <3>2, <4>1, <4>2 DEF Stored, Sent
      <4>4. Transmits(c) /\ Over(c, got)
        BY <2>1, <4>1, <4>3 DEF Transmits, Over, Call
      <4> QED
        BY <1>5, <4>4, <2>2, TailProgram DEF Access, Remaining, TypeInv
    <3> QED
      BY <3>1, <3>2
  <2> QED
    BY <1>5, <2>6, <2>7, <2>8 DEF Access, Coherent, Switching, Awaited, Forgotten
<1>6. CASE Chip
  <2>1. /\ chip' \in [Register -> SUBSET Bit]
        /\ TXRTS \in chip'["ECON1"] => TXRTS \in chip["ECON1"]
        /\ TXRTS \notin chip["ECON1"] => chip'["ECON1"] = chip["ECON1"]
    BY <1>6 DEF Chip, ByItself
  <2>2. TypeInv'
    BY <1>6, <2>1 DEF Chip, TypeInv
  <2> QED
    BY <1>6, <2>1, <2>2 DEF Chip, Coherent, Switching, Awaited, Forgotten, MustSwitch
<1>7. CASE Restart
  <2>1. <<>> \in Program
    BY DEF Program
  <2>2. todo' \in Program
    BY <1>7, <2>1 DEF Restart
  <2>3. activeBank' = 0 /\ on' = FALSE /\ step' = "call"
    BY <1>7, Zenon DEF Restart
  <2>4. chip' = chip /\ bsel' = bsel /\ econ1' = econ1 /\ read' = read
    BY <1>7, Zenon DEF Restart
  <2>5. TypeInv'
    <3>1. activeBank' \in 0 .. 3
      BY <2>3
    <3>2. on' \in BOOLEAN 
      BY <2>3
    <3>3. step' \in {"call", "switch"}
      BY <2>3
    <3>4. chip' \in [Register -> SUBSET Bit]
      BY <2>4 DEF TypeInv
    <3>5. bsel' \in 0 .. 3
      BY <2>4 DEF TypeInv
    <3>6. econ1' \in SUBSET Bit /\ read' \in (SUBSET Bit) \X (SUBSET Bit)
      BY <2>4 DEF TypeInv
    <3> QED
      BY <2>2, <3>1, <3>2, <3>3, <3>4, <3>5, <3>6 DEF TypeInv
  <2> QED
    BY <1>7, <2>5 DEF Restart, Coherent, Switching, Awaited, Forgotten
<1>8. CASE UNCHANGED bankVars
  BY <1>8 DEF bankVars, TypeInv, Coherent, Switching, Awaited, Forgotten, MustSwitch
<1> QED
  BY <1>1, <1>2, <1>3, <1>4, <1>5, <1>6, <1>7, <1>8 DEF BanksNext

-----------------------------------------------------------------------------
LEMMA Reaches == Inv => AccessReachesRegister
<1> SUFFICES ASSUME Inv, on, todo # <<>>, step = "call", ~MustSwitch
             PROVE  Answers(AddrOf(Head(todo).reg)) = {Head(todo).reg}
  BY DEF AccessReachesRegister
<1>1. Head(todo).reg \in Register
  BY TailProgram DEF Inv, TypeInv, Call
<1>2. BankOf(Head(todo).reg) \in {bsel, ANY_BANK}
  BY DEF Inv, Coherent, MustSwitch
<1> QED
  BY <1>1, <1>2, OneAnswers

LEMMA StartsOnce ==
    Inv /\ [BanksNext]_bankVars
       => (StartsTransmission => (on /\ step = "call" /\ Transmits(Head(todo))))
<1> SUFFICES ASSUME Inv, [BanksNext]_bankVars, StartsTransmission
             PROVE  on /\ step = "call" /\ Transmits(Head(todo))
  OBVIOUS
<1>1. TXRTS \in chip'["ECON1"] /\ TXRTS \notin chip["ECON1"]
  BY DEF StartsTransmission
<1>2. ASSUME NEW calls \in Program, Boot(calls) PROVE FALSE
  BY <1>1, <1>2, TableAssumption DEF Boot, ResetValues
<1>3. ~SwitchWrite
  <2> SUFFICES ASSUME SwitchWrite PROVE FALSE
    OBVIOUS
  <2>1. chip'["ECON1"] = econ1
    BY TableAssumption DEF SwitchWrite, Inv, TypeInv
  <2> QED
    BY <1>1, <2>1 DEF SwitchWrite, Inv, Switching
<1>4. ~Chip
  BY <1>1 DEF Chip, ByItself
<1>5. Access
  BY <1>1, <1>2, <1>3, <1>4 DEF BanksNext, bankVars, Begin, SwitchRead, Restart
<1> DEFINE c == Head(todo)
<1>6. c \in Call
  BY <1>5, TailProgram DEF Access, Inv, TypeInv
<1>7. PICK got \in Returned(chip, c, c.reg) :
          chip' = After(chip, c, c.reg, Sent(c, read))
  BY <1>5, AccessIsCall
<1>8. Sent(c, read) \in SUBSET Bit
  BY <1>6, Bytes DEF Inv, TypeInv
<1>9. /\ c.reg = "ECON1"
      /\ chip'["ECON1"] = Stored(c.op, chip["ECON1"], Sent(c, read))
  BY <1>1, <1>6, <1>7, <1>8, AfterType DEF Inv, TypeInv
<1>10. c.op \in {"RCR", "BFS", "BFC"}
  BY <1>6, <1>9 DEF Call
<1>11. Transmits(c)
  BY <1>1, <1>9, <1>10 DEF Stored, Sent, Transmits
<1> QED
  BY <1>5, <1>11 DEF Access

\* RegisterFile's calls are RegisterCalls' own.
LEMMA SameCalls ==
    /\ F!Program = Program
    /\ \A f, c, r, v : F!After(f, c, r, v) = After(f, c, r, v)
    /\ \A f, c, r : F!Returned(f, c, r) = Returned(f, c, r)
    /\ \A c, rd : F!Sent(c, rd) = Sent(c, rd)
    /\ \A c, rd, got : F!ReadNext(c, rd, got) = ReadNext(c, rd, got)
    /\ \A t, got : F!Remaining(t, got) = Remaining(t, got)
    /\ \A f, g : F!ByItself(f, g) = ByItself(f, g)
<1>1. F!Call = Call
  BY DEF F!Call, Call, F!Register, Register, F!Bit, Bit
<1>2. \A c : F!Transmits(c) = Transmits(c) /\ F!AwaitsTransmit(c) = AwaitsTransmit(c)
  BY DEF F!Transmits, Transmits, F!AwaitsTransmit, AwaitsTransmit, F!UntilClear,
         UntilClear, F!TXRTS, TXRTS
<1>3. F!Program = Program
  BY <1>1, <1>2 DEF F!Program, Program
<1>4. \A f, c, r, v : F!After(f, c, r, v) = After(f, c, r, v)
  BY DEF F!After, After, F!React, React, F!Stored, Stored, F!MIIRD, MIIRD, F!BUSY, BUSY,
         F!PKTDEC, PKTDEC, F!PKTIF, PKTIF
<1>5. /\ \A f, c, r : F!Returned(f, c, r) = Returned(f, c, r)
      /\ \A c, rd : F!Sent(c, rd) = Sent(c, rd)
      /\ \A c, rd, got : F!ReadNext(c, rd, got) = ReadNext(c, rd, got)
  BY DEF F!Returned, Returned, F!Sent, Sent, F!ReadNext, ReadNext, F!Reads, Reads
<1>6. \A t, got : F!Remaining(t, got) = Remaining(t, got)
  BY DEF F!Remaining, Remaining, F!Over, Over
<1>7. \A f, g : F!ByItself(f, g) = ByItself(f, g)
  BY DEF F!ByItself, ByItself, F!Register, Register, F!Bit, Bit, F!TXRTS, TXRTS
<1> QED
  BY <1>3, <1>4, <1>5, <1>6, <1>7

LEMMA StepIsFileStep ==
    Inv /\ [BanksNext]_bankVars => [F!FileNext]_(F!fileVars)
<1> SUFFICES ASSUME Inv, [BanksNext]_bankVars PROVE [F!FileNext]_(F!fileVars)
  OBVIOUS
<1> USE DEF Inv
<1>1. ASSUME NEW calls \in Program, Boot(calls) PROVE F!FileNext
  <2>1. F!FileReset
    BY <1>1, SameCalls
       DEF Boot, Forgotten, ResetValues, F!FileReset, F!Register, Register
  <2> QED
    BY <2>1 DEF F!FileNext
<1>2. ASSUME NEW calls \in Program, Begin(calls) PROVE F!FileNext
  BY <1>2, SameCalls DEF Begin, F!FileNext, F!FileBegin
<1>3. CASE SwitchRead
  BY <1>3 DEF SwitchRead, F!fileVars
<1>4. CASE SwitchWrite
  <2>1. chip' = chip
    BY <1>4 DEF SwitchWrite, Switching, TypeInv
  <2> QED
    BY <1>4, <2>1 DEF SwitchWrite, F!fileVars
<1>5. CASE Access
  <2>1. F!FileCall
    BY <1>5, AccessIsCall, SameCalls DEF Access, F!FileCall
  <2> QED
    BY <2>1 DEF F!FileNext
<1>6. CASE Chip
  <2>1. F!FileChip
    BY <1>6, SameCalls DEF Chip, F!FileChip
  <2> QED
    BY <2>1 DEF F!FileNext
<1>7. CASE Restart
  <2>1. F!FileRestart
    BY <1>7 DEF Restart, F!FileRestart
  <2> QED
    BY <2>1 DEF F!FileNext
<1>8. CASE UNCHANGED bankVars
  BY <1>8 DEF bankVars, F!fileVars
<1> QED
  BY <1>1, <1>2, <1>3, <1>4, <1>5, <1>6, <1>7, <1>8 DEF BanksNext

-----------------------------------------------------------------------------
(* The controller's driver makes such series of calls.                     *)
Quiet == {c \in Call : ~Transmits(c)}

LEMMA QuietCalls ==
    ASSUME NEW r \in Register
    PROVE  /\ Read(r) \in Quiet
           /\ \A b \in Bit : UntilSet(r, b) \in Quiet
           /\ r # "ECON1" =>
                 /\ ReadM(r) \in Quiet /\ WriteRead(r) \in Quiet
                 /\ \A b \in Bit : UntilClearM(r, b) \in Quiet
                 /\ \A v \in SUBSET Bit : Write(r, v) \in Quiet
           /\ r \in BitFields => \A m \in SUBSET Bit :
                 /\ Clear(r, m) \in Quiet
                 /\ TXRTS \notin m => Set(r, m) \in Quiet
<1> USE DEF Quiet, Call, Transmits
<1>1. Read(r) \in Quiet
  BY DEF Read
<1>2. \A b \in Bit : UntilSet(r, b) \in Quiet
  BY DEF UntilSet
<1>3. r # "ECON1" =>
         /\ ReadM(r) \in Quiet /\ WriteRead(r) \in Quiet
         /\ \A b \in Bit : UntilClearM(r, b) \in Quiet
         /\ \A v \in SUBSET Bit : Write(r, v) \in Quiet
  BY DEF ReadM, WriteRead, UntilClearM, Write
<1>4. r \in BitFields => r \notin MacMii
  BY NamedAssumption
<1>5. r \in BitFields => \A m \in SUBSET Bit :
         /\ Clear(r, m) \in Quiet
         /\ TXRTS \notin m => Set(r, m) \in Quiet
  BY <1>4 DEF Clear, Set
<1> QED
  BY <1>1, <1>2, <1>3, <1>5

LEMMA QuietProgram == Seq(Quiet) \subseteq Program
<1> SUFFICES ASSUME NEW s \in Seq(Quiet) PROVE s \in Program
  OBVIOUS
<1>1. s \in Seq(Call)
  BY DEF Quiet
<1>2. \A i \in 1 .. Len(s) : s[i] \in Quiet
  OBVIOUS
<1> QED
  BY <1>1, <1>2 DEF Program, Quiet

LEMMA QuietConcat ==
    ASSUME NEW s \in Seq(Quiet), NEW t \in Seq(Quiet) PROVE s \o t \in Seq(Quiet)
  OBVIOUS

LEMMA QuietWord ==
    ASSUME NEW l \in Register \ {"ECON1"}, NEW h \in Register \ {"ECON1"}, NEW n
    PROVE  WriteWord(l, h, n) \in Seq(Quiet)
<1>1. Low(n) \in SUBSET Bit /\ High(n) \in SUBSET Bit
  BY DEF Low, High, Byte
<1>2. Write(l, Low(n)) \in Quiet /\ Write(h, High(n)) \in Quiet
  BY <1>1, QuietCalls
<1> QED
  BY <1>2 DEF WriteWord

LEMMA QuietPHY ==
    ASSUME NEW a \in SUBSET Bit, NEW w
    PROVE  ReadPHY(a) \in Seq(Quiet) /\ WritePHY(a, w) \in Seq(Quiet)
<1>1. {"MIREGADR", "MICMD", "MISTAT", "MIRDL", "MIRDH", "MIWRL", "MIWRH"}
         \subseteq Register \ {"ECON1"}
  BY NamedAssumption DEF Named
<1>2. {MIIRD} \in SUBSET Bit /\ {} \in SUBSET Bit /\ BUSY \in Bit
      /\ LowByte(w) \in SUBSET Bit /\ HighByte(w) \in SUBSET Bit
  BY DEF MIIRD, BUSY, Bit, LowByte, HighByte
<1>3. /\ Write("MIREGADR", a) \in Quiet /\ Write("MICMD", {MIIRD}) \in Quiet
      /\ UntilClearM("MISTAT", BUSY) \in Quiet /\ Write("MICMD", {}) \in Quiet
      /\ ReadM("MIRDL") \in Quiet /\ ReadM("MIRDH") \in Quiet
      /\ Write("MIWRL", LowByte(w)) \in Quiet /\ Write("MIWRH", HighByte(w)) \in Quiet
  BY <1>1, <1>2, QuietCalls
<1> QED
  BY <1>3 DEF ReadPHY, WritePHY

LEMMA QuietFinish == Finish \in Seq(Quiet)
<1>1. /\ Named \subseteq Register /\ BitFields \subseteq Register
      /\ Named \ {"ECON1"} \subseteq Register \ {"ECON1"}
  BY NamedAssumption DEF Named
<1>2. SetMACAddress \in Seq(Quiet)
  <2>1. \A i \in 1 .. 6 : Maadr[i] \in Named \ {"ECON1"}
    BY DEF Maadr, Named
  <2>2. \A i \in 1 .. 6 : Byte(Mac[i]) \in SUBSET Bit
    BY DEF Byte
  <2>3. \A i \in 1 .. 6 : Write(Maadr[i], Byte(Mac[i])) \in Quiet
    BY <1>1, <2>1, <2>2, QuietCalls
  <2> QED
    BY <2>3 DEF SetMACAddress
<1>3. Configure \in Seq(Quiet)
  <2>1. {"ERXFCON", "MACON1", "MACON3", "MAMXFLL", "MAMXFLH", "MABBIPG", "MAIPGL",
         "MAIPGH"} \subseteq Register \ {"ECON1"}
    BY <1>1 DEF Named
  <2>2. /\ {7, 5, 0, 1} \in SUBSET Bit /\ {3, 2, 0} \in SUBSET Bit /\ {5, 4, 1} \in SUBSET Bit
        /\ Low(1518) \in SUBSET Bit /\ High(1518) \in SUBSET Bit
        /\ Byte(18) \in SUBSET Bit /\ Byte(12) \in SUBSET Bit
    BY DEF Bit, Low, High, Byte
  <2>3. /\ Write("ERXFCON", {7, 5, 0, 1}) \in Quiet /\ Write("MACON1", {3, 2, 0}) \in Quiet
        /\ Write("MACON3", {5, 4, 1}) \in Quiet
        /\ Write("MAMXFLL", Low(1518)) \in Quiet /\ Write("MAMXFLH", High(1518)) \in Quiet
        /\ Write("MABBIPG", Byte(18)) \in Quiet /\ Write("MAIPGL", Byte(18)) \in Quiet
        /\ Write("MAIPGH", Byte(12)) \in Quiet
    BY <2>1, <2>2, QuietCalls
  <2> QED
    BY <2>3 DEF Configure
<1>4. Enable \in Seq(Quiet)
  <2>1. {"EIE", "ECON1"} \subseteq BitFields
    BY DEF BitFields
  <2>2. /\ {7, 6} \in SUBSET Bit /\ {TXRST, RXRST} \in SUBSET Bit /\ {RXEN} \in SUBSET Bit
        /\ TXRTS \notin {7, 6} /\ TXRTS \notin {RXEN}
    BY DEF Bit, TXRST, RXRST, RXEN, TXRTS
  <2>3. /\ Set("EIE", {7, 6}) \in Quiet /\ Clear("ECON1", {TXRST, RXRST}) \in Quiet
        /\ Set("ECON1", {RXEN}) \in Quiet
    BY <1>1, <2>1, <2>2, QuietCalls
  <2> QED
    BY <2>3 DEF Enable
<1> QED
  BY <1>2, <1>3, <1>4, QuietConcat DEF Finish

LEMMA QuietStart ==
    AwaitClock \o Prepare \o ReadPHY(PHSTAT2) \in Seq(Quiet)
<1>1. /\ {"ERXSTL", "ERXSTH", "ERXNDL", "ERXNDH", "ERXRDPTL", "ERXRDPTH"}
            \subseteq Register \ {"ECON1"}
      /\ "ESTAT" \in Register /\ {"ECON1", "ECON2"} \subseteq BitFields
      /\ {"ECON1", "ECON2"} \subseteq Register
  BY NamedAssumption DEF Named, BitFields
<1>2. AwaitClock \in Seq(Quiet)
  <2>1. UntilSet("ESTAT", CLKRDY) \in Quiet
    BY <1>1, QuietCalls DEF CLKRDY, Bit
  <2> QED
    BY <2>1 DEF AwaitClock
<1>3. SetRXMemoryArea(0, RX_END) \in Seq(Quiet)
  <2>1. /\ WriteWord("ERXSTL", "ERXSTH", 0) \in Seq(Quiet)
        /\ WriteWord("ERXNDL", "ERXNDH", RX_END) \in Seq(Quiet)
        /\ WriteWord("ERXRDPTL", "ERXRDPTH", 0) \in Seq(Quiet)
    BY <1>1, QuietWord
  <2> QED
    BY <2>1, QuietConcat DEF SetRXMemoryArea
<1>4. Prepare \in Seq(Quiet)
  <2>1. /\ {TXRST} \in SUBSET Bit /\ {RXEN} \in SUBSET Bit /\ {AUTOINC} \in SUBSET Bit
        /\ TXRTS \notin {TXRST} /\ TXRTS \notin {AUTOINC}
    BY DEF Bit, TXRST, RXEN, AUTOINC, TXRTS
  <2>2. /\ Set("ECON1", {TXRST}) \in Quiet /\ Clear("ECON1", {RXEN}) \in Quiet
        /\ Set("ECON2", {AUTOINC}) \in Quiet
    BY <1>1, <2>1, QuietCalls
  <2>3. <<Set("ECON1", {TXRST}), Clear("ECON1", {RXEN}), Set("ECON2", {AUTOINC})>>
           \in Seq(Quiet)
    BY <2>2
  <2> QED
    BY <1>3, <2>3, QuietConcat DEF Prepare
<1>5. ReadPHY(PHSTAT2) \in Seq(Quiet)
  BY QuietPHY DEF PHSTAT2, Byte
<1> QED
  BY <1>2, <1>4, <1>5, QuietConcat

LEMMA QuietMark ==
    ASSUME NEW n
    PROVE  /\ MarkAtEnd \o <<Set("ECON2", {PKTDEC}), Read("EPKTCNT")>> \in Seq(Quiet)
           /\ WriteWord("ERXRDPTL", "ERXRDPTH", n)
                 \o <<Set("ECON2", {PKTDEC}), Read("EPKTCNT")>> \in Seq(Quiet)
<1>1. /\ {"ERXNDL", "ERXNDH", "ERXRDPTL", "ERXRDPTH"} \subseteq Register \ {"ECON1"}
      /\ "EPKTCNT" \in Register /\ "ECON2" \in Register /\ "ECON2" \in BitFields
  BY NamedAssumption DEF Named, BitFields
<1>2. {PKTDEC} \in SUBSET Bit /\ TXRTS \notin {PKTDEC}
  BY DEF Bit, PKTDEC, TXRTS
<1>3. Set("ECON2", {PKTDEC}) \in Quiet /\ Read("EPKTCNT") \in Quiet
  BY <1>1, <1>2, QuietCalls
<1>4. <<Set("ECON2", {PKTDEC}), Read("EPKTCNT")>> \in Seq(Quiet)
  BY <1>3
<1>5. /\ Read("ERXNDL") \in Quiet /\ WriteRead("ERXRDPTL") \in Quiet
      /\ Read("ERXNDH") \in Quiet /\ WriteRead("ERXRDPTH") \in Quiet
  BY <1>1, QuietCalls
<1>6. MarkAtEnd \in Seq(Quiet)
  BY <1>5 DEF MarkAtEnd
<1>7. WriteWord("ERXRDPTL", "ERXRDPTH", n) \in Seq(Quiet)
  BY <1>1, QuietWord
<1> QED
  BY <1>4, <1>6, <1>7, QuietConcat

\* Send is the one series that transmits, and it waits.
LEMMA SendProgram ==
    ASSUME NEW n, NEW t \in Seq(Quiet) 
    PROVE  Send(n) \o t \in Program /\ Send(n) \in Seq(Call)
<1> DEFINE p == SendPrepare(n)
           q == WriteWord("ERDPTL", "ERDPTH", TX_START + n + 1)
           x == <<Set("ECON1", {TXRTS}), UntilClear("ECON1", TXRTS)>>
<1>1. /\ {"ETXSTL", "ETXSTH", "EWRPTL", "EWRPTH", "ETXNDL", "ETXNDH", "ERDPTL", "ERDPTH"}
            \subseteq Register \ {"ECON1"}
      /\ {"ECON1", "EIR"} \subseteq BitFields /\ {"ECON1", "EIR"} \subseteq Register
  BY NamedAssumption DEF Named, BitFields
<1>2. p \in Seq(Quiet)
  <2>1. /\ WriteWord("ETXSTL", "ETXSTH", TX_START) \in Seq(Quiet)
        /\ WriteWord("EWRPTL", "EWRPTH", TX_START) \in Seq(Quiet)
        /\ WriteWord("ETXNDL", "ETXNDH", TX_START + n) \in Seq(Quiet)
    BY <1>1, QuietWord
  <2>2. {TXRST} \in SUBSET Bit /\ {TXIF} \in SUBSET Bit /\ TXRTS \notin {TXRST}
    BY DEF Bit, TXRST, TXIF, TXRTS
  <2>3. /\ Set("ECON1", {TXRST}) \in Quiet /\ Clear("ECON1", {TXRST}) \in Quiet
        /\ Clear("EIR", {TXIF}) \in Quiet
    BY <1>1, <2>2, QuietCalls
  <2>4. <<Set("ECON1", {TXRST}), Clear("ECON1", {TXRST}), Clear("EIR", {TXIF})>> \in Seq(Quiet)
    BY <2>3
  <2> QED
    BY <2>1, <2>4, QuietConcat DEF SendPrepare
<1>3. q \in Seq(Quiet)
  BY <1>1, QuietWord
<1>4. q \o t \in Seq(Quiet)
  BY <1>3, QuietConcat
<1>5. /\ Set("ECON1", {TXRTS}) \in Call /\ UntilClear("ECON1", TXRTS) \in Call
      /\ Transmits(Set("ECON1", {TXRTS})) /\ ~Transmits(UntilClear("ECON1", TXRTS))
  <2>1. "ECON1" \in Register /\ "ECON1" \notin MacMii /\ TXRTS \in Bit
    BY <1>1, MacMiiAssumption DEF TXRTS, Bit
  <2> QED
    BY <2>1 DEF Set, UntilClear, Call, Transmits
<1> DEFINE r == q \o t
           whole == p \o x \o r
<1>6. whole = Send(n) \o t /\ Send(n) \in Seq(Call)
  <2>1. x \in Seq(Call) /\ p \in Seq(Call) /\ q \in Seq(Call) /\ t \in Seq(Call)
    BY <1>2, <1>3, <1>5 DEF Quiet
  <2> HIDE DEF p, q, x
  <2>2. p \o x \o (q \o t) = (p \o x \o q) \o t /\ p \o x \o q \in Seq(Call)
    BY <2>1
  <2> QED
    BY <2>2 DEF Send, p, q, x
<1> HIDE DEF p, q, r
<1>7. whole \in Seq(Call)
  BY <1>2, <1>4, <1>5 DEF Quiet, r
<1>8. ASSUME NEW i \in 1 .. Len(whole), Transmits(whole[i])
      PROVE  i < Len(whole) /\ AwaitsTransmit(whole[i + 1])
  <2>1. Len(p) \in Nat /\ Len(r) \in Nat /\ Len(whole) = Len(p) + 2 + Len(r)
    BY <1>2, <1>4 DEF r
  <2>2. \A j \in 1 .. Len(p) : whole[j] = p[j] /\ p[j] \in Quiet
    BY <1>2, <1>4, <2>1 DEF r
  <2>3. \A j \in 1 .. Len(r) : whole[Len(p) + 2 + j] = r[j] /\ r[j] \in Quiet
    BY <1>2, <1>4, <2>1 DEF r
  <2>4. /\ whole[Len(p) + 1] = Set("ECON1", {TXRTS})
        /\ whole[Len(p) + 2] = UntilClear("ECON1", TXRTS)
    BY <1>2, <1>4, <2>1 DEF r
  <2>5. i = Len(p) + 1
    <3>1. i \notin 1 .. Len(p)
      BY <1>8, <2>2 DEF Quiet
    <3>2. i # Len(p) + 2
      BY <1>8, <2>4, <1>5
    <3>3. ~(i > Len(p) + 2)
      <4> SUFFICES ASSUME i > Len(p) + 2 PROVE FALSE
        OBVIOUS
      <4>1. i - (Len(p) + 2) \in 1 .. Len(r) /\ Len(p) + 2 + (i - (Len(p) + 2)) = i
        BY <2>1
      <4>2. whole[i] \in Quiet
        BY <2>3, <4>1
      <4> QED
        BY <4>2, <1>8 DEF Quiet
    <3> QED
      BY <3>1, <3>2, <3>3, <2>1
  <2> QED
    BY <2>1, <2>4, <2>5 DEF AwaitsTransmit
<1> QED
  BY <1>6, <1>7, <1>8 DEF Program

HwaddrType == hwaddr \in Seq(SUBSET Bit)

\* What the controller does by itself is what RegisterBanks lets it do.
LEMMA ChipStep ==
    Inv /\ (ClockReady \/ MiiDone \/ TxDone \/ PacketArrives) => Chip
<1> SUFFICES ASSUME Inv, ClockReady \/ MiiDone \/ TxDone \/ PacketArrives PROVE Chip
  OBVIOUS
<1>1. /\ chip \in [Register -> SUBSET Bit]
      /\ {"ESTAT", "MISTAT", "MIRDL", "MIRDH", "EIR", "EPKTCNT"} \subseteq Volatile
      /\ "ECON1" \in Register /\ Volatile \subseteq Register \ {"ECON1"}
  BY TableAssumption, VolatileAssumption, VolatileNamed DEF Inv, TypeInv
<1>2. UNCHANGED <<bsel, on, activeBank, todo, step, econ1, read>>
  BY DEF ClockReady, MiiDone, TxDone, PacketArrives
<1>3. CASE ClockReady
  <2>1. ByItself(chip, chip')
    BY <1>1, <1>3 DEF ClockReady, ByItself, CLKRDY, Bit
  <2> QED
    BY <1>2, <2>1 DEF Chip
<1>4. CASE MiiDone
  <2>1. \A w : LowByte(w) \in SUBSET Bit /\ HighByte(w) \in SUBSET Bit
    BY DEF LowByte, HighByte
  <2>2. PICK l \in SUBSET Bit, h \in SUBSET Bit :
           \/ chip' = [chip EXCEPT !["MISTAT"] = @ \ {BUSY}, !["MIRDL"] = l, !["MIRDH"] = h]
           \/ chip' = [chip EXCEPT !["MISTAT"] = @ \ {BUSY}]
    BY <1>4, <2>1 DEF MiiDone
  <2>3. ByItself(chip, chip')
    BY <1>1, <2>2 DEF ByItself
  <2> QED
    BY <1>2, <2>3 DEF Chip
<1>5. CASE TxDone
  <2>1. ByItself(chip, chip')
    BY <1>1, <1>5 DEF TxDone, ByItself, TXIF, Bit
  <2> QED
    BY <1>2, <2>1 DEF Chip
<1>6. CASE PacketArrives
  <2>1. ByItself(chip, chip')
    BY <1>1, <1>6 DEF PacketArrives, ByItself, PKTIF, Bit
  <2> QED
    BY <1>2, <2>1 DEF Chip
<1> QED
  BY <1>3, <1>4, <1>5, <1>6

LEMMA DriverStep ==
    HwaddrType /\ (Starting \/ Running)
       => \E calls \in Program : Boot(calls) \/ Begin(calls)
<1> SUFFICES ASSUME HwaddrType, Starting \/ Running
             PROVE  \E calls \in Program : Boot(calls) \/ Begin(calls)
  OBVIOUS
<1>1. {"EIR", "EPKTCNT", "ERXSTL", "ERXSTH"} \subseteq Register
      /\ \A i \in 1 .. 6 : Maadr[i] \in Register
  BY NamedAssumption DEF Named, BitFields, Maadr
<1>2. \A r \in Register : <<Read(r)>> \in Program
  <2> TAKE r \in Register
  <2>1. Read(r) \in Quiet
    BY QuietCalls
  <2>2. <<Read(r)>> \in Seq(Quiet)
    BY <2>1
  <2> QED
    BY <2>2, QuietProgram
<1>3. <<>> \in Program
  BY DEF Program
<1>4. CASE InitConfig
  BY <1>4, QuietStart, QuietProgram DEF InitConfig
<1>5. CASE PhyStat2
  <2>1. WritePHY(PHSTAT2, Word(read) \ {DPXSTAT}) \o ReadPHY(PHCON1) \in Seq(Quiet)
    BY QuietPHY, QuietConcat DEF PHSTAT2, PHCON1, Byte
  <2> QED
    BY <1>5, <2>1, QuietProgram DEF PhyStat2
<1>6. CASE PhyCon1
  <2>1. WritePHY(PHCON1, Word(read) \ {PDPXMD}) \o Finish \in Seq(Quiet)
    BY QuietPHY, QuietFinish, QuietConcat DEF PHCON1, Byte
  <2> QED
    BY <1>6, <2>1, QuietProgram DEF PhyCon1
<1>7. CASE LwipInit
  BY <1>1, <1>2, <1>7 DEF LwipInit
<1>8. CASE GetMACAddress
  <2>1. CASE Len(hwaddr) < 5
    <3>1. Len(hwaddr) + 2 \in 1 .. 6
      BY <2>1 DEF HwaddrType
    <3>2. <<Read(Maadr[Len(hwaddr) + 2])>> \in Program
      BY <1>1, <1>2, <3>1
    <3> QED
      BY <1>8, <2>1, <3>2 DEF GetMACAddress
  <2>2. CASE ~(Len(hwaddr) < 5)
    BY <1>3, <1>8, <2>2 DEF GetMACAddress
  <2> QED
    BY <2>1, <2>2
<1>9. CASE Timer
  <2>1. \A n \in Counts : Send(n) \in Program
    <3> TAKE n \in Counts
    <3>1. <<>> \in Seq(Quiet)
      OBVIOUS
    <3>2. Send(n) \o <<>> \in Program /\ Send(n) \in Seq(Call)
      BY <3>1, SendProgram
    <3>3. Send(n) \o <<>> = Send(n)
      BY <3>2
    <3> QED
      BY <3>2, <3>3
  <2> QED
    BY <1>9, <2>1 DEF Timer
<1>10. CASE Interrupt
  BY <1>1, <1>2, <1>10 DEF Interrupt
<1>11. CASE CheckEir
  BY <1>1, <1>2, <1>3, <1>11 DEF CheckEir
<1>12. CASE PollCount
  <2>1. WriteWord("ERDPTL", "ERDPTH", nextPacket) \in Program
    BY NamedAssumption, QuietWord, QuietProgram DEF Named
  <2> QED
    BY <1>3, <1>12, <2>1 DEF PollCount
<1>13. CASE OnReceive
  <2>1. <<Read("ERXSTL"), Read("ERXSTH")>> \in Seq(Quiet)
    BY <1>1, QuietCalls
  <2> DEFINE t == <<Read("ERXSTL"), Read("ERXSTH")>>
  <2> HIDE DEF t
  <2>2. \A n \in Counts : Send(n) \o t \in Program
    BY <2>1, SendProgram DEF t
  <2>3. <<>> \o t \in Program
    <3>1. t \in Seq(Quiet) /\ <<>> \o t = t
      BY <2>1 DEF t
    <3> QED
      BY <3>1, QuietProgram
  <2>4. \E answer \in {<<>>} \cup {Send(n) : n \in Counts} : Begin(answer \o t)
    BY <1>13 DEF OnReceive, t
  <2> QED
    BY <2>2, <2>3, <2>4
<1>14. CASE MarkRead
  BY <1>14, QuietMark, QuietProgram DEF MarkRead
<1> QED
  BY <1>4, <1>5, <1>6, <1>7, <1>8, <1>9, <1>10, <1>11, <1>12, <1>13, <1>14
     DEF Starting, Running

LEMMA ControllerStep == Inv /\ HwaddrType /\ [Next]_vars => [BanksNext]_bankVars
<1> SUFFICES ASSUME Inv, HwaddrType, [Next]_vars PROVE [BanksNext]_bankVars
  OBVIOUS
<1>1. CASE Starting \/ Running
  BY <1>1, DriverStep DEF BanksNext
<1>2. CASE Transaction
  BY <1>2 DEF Transaction, BanksNext
<1>3. CASE ClockReady \/ MiiDone \/ TxDone \/ PacketArrives
  BY <1>3, ChipStep DEF BanksNext
<1>4. CASE ProcessorReset
  BY <1>4 DEF ProcessorReset, BanksNext
<1>5. CASE UNCHANGED vars
  BY <1>5 DEF vars
<1> QED
  BY <1>1, <1>2, <1>3, <1>4, <1>5 DEF Next

LEMMA HwaddrStep == Inv /\ HwaddrType /\ [Next]_vars => HwaddrType'
<1> SUFFICES ASSUME Inv, HwaddrType, [Next]_vars PROVE HwaddrType'
  OBVIOUS
<1>1. CASE GetMACAddress
  <2>1. read[2] \in SUBSET Bit
    BY DEF Inv, TypeInv
  <2> QED
    <3>1. hwaddr' = Append(hwaddr, read[2])
      BY <1>1 DEF GetMACAddress
    <3> QED
      BY <2>1, <3>1 DEF HwaddrType
<1>2. CASE LwipInit \/ ProcessorReset
  <2>1. hwaddr' = <<>>
    BY <1>2 DEF LwipInit, ProcessorReset
  <2> QED
    BY <2>1 DEF HwaddrType
<1>3. ASSUME ~GetMACAddress, ~LwipInit, ~ProcessorReset PROVE hwaddr' = hwaddr
  BY <1>3 DEF Next, Starting, Running, InitConfig, PhyStat2, PhyCon1, Timer, Interrupt,
              CheckEir, PollCount, OnReceive, MarkRead, Transaction, ClockReady,
              MiiDone, TxDone, PacketArrives, vars, own
<1> QED
  BY <1>1, <1>2, <1>3 DEF HwaddrType

\* The bank the driver remembers, the flags it is about to write back and the
\* transmission it waits for, in every state of the driver's.
THEOREM BanksInvariant == Spec => [](Inv /\ HwaddrType)
<1>1. Init => Inv /\ HwaddrType
  BY BanksInitial DEF Init, HwaddrType
<1>2. Inv /\ HwaddrType /\ [Next]_vars => (Inv /\ HwaddrType)'
  BY ControllerStep, BanksStep, HwaddrStep
<1> QED
  BY <1>1, <1>2, PTL DEF Spec

\* Every access reaches the register it names, for any register table
\* without aliases and any series of calls of the driver.
THEOREM AccessesReach == Spec => []AccessReachesRegister
  BY BanksInvariant, Reaches, PTL

\* SwitchBank never starts a transmission again.
THEOREM TransmissionsOnce == Spec => TransmitsOnce
<1>1. Inv /\ HwaddrType /\ [Next]_vars
         => [StartsTransmission => (on /\ step = "call" /\ Transmits(Head(todo)))]_bankVars
  BY ControllerStep, StartsOnce
<1> QED
  BY <1>1, BanksInvariant, PTL DEF Spec, TransmitsOnce

\* The driver's behaviours are those of a plain register file.
THEOREM DriverImplementsFile == Spec => ImplementsFile
<1>1. Init => F!FileInit
  BY DEF Init, BanksInit, ResetValues, F!FileInit, F!Register, Register
<1>2. Inv /\ HwaddrType /\ [Next]_vars => [F!FileNext]_(F!fileVars)
  BY ControllerStep, StepIsFileStep
<1> QED
  BY <1>1, <1>2, BanksInvariant, PTL DEF Spec, ImplementsFile, F!FileSpec
-----------------------------------------------------------------------------
(* What the driver sets up.  First the bytes it writes.                    *)
\* The bits of a byte, one by one.
LEMMA BitsOf ==
    ASSUME NEW n \in Nat
    PROVE  /\ Byte(n) \subseteq {0, 1, 2, 3, 4, 5, 6, 7}
           /\ 0 \in Byte(n) <=> (n \div 1) % 2 = 1
           /\ 1 \in Byte(n) <=> (n \div 2) % 2 = 1
           /\ 2 \in Byte(n) <=> (n \div 4) % 2 = 1
           /\ 3 \in Byte(n) <=> (n \div 8) % 2 = 1
           /\ 4 \in Byte(n) <=> (n \div 16) % 2 = 1
           /\ 5 \in Byte(n) <=> (n \div 32) % 2 = 1
           /\ 6 \in Byte(n) <=> (n \div 64) % 2 = 1
           /\ 7 \in Byte(n) <=> (n \div 128) % 2 = 1
<1>1. \A b \in Bit : b \in Byte(n) <=> (n \div 2 ^ b) % 2 = 1
  BY DEF Byte
<1>2. /\ 2 ^ 0 = 1 /\ 2 ^ 1 = 2 /\ 2 ^ 2 = 4 /\ 2 ^ 3 = 8
      /\ 2 ^ 4 = 16 /\ 2 ^ 5 = 32 /\ 2 ^ 6 = 64 /\ 2 ^ 7 = 128
  OBVIOUS
<1>3. Byte(n) \subseteq {0, 1, 2, 3, 4, 5, 6, 7}
  BY DEF Byte, Bit
<1>4. 0 \in Byte(n) <=> (n \div 1) % 2 = 1
  <2>1. 0 \in Bit
    BY DEF Bit
  <2>2. 0 \in Byte(n) <=> (n \div 2 ^ 0) % 2 = 1
    BY <1>1, <2>1
  <2> QED
    BY <1>2, <2>2
<1>5. 1 \in Byte(n) <=> (n \div 2) % 2 = 1
  <2>1. 1 \in Bit
    BY DEF Bit
  <2>2. 1 \in Byte(n) <=> (n \div 2 ^ 1) % 2 = 1
    BY <1>1, <2>1
  <2> QED
    BY <1>2, <2>2
<1>6. 2 \in Byte(n) <=> (n \div 4) % 2 = 1
  <2>1. 2 \in Bit
    BY DEF Bit
  <2>2. 2 \in Byte(n) <=> (n \div 2 ^ 2) % 2 = 1
    BY <1>1, <2>1
  <2> QED
    BY <1>2, <2>2
<1>7. 3 \in Byte(n) <=> (n \div 8) % 2 = 1
  <2>1. 3 \in Bit
    BY DEF Bit
  <2>2. 3 \in Byte(n) <=> (n \div 2 ^ 3) % 2 = 1
    BY <1>1, <2>1
  <2> QED
    BY <1>2, <2>2
<1>8. 4 \in Byte(n) <=> (n \div 16) % 2 = 1
  <2>1. 4 \in Bit
    BY DEF Bit
  <2>2. 4 \in Byte(n) <=> (n \div 2 ^ 4) % 2 = 1
    BY <1>1, <2>1
  <2> QED
    BY <1>2, <2>2
<1>9. 5 \in Byte(n) <=> (n \div 32) % 2 = 1
  <2>1. 5 \in Bit
    BY DEF Bit
  <2>2. 5 \in Byte(n) <=> (n \div 2 ^ 5) % 2 = 1
    BY <1>1, <2>1
  <2> QED
    BY <1>2, <2>2
<1>10. 6 \in Byte(n) <=> (n \div 64) % 2 = 1
  <2>1. 6 \in Bit
    BY DEF Bit
  <2>2. 6 \in Byte(n) <=> (n \div 2 ^ 6) % 2 = 1
    BY <1>1, <2>1
  <2> QED
    BY <1>2, <2>2
<1>11. 7 \in Byte(n) <=> (n \div 128) % 2 = 1
  <2>1. 7 \in Bit
    BY DEF Bit
  <2>2. 7 \in Byte(n) <=> (n \div 2 ^ 7) % 2 = 1
    BY <1>1, <2>1
  <2> QED
    BY <1>2, <2>2
<1> QED
  BY <1>3, <1>4, <1>5, <1>6, <1>7, <1>8, <1>9, <1>10, <1>11

\* The bytes InitConfig writes as masks are those Intended names by number.
LEMMA TheBytes ==
    /\ Byte(163) = {7, 5, 0, 1} /\ Byte(13) = {3, 2, 0} /\ Byte(50) = {5, 4, 1}
    /\ Byte(0) = {} /\ Byte(17) = {0, 4}
<1>1. Byte(163) = {7, 5, 0, 1}
  <2>1. /\ (163 \div 1) % 2 = 1 /\ (163 \div 2) % 2 = 1 /\ (163 \div 4) % 2 = 0 /\ (163 \div 8) % 2 = 0
        /\ (163 \div 16) % 2 = 0 /\ (163 \div 32) % 2 = 1 /\ (163 \div 64) % 2 = 0 /\ (163 \div 128) % 2 = 1
    OBVIOUS
  <2>2. 0 \in Byte(163) /\ 1 \in Byte(163) /\ 2 \notin Byte(163) /\ 3 \notin Byte(163) /\ 4 \notin Byte(163) /\ 5 \in Byte(163) /\ 6 \notin Byte(163) /\ 7 \in Byte(163)
    BY <2>1, BitsOf
  <2>3. Byte(163) \subseteq {0, 1, 2, 3, 4, 5, 6, 7}
    BY BitsOf
  <2> QED
    BY <2>2, <2>3
<1>2. Byte(13) = {3, 2, 0}
  <2>1. /\ (13 \div 1) % 2 = 1 /\ (13 \div 2) % 2 = 0 /\ (13 \div 4) % 2 = 1 /\ (13 \div 8) % 2 = 1
        /\ (13 \div 16) % 2 = 0 /\ (13 \div 32) % 2 = 0 /\ (13 \div 64) % 2 = 0 /\ (13 \div 128) % 2 = 0
    OBVIOUS
  <2>2. 0 \in Byte(13) /\ 1 \notin Byte(13) /\ 2 \in Byte(13) /\ 3 \in Byte(13) /\ 4 \notin Byte(13) /\ 5 \notin Byte(13) /\ 6 \notin Byte(13) /\ 7 \notin Byte(13)
    BY <2>1, BitsOf
  <2>3. Byte(13) \subseteq {0, 1, 2, 3, 4, 5, 6, 7}
    BY BitsOf
  <2> QED
    BY <2>2, <2>3
<1>3. Byte(50) = {5, 4, 1}
  <2>1. /\ (50 \div 1) % 2 = 0 /\ (50 \div 2) % 2 = 1 /\ (50 \div 4) % 2 = 0 /\ (50 \div 8) % 2 = 0
        /\ (50 \div 16) % 2 = 1 /\ (50 \div 32) % 2 = 1 /\ (50 \div 64) % 2 = 0 /\ (50 \div 128) % 2 = 0
    OBVIOUS
  <2>2. 0 \notin Byte(50) /\ 1 \in Byte(50) /\ 2 \notin Byte(50) /\ 3 \notin Byte(50) /\ 4 \in Byte(50) /\ 5 \in Byte(50) /\ 6 \notin Byte(50) /\ 7 \notin Byte(50)
    BY <2>1, BitsOf
  <2>3. Byte(50) \subseteq {0, 1, 2, 3, 4, 5, 6, 7}
    BY BitsOf
  <2> QED
    BY <2>2, <2>3
<1>4. Byte(0) = {}
  <2>1. /\ (0 \div 1) % 2 = 0 /\ (0 \div 2) % 2 = 0 /\ (0 \div 4) % 2 = 0 /\ (0 \div 8) % 2 = 0
        /\ (0 \div 16) % 2 = 0 /\ (0 \div 32) % 2 = 0 /\ (0 \div 64) % 2 = 0 /\ (0 \div 128) % 2 = 0
    OBVIOUS
  <2>2. 0 \notin Byte(0) /\ 1 \notin Byte(0) /\ 2 \notin Byte(0) /\ 3 \notin Byte(0) /\ 4 \notin Byte(0) /\ 5 \notin Byte(0) /\ 6 \notin Byte(0) /\ 7 \notin Byte(0)
    BY <2>1, BitsOf
  <2>3. Byte(0) \subseteq {0, 1, 2, 3, 4, 5, 6, 7}
    BY BitsOf
  <2> QED
    BY <2>2, <2>3
<1>5. Byte(17) = {0, 4}
  <2>1. /\ (17 \div 1) % 2 = 1 /\ (17 \div 2) % 2 = 0 /\ (17 \div 4) % 2 = 0 /\ (17 \div 8) % 2 = 0
        /\ (17 \div 16) % 2 = 1 /\ (17 \div 32) % 2 = 0 /\ (17 \div 64) % 2 = 0 /\ (17 \div 128) % 2 = 0
    OBVIOUS
  <2>2. 0 \in Byte(17) /\ 1 \notin Byte(17) /\ 2 \notin Byte(17) /\ 3 \notin Byte(17) /\ 4 \in Byte(17) /\ 5 \notin Byte(17) /\ 6 \notin Byte(17) /\ 7 \notin Byte(17)
    BY <2>1, BitsOf
  <2>3. Byte(17) \subseteq {0, 1, 2, 3, 4, 5, 6, 7}
    BY BitsOf
  <2> QED
    BY <2>2, <2>3
<1> QED
  BY <1>1, <1>2, <1>3, <1>4, <1>5
-----------------------------------------------------------------------------
(* The registers set up before reception is enabled.  Until the call that  *)
(* enables it, each of them has what is intended for it or one of the      *)
(* calls before that one gives it; a call after it takes it from none of   *)
(* them: those written whole are written no more, of those set bit by bit  *)
(* no bit is cleared.                                                      *)
Fixed == DOMAIN Intended
Flagged == DOMAIN IntendedBits
SetUp == Fixed \cup Flagged
Good(r) == IF r \in Fixed THEN chip[r] = Byte(Intended[r])
                          ELSE IntendedBits[r] \subseteq chip[r]
Giver(r) == IF r \in Fixed THEN Write(r, Byte(Intended[r])) ELSE Set(r, IntendedBits[r])
Right(c) ==
    c.reg \in SetUp => Reads(c) \/ c = Giver(c.reg) \/ (c.reg \in Flagged /\ c.op = "BFS")
Enables(c) == c.op = "BFS" /\ c.reg = "ECON1" /\ RXEN \in c.byte
Gives(s, n, r) == \E j \in 1 .. n : s[j] = Giver(r)
Ready(s, n, r) == Good(r) \/ Gives(s, n, r)
RxArea == {"ERXSTL", "ERXSTH", "ERXNDL", "ERXNDH"}
\* The ones given before the PHY is read.
Early == RxArea \cup {"ECON2"}

CallsSetUp ==
    \A i \in 1 .. Len(todo) :
        /\ Right(todo[i])
        /\ Enables(todo[i]) => \A r \in SetUp : Ready(todo, i - 1, r)
EarlySetUp ==
    stage \in {"phstat2", "phcon1"} => \A r \in Early : Ready(todo, Len(todo), r)
ConfigInv == ConfiguredBeforeReceiving /\ CallsSetUp /\ EarlySetUp

LEMMA SetUpNames ==
    /\ Fixed = RxArea \cup {"ERXFCON", "MACON1", "MACON3", "MAMXFLL", "MAMXFLH",
                            "MABBIPG", "MAIPGL", "MAIPGH",
                            "MAADR1", "MAADR2", "MAADR3", "MAADR4", "MAADR5", "MAADR6"}
    /\ Flagged = {"ECON2", "EIE"}
    /\ SetUp = Fixed \cup Flagged /\ Early \subseteq SetUp
    /\ SetUp \subseteq Register
    /\ Fixed \cap BitFields = {}
    /\ SetUp \cap {"ECON1", "EIR", "MISTAT", "EPKTCNT", "ESTAT", "MIRDL", "MIRDH"} = {}
<1>1. Fixed = RxArea \cup {"ERXFCON", "MACON1", "MACON3", "MAMXFLL", "MAMXFLH",
                           "MABBIPG", "MAIPGL", "MAIPGH",
                           "MAADR1", "MAADR2", "MAADR3", "MAADR4", "MAADR5", "MAADR6"}
  BY DEF Fixed, Intended, RxArea
<1>2. Flagged = {"ECON2", "EIE"}
  BY DEF Flagged, IntendedBits
<1>3. SetUp \subseteq Named
  BY <1>1, <1>2 DEF SetUp, Named, RxArea, BitFields
<1>4. Early \subseteq SetUp
  BY <1>1, <1>2 DEF SetUp, Early
<1> QED
  BY <1>1, <1>2, <1>3, <1>4, NamedAssumption DEF SetUp, RxArea, BitFields

\* The calls that keep the registers set up and do not enable reception.
Harmless == {c \in Call : Right(c) /\ ~Enables(c)}
\* Those of them that leave the PHY alone as well.
MiiRegisters == {"MICMD", "MIREGADR", "MIWRL", "MIWRH", "MIRDL", "MIRDH", "MISTAT"}
Tame == {c \in Harmless : c.reg \notin MiiRegisters}

LEMMA HarmlessCalls ==
    ASSUME NEW r \in Register
    PROVE  /\ Read(r) \in Harmless
           /\ \A b \in Bit : UntilSet(r, b) \in Harmless /\ UntilClear(r, b) \in Harmless
           /\ r # "ECON1" =>
                 /\ ReadM(r) \in Harmless
                 /\ \A b \in Bit : UntilClearM(r, b) \in Harmless
           /\ r # "ECON1" /\ r \notin SetUp =>
                 /\ WriteRead(r) \in Harmless
                 /\ \A v \in SUBSET Bit : Write(r, v) \in Harmless
           /\ r \in SetUp => Giver(r) \in Harmless
           /\ r \in BitFields => \A m \in SUBSET Bit :
                 /\ r \notin Flagged => Clear(r, m) \in Harmless
                 /\ RXEN \notin m => Set(r, m) \in Harmless
<1> HIDE DEF SetUp
<1> USE DEF Harmless, Call, Right, Enables, Reads
<1>1. Read(r) \in Harmless
  BY DEF Read
<1>2. \A b \in Bit : UntilSet(r, b) \in Harmless /\ UntilClear(r, b) \in Harmless
  BY DEF UntilSet, UntilClear
<1>3. r # "ECON1" =>
         /\ ReadM(r) \in Harmless
         /\ \A b \in Bit : UntilClearM(r, b) \in Harmless
  BY DEF ReadM, UntilClearM
<1>4. r # "ECON1" /\ r \notin SetUp =>
         /\ WriteRead(r) \in Harmless
         /\ \A v \in SUBSET Bit : Write(r, v) \in Harmless
  BY DEF WriteRead, Write
<1>5. r \in SetUp => Giver(r) \in Harmless
  <2>1. CASE r \in Fixed
    <3>1. Byte(Intended[r]) \in SUBSET Bit /\ r # "ECON1"
      BY <2>1, SetUpNames DEF Byte, BitFields
    <3> QED
      BY <2>1, <3>1 DEF Giver, Write
  <2>2. CASE r \in Flagged
    <3>1. IntendedBits[r] \in SUBSET Bit
      BY <2>2, SetUpNames DEF IntendedBits, AUTOINC, Bit
    <3>2. r \notin MacMii /\ r # "ECON1" /\ r \notin Fixed
      BY <2>2, SetUpNames, NamedAssumption DEF BitFields
    <3> QED
      BY <2>2, <3>1, <3>2 DEF Giver, Set
  <2> QED
    BY <2>1, <2>2, SetUpNames
<1>6. r \in BitFields => r \notin MacMii /\ r \notin Fixed
  BY NamedAssumption, SetUpNames
<1>7. r \in BitFields => \A m \in SUBSET Bit :
         /\ r \notin Flagged => Clear(r, m) \in Harmless
         /\ RXEN \notin m => Set(r, m) \in Harmless
  BY <1>6, SetUpNames DEF Clear, Set
<1> QED
  BY <1>1, <1>2, <1>3, <1>4, <1>5, <1>7

LEMMA TameCalls ==
    ASSUME NEW r \in Register \ MiiRegisters
    PROVE  /\ Read(r) \in Tame
           /\ \A b \in Bit : UntilSet(r, b) \in Tame /\ UntilClear(r, b) \in Tame
           /\ r # "ECON1" /\ r \notin SetUp =>
                 /\ WriteRead(r) \in Tame
                 /\ \A v \in SUBSET Bit : Write(r, v) \in Tame
           /\ r \in SetUp => Giver(r) \in Tame
           /\ r \in BitFields => \A m \in SUBSET Bit :
                 /\ r \notin Flagged => Clear(r, m) \in Tame
                 /\ RXEN \notin m => Set(r, m) \in Tame
<1> HIDE DEF SetUp
<1>1. /\ Read(r).reg = r /\ WriteRead(r).reg = r
      /\ \A b : UntilSet(r, b).reg = r /\ UntilClear(r, b).reg = r
      /\ \A v : Write(r, v).reg = r /\ Clear(r, v).reg = r /\ Set(r, v).reg = r
      /\ Giver(r).reg = r
  BY DEF Read, WriteRead, UntilSet, UntilClear, Write, Clear, Set, Giver
<1> QED
  BY <1>1, HarmlessCalls DEF Tame

LEMMA TameHarmless == Seq(Tame) \subseteq Seq(Harmless)
  BY DEF Tame

LEMMA TameConcat ==
    ASSUME NEW s \in Seq(Tame), NEW t \in Seq(Tame) PROVE s \o t \in Seq(Tame)
  OBVIOUS

LEMMA HarmlessConcat ==
    ASSUME NEW s \in Seq(Harmless), NEW t \in Seq(Harmless) PROVE s \o t \in Seq(Harmless)
  OBVIOUS

LEMMA HarmlessCall == Seq(Harmless) \subseteq Seq(Call)
  BY DEF Harmless

LEMMA TameWord ==
    ASSUME NEW l \in Register \ ({"ECON1"} \cup SetUp \cup MiiRegisters),
           NEW h \in Register \ ({"ECON1"} \cup SetUp \cup MiiRegisters), NEW n
    PROVE  WriteWord(l, h, n) \in Seq(Tame)
<1>1. Low(n) \in SUBSET Bit /\ High(n) \in SUBSET Bit
  BY DEF Low, High, Byte
<1>2. Write(l, Low(n)) \in Tame /\ Write(h, High(n)) \in Tame
  BY <1>1, TameCalls
<1> QED
  BY <1>2 DEF WriteWord

LEMMA HarmlessPHY ==
    ASSUME NEW a \in SUBSET Bit, NEW w
    PROVE  ReadPHY(a) \in Seq(Harmless) /\ WritePHY(a, w) \in Seq(Harmless)
<1>1. {"MIREGADR", "MICMD", "MISTAT", "MIRDL", "MIRDH", "MIWRL", "MIWRH"}
         \subseteq Register \ ({"ECON1"} \cup SetUp)
  BY NamedAssumption, SetUpNames DEF Named, RxArea
<1>2. {MIIRD} \in SUBSET Bit /\ {} \in SUBSET Bit /\ BUSY \in Bit
      /\ LowByte(w) \in SUBSET Bit /\ HighByte(w) \in SUBSET Bit
  BY DEF MIIRD, BUSY, Bit, LowByte, HighByte
<1>3. /\ Write("MIREGADR", a) \in Harmless /\ Write("MICMD", {MIIRD}) \in Harmless
      /\ UntilClearM("MISTAT", BUSY) \in Harmless /\ Write("MICMD", {}) \in Harmless
      /\ ReadM("MIRDL") \in Harmless /\ ReadM("MIRDH") \in Harmless
      /\ Write("MIWRL", LowByte(w)) \in Harmless /\ Write("MIWRH", HighByte(w)) \in Harmless
  BY <1>1, <1>2, HarmlessCalls
<1> QED
  BY <1>3 DEF ReadPHY, WritePHY

LEMMA Associative ==
    ASSUME NEW S, NEW s \in Seq(S), NEW t \in Seq(S), NEW u \in Seq(S)
    PROVE  s \o (t \o u) = (s \o t) \o u
  OBVIOUS

LEMMA ElementOf ==
    ASSUME NEW S, NEW q \in Seq(S), NEW i \in 1 .. Len(q) PROVE q[i] \in S
  OBVIOUS

LEMMA Concatenated ==
    ASSUME NEW S, NEW s \in Seq(S), NEW t \in Seq(S)
    PROVE  /\ s \o t \in Seq(S) /\ Len(s \o t) = Len(s) + Len(t)
           /\ \A i \in 1 .. Len(s) : (s \o t)[i] = s[i]
           /\ \A i \in 1 .. Len(t) : (s \o t)[Len(s) + i] = t[i]
  OBVIOUS

\* Finish gives every register but the area's its byte before it enables
\* reception, with its last call.
LEMMA FinishSetsUp ==
    /\ SetMACAddress \in Seq(Tame) /\ Configure \in Seq(Tame)
    /\ SetMACAddress \o Configure \in Seq(Tame) /\ Len(SetMACAddress \o Configure) = 14
    /\ \A r \in Fixed \ RxArea : Gives(SetMACAddress \o Configure, 14, r)
    /\ Set("EIE", {7, 6}) = Giver("EIE") /\ Set("EIE", {7, 6}) \in Tame /\ Clear("ECON1", {TXRST, RXRST}) \in Tame
    /\ Set("ECON1", {RXEN}) \in Call /\ Right(Set("ECON1", {RXEN}))
<1> DEFINE s == SetMACAddress \o Configure
<1>1. /\ \A r \in SetUp : Giver(r) \in Tame
      /\ {"MAADR1", "MAADR2", "MAADR3", "MAADR4", "MAADR5", "MAADR6",
          "ERXFCON", "MACON1", "MACON3", "MAMXFLL", "MAMXFLH",
          "MABBIPG", "MAIPGL", "MAIPGH"} = Fixed \ RxArea
  <2>1. SetUp \cap MiiRegisters = {}
    BY SetUpNames DEF RxArea, MiiRegisters
  <2> QED
    BY <2>1, TameCalls, SetUpNames DEF RxArea
<1>2. /\ Intended["MAADR1"] = Mac[1] /\ Intended["MAADR2"] = Mac[2]
      /\ Intended["MAADR3"] = Mac[3] /\ Intended["MAADR4"] = Mac[4]
      /\ Intended["MAADR5"] = Mac[5] /\ Intended["MAADR6"] = Mac[6]
      /\ Intended["ERXFCON"] = 163 /\ Intended["MACON1"] = 13 /\ Intended["MACON3"] = 50
      /\ Intended["MAMXFLL"] = 238 /\ Intended["MAMXFLH"] = 5
      /\ Intended["MABBIPG"] = 18 /\ Intended["MAIPGL"] = 18 /\ Intended["MAIPGH"] = 12
  BY DEF Intended
<1>3. /\ {7, 5, 0, 1} = Byte(Intended["ERXFCON"])
      /\ {3, 2, 0} = Byte(Intended["MACON1"])
      /\ {5, 4, 1} = Byte(Intended["MACON3"])
      /\ Low(1518) = Byte(Intended["MAMXFLL"]) /\ High(1518) = Byte(Intended["MAMXFLH"])
  <2>1. 1518 % 256 = 238 /\ 1518 \div 256 = 5
    OBVIOUS
  <2> QED
    BY <1>2, <2>1, TheBytes DEF Low, High
<1> DEFINE W(r) == Giver(r)
<1>0. \A r \in Fixed : W(r) = Write(r, Byte(Intended[r]))
  BY DEF Giver
<1>4. SetMACAddress = <<W("MAADR1"), W("MAADR2"), W("MAADR3"),
                        W("MAADR4"), W("MAADR5"), W("MAADR6")>>
  <2>1. /\ W("MAADR1") = Write("MAADR1", Byte(Mac[1])) /\ W("MAADR2") = Write("MAADR2", Byte(Mac[2]))
        /\ W("MAADR3") = Write("MAADR3", Byte(Mac[3])) /\ W("MAADR4") = Write("MAADR4", Byte(Mac[4]))
        /\ W("MAADR5") = Write("MAADR5", Byte(Mac[5])) /\ W("MAADR6") = Write("MAADR6", Byte(Mac[6]))
    BY <1>0, <1>1, <1>2
  <2> HIDE DEF W
  <2> QED
    BY <2>1 DEF SetMACAddress, Maadr
<1>5. Configure = <<W("ERXFCON"), W("MACON1"), W("MACON3"), W("MAMXFLL"), W("MAMXFLH"),
                    W("MABBIPG"), W("MAIPGL"), W("MAIPGH")>>
  <2>1. /\ W("ERXFCON") = Write("ERXFCON", {7, 5, 0, 1}) /\ W("MACON1") = Write("MACON1", {3, 2, 0})
        /\ W("MACON3") = Write("MACON3", {5, 4, 1}) /\ W("MAMXFLL") = Write("MAMXFLL", Low(1518))
        /\ W("MAMXFLH") = Write("MAMXFLH", High(1518)) /\ W("MABBIPG") = Write("MABBIPG", Byte(18))
        /\ W("MAIPGL") = Write("MAIPGL", Byte(18)) /\ W("MAIPGH") = Write("MAIPGH", Byte(12))
    BY <1>0, <1>1, <1>2, <1>3
  <2> HIDE DEF W
  <2> QED
    BY <2>1 DEF Configure
<1>7. \A r \in Fixed : W(r) \in Tame
  BY <1>1, SetUpNames
<1> HIDE DEF W
<1>8. SetMACAddress \in Seq(Tame) /\ Configure \in Seq(Tame)
  BY <1>1, <1>4, <1>5, <1>7
<1>9. /\ s \in Seq(Tame) /\ Len(s) = 14
      /\ s[1] = W("MAADR1") /\ s[2] = W("MAADR2") /\ s[3] = W("MAADR3")
      /\ s[4] = W("MAADR4") /\ s[5] = W("MAADR5") /\ s[6] = W("MAADR6")
      /\ s[7] = W("ERXFCON") /\ s[8] = W("MACON1") /\ s[9] = W("MACON3")
      /\ s[10] = W("MAMXFLL") /\ s[11] = W("MAMXFLH") /\ s[12] = W("MABBIPG")
      /\ s[13] = W("MAIPGL") /\ s[14] = W("MAIPGH")
  <2>2. Len(SetMACAddress) = 6 /\ Len(Configure) = 8
    BY <1>4, <1>5
  <2>3. /\ s \in Seq(Tame) /\ Len(s) = 14
        /\ \A i \in 1 .. 6 : s[i] = SetMACAddress[i]
        /\ \A i \in 1 .. 8 : s[6 + i] = Configure[i]
    <3> HIDE DEF s
    <3>1. /\ s \in Seq(Tame) /\ Len(s) = Len(SetMACAddress) + Len(Configure)
          /\ \A i \in 1 .. Len(SetMACAddress) : s[i] = SetMACAddress[i]
          /\ \A i \in 1 .. Len(Configure) : s[Len(SetMACAddress) + i] = Configure[i]
      BY <1>8, Concatenated DEF s
    <3> QED
      BY <2>2, <3>1
  <2> HIDE DEF s
  <2>4. /\ s[6 + 1] = Configure[1] /\ s[6 + 2] = Configure[2] /\ s[6 + 3] = Configure[3]
        /\ s[6 + 4] = Configure[4] /\ s[6 + 5] = Configure[5] /\ s[6 + 6] = Configure[6]
        /\ s[6 + 7] = Configure[7] /\ s[6 + 8] = Configure[8]
    BY <2>3
  <2> QED
    BY <2>2, <2>3, <2>4, <1>4, <1>5
<1> HIDE DEF s
<1>10. \A r \in Fixed \ RxArea : \E j \in 1 .. 14 : s[j] = W(r)
  BY <1>1, <1>9
<1>11. Set("EIE", {7, 6}) \in Tame /\ Clear("ECON1", {TXRST, RXRST}) \in Tame
  <2>1. /\ {"EIE", "ECON1"} \subseteq BitFields /\ BitFields \subseteq Register \ MiiRegisters
        /\ "ECON1" \notin Flagged
    BY NamedAssumption, SetUpNames DEF BitFields, Named, MiiRegisters
  <2>2. {7, 6} \in SUBSET Bit /\ {TXRST, RXRST} \in SUBSET Bit /\ RXEN \notin {7, 6}
    BY DEF Bit, TXRST, RXRST, RXEN
  <2> QED
    BY <2>1, <2>2, TameCalls
<1>12. Set("ECON1", {RXEN}) \in Call /\ Right(Set("ECON1", {RXEN}))
  <2>1. "ECON1" \in Register /\ "ECON1" \notin MacMii /\ "ECON1" \notin SetUp
    BY TableAssumption, NamedAssumption, SetUpNames DEF BitFields
  <2> QED
    BY <2>1 DEF Set, Call, Right, RXEN, Bit
<1>13. Set("EIE", {7, 6}) = Giver("EIE")
  <2>1. "EIE" \notin Fixed /\ IntendedBits["EIE"] = {7, 6}
    BY SetUpNames DEF BitFields, IntendedBits
  <2> QED
    BY <2>1 DEF Giver
<1> QED
  BY <1>9, <1>10, <1>11, <1>12, <1>13, <1>8 DEF Gives, W, s

LEMMA GivesConcat ==
    ASSUME NEW s \in Seq(Harmless), NEW t \in Seq(Harmless), NEW r,
           Gives(s, Len(s), r) \/ Gives(t, Len(t), r)
    PROVE  Gives(s \o t, Len(s \o t), r)
<1> DEFINE w == s \o t
           v == Giver(r)
<1>1. /\ Len(w) = Len(s) + Len(t) /\ Len(s) \in Nat /\ Len(t) \in Nat
      /\ \A i \in 1 .. Len(s) : w[i] = s[i]
      /\ \A i \in 1 .. Len(t) : w[Len(s) + i] = t[i]
  BY Concatenated
<1> HIDE DEF w
<1>2. CASE Gives(s, Len(s), r)
  <2>1. PICK j \in 1 .. Len(s) : s[j] = v
    BY <1>2 DEF Gives
  <2>2. j \in 1 .. Len(w) /\ w[j] = v
    BY <1>1, <2>1
  <2> QED
    BY <2>2 DEF Gives, w
<1>3. CASE Gives(t, Len(t), r)
  <2>1. PICK j \in 1 .. Len(t) : t[j] = v
    BY <1>3 DEF Gives
  <2>2. Len(s) + j \in 1 .. Len(w) /\ w[Len(s) + j] = v
    BY <1>1, <2>1
  <2> QED
    BY <2>2 DEF Gives, w
<1> QED
  BY <1>2, <1>3

LEMMA HarmlessStart ==
    /\ AwaitClock \o Prepare \in Seq(Tame)
    /\ AwaitClock \o Prepare \o ReadPHY(PHSTAT2) \in Seq(Harmless)
    /\ \A r \in Early : Gives(AwaitClock \o Prepare \o ReadPHY(PHSTAT2),
                              Len(AwaitClock \o Prepare \o ReadPHY(PHSTAT2)), r)
<1>1. /\ {"ERXRDPTL", "ERXRDPTH"} \subseteq Register \ ({"ECON1"} \cup SetUp \cup MiiRegisters)
      /\ "ESTAT" \in Register \ MiiRegisters /\ {"ECON1", "ECON2"} \subseteq BitFields
      /\ {"ECON1", "ECON2"} \subseteq Register \ MiiRegisters
      /\ RxArea \subseteq Fixed /\ RxArea \subseteq Register \ MiiRegisters
      /\ RxArea \subseteq SetUp /\ "ECON2" \notin Fixed /\ "ECON1" \notin Flagged
  BY NamedAssumption, SetUpNames DEF Named, BitFields, RxArea, MiiRegisters
<1>2. AwaitClock \in Seq(Tame)
  <2>1. UntilSet("ESTAT", CLKRDY) \in Tame
    BY <1>1, TameCalls DEF CLKRDY, Bit
  <2> QED
    BY <2>1 DEF AwaitClock
<1> DEFINE start == WriteWord("ERXSTL", "ERXSTH", 0)
           end == WriteWord("ERXNDL", "ERXNDH", RX_END)
           area == SetRXMemoryArea(0, RX_END)
<1>3. /\ start \in Seq(Tame) /\ end \in Seq(Tame)
      /\ \A r \in {"ERXSTL", "ERXSTH"} : Gives(start, Len(start), r)
      /\ \A r \in {"ERXNDL", "ERXNDH"} : Gives(end, Len(end), r)
  <2>1. /\ Intended["ERXSTL"] = 0 /\ Intended["ERXSTH"] = 0
        /\ Intended["ERXNDL"] = RX_END % 256 /\ Intended["ERXNDH"] = RX_END \div 256
    BY DEF Intended
  <2>2. 0 % 256 = 0 /\ 0 \div 256 = 0
    OBVIOUS
  <2> DEFINE W(r) == Giver(r)
  <2>7. \A r \in RxArea : W(r) = Write(r, Byte(Intended[r]))
    BY <1>1 DEF Giver
  <2>3. start = <<W("ERXSTL"), W("ERXSTH")>> /\ end = <<W("ERXNDL"), W("ERXNDH")>>
    <3>1. /\ W("ERXSTL") = Write("ERXSTL", Low(0)) /\ W("ERXSTH") = Write("ERXSTH", High(0))
          /\ W("ERXNDL") = Write("ERXNDL", Low(RX_END)) /\ W("ERXNDH") = Write("ERXNDH", High(RX_END))
      BY <2>1, <2>2, <2>7 DEF RxArea, Low, High
    <3> HIDE DEF W
    <3> QED
      BY <3>1 DEF WriteWord, start, end
  <2>4. \A r \in RxArea : W(r) \in Tame
    BY <1>1, TameCalls
  <2> HIDE DEF W
  <2>5. start \in Seq(Tame) /\ end \in Seq(Tame)
    <3>1. /\ W("ERXSTL") \in Tame /\ W("ERXSTH") \in Tame
          /\ W("ERXNDL") \in Tame /\ W("ERXNDH") \in Tame
      BY <2>4 DEF RxArea
    <3> HIDE DEF start, end
    <3> QED
      BY <2>3, <3>1
  <2>6. /\ Len(start) = 2 /\ start[1] = W("ERXSTL") /\ start[2] = W("ERXSTH")
        /\ Len(end) = 2 /\ end[1] = W("ERXNDL") /\ end[2] = W("ERXNDH")
    BY <2>3
  <2> HIDE DEF start, end
  <2> QED
    BY <2>5, <2>6 DEF Gives, W
<1> HIDE DEF start, end
<1>4. area \in Seq(Tame) /\ \A r \in RxArea : Gives(area, Len(area), r)
  <2>1. WriteWord("ERXRDPTL", "ERXRDPTH", 0) \in Seq(Tame)
    BY <1>1, TameWord
  <2>2. /\ start \o end \in Seq(Tame)
        /\ \A r \in RxArea : Gives(start \o end, Len(start \o end), r)
    BY <1>3, GivesConcat, TameConcat, TameHarmless DEF RxArea
  <2>3. area = (start \o end) \o WriteWord("ERXRDPTL", "ERXRDPTH", 0)
    BY DEF SetRXMemoryArea, start, end
  <2> HIDE DEF area
  <2> QED
    BY <2>1, <2>2, <2>3, GivesConcat, TameConcat, TameHarmless
<1> HIDE DEF area
<1>5. Prepare \in Seq(Tame) /\ \A r \in Early : Gives(Prepare, Len(Prepare), r)
  <2>1. /\ {TXRST} \in SUBSET Bit /\ {RXEN} \in SUBSET Bit /\ {AUTOINC} \in SUBSET Bit
        /\ RXEN \notin {TXRST} /\ RXEN \notin {AUTOINC}
    BY DEF Bit, TXRST, RXEN, AUTOINC
  <2>2. /\ Set("ECON1", {TXRST}) \in Tame /\ Clear("ECON1", {RXEN}) \in Tame
        /\ Set("ECON2", {AUTOINC}) \in Tame
    BY <1>1, <2>1, TameCalls
  <2> DEFINE first == <<Set("ECON1", {TXRST}), Clear("ECON1", {RXEN}), Set("ECON2", {AUTOINC})>>
  <2>3. first \in Seq(Tame) /\ Prepare = first \o area
    BY <2>2 DEF Prepare, area
  <2>4. Gives(first, Len(first), "ECON2")
    <3>1. Giver("ECON2") = Set("ECON2", {AUTOINC})
      BY <1>1 DEF Giver, IntendedBits
    <3>2. Len(first) = 3 /\ first[3] = Set("ECON2", {AUTOINC})
      OBVIOUS
    <3> HIDE DEF first
    <3> QED
      BY <3>1, <3>2 DEF Gives
  <2> HIDE DEF first
  <2> QED
    BY <1>4, <2>3, <2>4, GivesConcat, TameConcat, TameHarmless DEF Early
<1>6. ReadPHY(PHSTAT2) \in Seq(Harmless)
  BY HarmlessPHY DEF PHSTAT2, Byte
<1>7. /\ AwaitClock \o Prepare \in Seq(Tame)
      /\ \A r \in Early : Gives(AwaitClock \o Prepare, Len(AwaitClock \o Prepare), r)
  BY <1>2, <1>5, GivesConcat, TameConcat, TameHarmless
<1>8. \A s \in Seq(Harmless) :
         /\ (AwaitClock \o Prepare) \o s \in Seq(Harmless)
         /\ \A r \in Early : Gives((AwaitClock \o Prepare) \o s,
                                   Len((AwaitClock \o Prepare) \o s), r)
  BY <1>7, GivesConcat, HarmlessConcat, TameHarmless
<1> QED
  BY <1>6, <1>7, <1>8

LEMMA TameSend ==
    ASSUME NEW n PROVE Send(n) \in Seq(Tame)
<1>1. /\ {"ETXSTL", "ETXSTH", "EWRPTL", "EWRPTH", "ETXNDL", "ETXNDH", "ERDPTL", "ERDPTH"}
            \subseteq Register \ ({"ECON1"} \cup SetUp \cup MiiRegisters)
      /\ {"ECON1", "EIR"} \subseteq BitFields /\ {"ECON1", "EIR"} \subseteq Register \ MiiRegisters
      /\ {"ECON1", "EIR"} \cap Flagged = {}
  BY NamedAssumption, SetUpNames DEF Named, BitFields, RxArea, MiiRegisters
<1>2. /\ WriteWord("ETXSTL", "ETXSTH", TX_START) \in Seq(Tame)
      /\ WriteWord("EWRPTL", "EWRPTH", TX_START) \in Seq(Tame)
      /\ WriteWord("ETXNDL", "ETXNDH", TX_START + n) \in Seq(Tame)
      /\ WriteWord("ERDPTL", "ERDPTH", TX_START + n + 1) \in Seq(Tame)
  BY <1>1, TameWord
<1>3. /\ {TXRST} \in SUBSET Bit /\ {TXIF} \in SUBSET Bit /\ {TXRTS} \in SUBSET Bit
      /\ TXRTS \in Bit /\ RXEN \notin {TXRST} /\ RXEN \notin {TXRTS}
  BY DEF Bit, TXRST, TXIF, TXRTS, RXEN
<1>4. /\ Set("ECON1", {TXRST}) \in Tame /\ Clear("ECON1", {TXRST}) \in Tame
      /\ Clear("EIR", {TXIF}) \in Tame
      /\ Set("ECON1", {TXRTS}) \in Tame /\ UntilClear("ECON1", TXRTS) \in Tame
  BY <1>1, <1>3, TameCalls
<1>5. /\ <<Set("ECON1", {TXRST}), Clear("ECON1", {TXRST}), Clear("EIR", {TXIF})>>
            \in Seq(Tame)
      /\ <<Set("ECON1", {TXRTS}), UntilClear("ECON1", TXRTS)>> \in Seq(Tame)
  BY <1>4
<1>6. SendPrepare(n) \in Seq(Tame)
  BY <1>2, <1>5, TameConcat DEF SendPrepare
<1> QED
  BY <1>2, <1>5, <1>6, TameConcat DEF Send

LEMMA TameMark ==
    ASSUME NEW n
    PROVE  /\ MarkAtEnd \o <<Set("ECON2", {PKTDEC}), Read("EPKTCNT")>> \in Seq(Tame)
           /\ WriteWord("ERXRDPTL", "ERXRDPTH", n)
                 \o <<Set("ECON2", {PKTDEC}), Read("EPKTCNT")>> \in Seq(Tame)
<1>1. /\ {"ERXRDPTL", "ERXRDPTH"} \subseteq Register \ ({"ECON1"} \cup SetUp \cup MiiRegisters)
      /\ {"ERXNDL", "ERXNDH", "EPKTCNT", "ECON2"} \subseteq Register \ MiiRegisters /\ "ECON2" \in BitFields
  BY NamedAssumption, SetUpNames DEF Named, BitFields, RxArea, MiiRegisters
<1>2. {PKTDEC} \in SUBSET Bit /\ RXEN \notin {PKTDEC}
  BY DEF Bit, PKTDEC, RXEN
<1>3. Set("ECON2", {PKTDEC}) \in Tame /\ Read("EPKTCNT") \in Tame
  BY <1>1, <1>2, TameCalls
<1>4. <<Set("ECON2", {PKTDEC}), Read("EPKTCNT")>> \in Seq(Tame)
  BY <1>3
<1>5. /\ Read("ERXNDL") \in Tame /\ WriteRead("ERXRDPTL") \in Tame
      /\ Read("ERXNDH") \in Tame /\ WriteRead("ERXRDPTH") \in Tame
  BY <1>1, TameCalls
<1>6. MarkAtEnd \in Seq(Tame)
  BY <1>5 DEF MarkAtEnd
<1>7. WriteWord("ERXRDPTL", "ERXRDPTH", n) \in Seq(Tame)
  BY <1>1, TameWord
<1> QED
  BY <1>4, <1>6, <1>7, TameConcat
-----------------------------------------------------------------------------
\* Reading sends nothing and an access changes the registers set up only as
\* its call says; the controller answers PKTDEC in ECON2 but leaves AUTOINC.
LEMMA AfterSetUp ==
    ASSUME NEW f \in [Register -> SUBSET Bit], NEW c \in Call, NEW v \in SUBSET Bit,
           NEW r \in SetUp
    PROVE  /\ c.reg # r \/ Reads(c) => After(f, c, c.reg, v)[r] = f[r]
           /\ r \in Fixed /\ c.reg = r /\ c.op = "WCR" => After(f, c, c.reg, v)[r] = v
           /\ r \in Flagged /\ c.reg = r /\ c.op = "BFS" =>
                 IntendedBits[r] \cap (f[r] \cup v) \subseteq After(f, c, c.reg, v)[r]
<1> DEFINE g == [f EXCEPT ![c.reg] = Stored(c.op, @, v)]
<1>1. /\ c.reg \in Register /\ r \in Register /\ r \notin {"MISTAT", "EPKTCNT", "EIR"}
      /\ r \in Fixed => r # "ECON2"
  BY SetUpNames DEF Call, BitFields
<1>2. /\ c.reg # r \/ Reads(c) => g[r] = f[r]
      /\ c.reg = r /\ c.op = "WCR" => g[r] = v
      /\ c.reg = r /\ c.op = "BFS" => g[r] = f[r] \cup v
  BY <1>1 DEF Stored, Reads
<1>3. DOMAIN g = Register
  OBVIOUS
<1> HIDE DEF g
<1>4. r # "ECON2" \/ c.reg # r \/ c.op # "BFS" => React(g, c.op, c.reg, v)[r] = g[r]
  BY <1>1, <1>3 DEF React
<1>5. r = "ECON2" => g[r] \ {PKTDEC} \subseteq React(g, c.op, c.reg, v)[r]
  BY <1>1, <1>3 DEF React
<1>6. r = "ECON2" => PKTDEC \notin IntendedBits[r]
  BY DEF IntendedBits, PKTDEC, AUTOINC
<1>7. After(f, c, c.reg, v) = React(g, c.op, c.reg, v)
  BY DEF After, g
<1>8. Reads(c) => c.op # "BFS"
  BY DEF Reads
<1> QED
  BY <1>1, <1>2, <1>4, <1>5, <1>6, <1>7, <1>8

LEMMA AllGood ==
    /\ ConfiguredBeforeReceiving <=> (RXEN \in chip["ECON1"] => \A r \in SetUp : Good(r))
    /\ ConfiguredBeforeReceiving' <=> (RXEN \in chip'["ECON1"] => \A r \in SetUp : Good(r)')
<1>1. Fixed \cap Flagged = {} /\ SetUp = Fixed \cup Flagged
  BY SetUpNames DEF BitFields
<1>2. (\A r \in SetUp : Good(r)) <=> (/\ \A r \in Fixed : chip[r] = Byte(Intended[r])
                                      /\ \A r \in Flagged : IntendedBits[r] \subseteq chip[r])
  BY <1>1 DEF Good
<1>3. (\A r \in SetUp : Good(r)') <=> (/\ \A r \in Fixed : chip'[r] = Byte(Intended[r])
                                       /\ \A r \in Flagged : IntendedBits[r] \subseteq chip'[r])
  BY <1>1 DEF Good
<1> QED
  BY <1>2, <1>3 DEF ConfiguredBeforeReceiving, Fixed, Flagged

LEMMA ConfigAccess ==
    ASSUME Inv, ConfigInv, Access, UNCHANGED own PROVE ConfigInv'
<1> DEFINE c == Head(todo)
           v == Sent(c, read)
<1>1. /\ c \in Call /\ todo \in Seq(Call) /\ todo # <<>> /\ Len(todo) \in Nat \ {0}
      /\ chip \in [Register -> SUBSET Bit] /\ v \in SUBSET Bit /\ c = todo[1]
  <2>1. todo # <<>> /\ todo \in Seq(Call)
    BY DEF Access, Inv, TypeInv, Program
  <2> QED
    BY <2>1, AccessIsCall, Bytes DEF Inv, TypeInv
<1>2. PICK got \in Returned(chip, c, c.reg) :
          chip' = After(chip, c, c.reg, v) /\ todo' = Remaining(todo, got)
  BY AccessIsCall
<1>3. Right(c) /\ (Enables(c) => \A r \in SetUp : Ready(todo, 0, r))
  BY <1>1 DEF ConfigInv, CallsSetUp
<1> HIDE DEF c, v, SetUp
<1>4. \A r \in SetUp : Good(r) \/ (c = Giver(r) /\ ~Reads(c)) => Good(r)'
  <2>1. ASSUME NEW r \in SetUp
        PROVE  /\ c.reg # r \/ Reads(c) => chip'[r] = chip[r]
               /\ r \in Fixed /\ c.reg = r /\ c.op = "WCR" => chip'[r] = v
               /\ r \in Flagged /\ c.reg = r /\ c.op = "BFS" =>
                     IntendedBits[r] \cap (chip[r] \cup v) \subseteq chip'[r]
    <3>1. chip' = After(chip, c, c.reg, v)
      BY <1>2
    <3>2. c \in Call /\ chip \in [Register -> SUBSET Bit] /\ v \in SUBSET Bit
      BY <1>1
    <3> QED
      BY <3>1, <3>2, AfterSetUp, Zenon
  <2> SUFFICES ASSUME NEW r \in SetUp, Good(r) \/ (c = Giver(r) /\ ~Reads(c))
               PROVE  Good(r)'
    OBVIOUS
  <2>2. CASE c.reg # r \/ Reads(c)
    <3>1. c = Giver(r) => c.reg = r
      BY DEF Giver, Write, Set
    <3> QED
      BY <2>1, <2>2, <3>1 DEF Good
  <2>3. CASE c.reg = r /\ ~Reads(c) /\ r \in Fixed
    <3>1. r \notin Flagged
      BY <2>3, SetUpNames DEF BitFields
    <3>2. c = Write(r, Byte(Intended[r]))
      BY <1>3, <2>3, <3>1 DEF Right, Giver
    <3>3. c.op = "WCR" /\ c.byte = Byte(Intended[r])
      BY <3>2 DEF Write
    <3>4. v = Byte(Intended[r])
      BY <3>3 DEF v, Sent, c
    <3> QED
      BY <2>1, <2>3, <3>3, <3>4 DEF Good
  <2>4. CASE c.reg = r /\ ~Reads(c) /\ r \in Flagged
    <3>1. r \notin Fixed
      BY <2>4, SetUpNames DEF BitFields
    <3>2. c.op = "BFS"
      BY <1>3, <2>4, <3>1 DEF Right, Giver, Set
    <3>3. v = c.byte
      BY <3>2 DEF v, Sent, c
    <3>4. IntendedBits[r] \subseteq chip[r] \/ IntendedBits[r] = v
      BY <3>1, <3>3 DEF Good, Giver, Set
    <3> QED
      BY <2>1, <2>4, <3>1, <3>2, <3>4 DEF Good
  <2> QED
    BY <2>2, <2>3, <2>4, SetUpNames
<1>5. ConfiguredBeforeReceiving'
  <2> SUFFICES ASSUME RXEN \in chip'["ECON1"] PROVE \A r \in SetUp : Good(r)'
    BY AllGood
  <2>1. RXEN \in chip["ECON1"] \/ Enables(c)
    <3>1. /\ c.reg # "ECON1" => chip'["ECON1"] = chip["ECON1"]
          /\ c.reg = "ECON1" => chip'["ECON1"] = Stored(c.op, chip["ECON1"], v)
      BY <1>1, <1>2, AfterType
    <3>2. c.reg = "ECON1" => c.op \in {"RCR", "BFS", "BFC"} /\ v = c.byte
      BY <1>1 DEF Call, v, Sent
    <3> QED
      BY <3>1, <3>2 DEF Stored, Enables
  <2>2. \A r \in SetUp : Good(r)
    <3>1. CASE RXEN \in chip["ECON1"]
      BY <3>1, AllGood DEF ConfigInv
    <3>2. CASE Enables(c)
      BY <3>2, <1>3 DEF Ready, Gives
    <3> QED
      BY <2>1, <3>1, <3>2
  <2> QED
    BY <1>4, <2>2
<1>6. CASE todo' = todo
  <2>1. Reads(c) \/ todo' # todo
    <3>1. c.until # "read" => Reads(c)
      BY <1>1 DEF Call, Reads
    <3>2. c.until = "read" => todo' = Tail(todo)
      BY <1>2 DEF Remaining, Over, c
    <3>3. Tail(todo) # todo
      BY <1>1
    <3> QED
      BY <3>1, <3>2, <3>3
  <2>2. \A r \in SetUp : Good(r) => Good(r)'
    BY <1>4
  <2>3. \A r \in SetUp : \A n : Ready(todo, n, r) => Ready(todo, n, r)'
    BY <1>6, <2>2 DEF Ready, Gives
  <2>4. CallsSetUp'
    BY <1>6, <2>3 DEF ConfigInv, CallsSetUp
  <2>5. EarlySetUp'
    BY <1>6, <2>3, SetUpNames DEF ConfigInv, EarlySetUp, own
  <2> QED
    BY <1>5, <2>4, <2>5 DEF ConfigInv
<1>7. CASE todo' = Tail(todo)
  <2>1. /\ Len(todo') = Len(todo) - 1
        /\ \A j \in 1 .. Len(todo') : todo'[j] = todo[j + 1]
    BY <1>1, <1>7
  <2>2. ASSUME NEW r \in SetUp, NEW k \in 0 .. Len(todo'), Ready(todo, k + 1, r)
        PROVE  Ready(todo, k, r)'
    <3>1. CASE Good(r)
      BY <1>4, <3>1 DEF Ready
    <3>2. CASE Gives(todo, k + 1, r)
      <4>1. PICK j \in 1 .. k + 1 : todo[j] = Giver(r)
        BY <3>2 DEF Gives
      <4>2. CASE j = 1
        <5>1. c = Giver(r) /\ ~Reads(c)
          BY <1>1, <4>1, <4>2 DEF Giver, Write, Set, Reads
        <5> QED
          BY <1>4, <5>1 DEF Ready
      <4>3. CASE j # 1
        <5>1. j - 1 \in 1 .. k /\ j - 1 \in 1 .. Len(todo') /\ (j - 1) + 1 = j
          BY <1>1, <2>1, <4>3
        <5>2. todo'[j - 1] = Giver(r)
          BY <2>1, <4>1, <5>1
        <5> QED
          BY <5>1, <5>2 DEF Ready, Gives
      <4> QED
        BY <4>2, <4>3
    <3> QED
      BY <2>2, <3>1, <3>2 DEF Ready
  <2>3. CallsSetUp'
    <3> SUFFICES ASSUME NEW i \in 1 .. Len(todo')
                 PROVE  /\ Right(todo'[i])
                        /\ Enables(todo'[i]) => \A r \in SetUp : Ready(todo, i - 1, r)'
      BY DEF CallsSetUp
    <3>1. i + 1 \in 1 .. Len(todo) /\ i - 1 \in 0 .. Len(todo') /\ (i + 1) - 1 = (i - 1) + 1
          /\ todo'[i] = todo[i + 1]
      BY <1>1, <2>1
    <3>2. /\ Right(todo[i + 1])
          /\ Enables(todo[i + 1]) => \A r \in SetUp : Ready(todo, (i - 1) + 1, r)
      BY <3>1 DEF ConfigInv, CallsSetUp
    <3> QED
      BY <2>2, <3>1, <3>2
  <2>4. EarlySetUp'
    <3>1. Len(todo') \in 0 .. Len(todo') /\ Len(todo') + 1 = Len(todo)
      BY <1>1, <2>1
    <3> QED
      BY <2>2, <3>1, SetUpNames DEF ConfigInv, EarlySetUp, own
  <2> QED
    BY <1>5, <2>3, <2>4 DEF ConfigInv
<1> QED
  BY <1>2, <1>6, <1>7 DEF Remaining

\* A series of harmless calls keeps what is set up.
LEMMA ConfigBegin ==
    ASSUME ConfigInv, NEW calls \in Seq(Harmless), Begin(calls),
           stage' \in {"phstat2", "phcon1"} => \A r \in Early : Good(r)
    PROVE  ConfigInv'
<1> HIDE DEF SetUp
<1>1. chip' = chip /\ todo' = calls
  BY DEF Begin
<1>2. ConfiguredBeforeReceiving'
  BY <1>1 DEF ConfigInv, ConfiguredBeforeReceiving
<1>3. CallsSetUp'
  BY <1>1 DEF CallsSetUp, Harmless
<1>4. EarlySetUp'
  BY <1>1 DEF EarlySetUp, Ready, Good
<1> QED
  BY <1>2, <1>3, <1>4 DEF ConfigInv

\* The series that ends with the call that enables reception.
LEMMA ConfigFinish ==
    ASSUME ConfigInv, PhyCon1 PROVE ConfigInv'
<1> DEFINE p == WritePHY(PHCON1, Word(read) \ {PDPXMD})
           s == SetMACAddress \o Configure
           t == p \o s
           w == p \o Finish
<1>1. chip' = chip /\ todo' = w /\ todo = <<>> /\ stage = "phcon1" /\ stage' = "config"
  BY DEF PhyCon1, Begin
<1>2. p \in Seq(Harmless) /\ s \in Seq(Harmless)
  BY HarmlessPHY, FinishSetsUp, TameHarmless DEF PHCON1, Byte
<1>3. \A r \in Early : Good(r)
  BY <1>1, SetUpNames DEF ConfigInv, EarlySetUp, Ready, Gives
<1>4. t \in Seq(Harmless) /\ \A r \in Fixed \ RxArea : Gives(t, Len(t), r)
  <2> HIDE DEF p, s, SetUp
  <2>1. \A r \in Fixed \ RxArea : Gives(s, Len(s), r)
    BY FinishSetsUp DEF s
  <2> QED
    BY <1>2, <2>1, HarmlessConcat, GivesConcat
<1>5. Enable \in Seq(Call) /\ Len(Enable) = 3
      /\ Enable[1] \in Harmless /\ Enable[2] \in Harmless /\ Right(Enable[3])
      /\ Enable[1] = Giver("EIE")
  <2>1. /\ Enable[1] = Set("EIE", {7, 6}) /\ Enable[2] = Clear("ECON1", {TXRST, RXRST})
        /\ Enable[3] = Set("ECON1", {RXEN}) /\ Len(Enable) = 3
    BY DEF Enable
  <2> QED
    BY <2>1, FinishSetsUp DEF Enable, Harmless, Tame
<1>6. w = t \o Enable
  <2>1. /\ p \in Seq(Call) /\ SetMACAddress \in Seq(Call) /\ Configure \in Seq(Call)
        /\ Enable \in Seq(Call)
    <3> HIDE DEF p, s
    <3> QED
      BY <1>2, <1>5, FinishSetsUp, TameHarmless, HarmlessCall
  <2>2. s \in Seq(Call)
    BY <1>2, HarmlessCall
  <2>3. Finish = s \o Enable
    BY DEF Finish
  <2> HIDE DEF p, s
  <2>4. p \o (s \o Enable) = (p \o s) \o Enable
    BY <2>1, <2>2, Associative
  <2> QED
    BY <2>3, <2>4, Zenon
<1> HIDE DEF p, s, SetUp
<1>7. /\ Len(w) = Len(t) + 3 /\ Len(t) \in Nat
      /\ \A i \in 1 .. Len(t) : w[i] = t[i] /\ t[i] \in Harmless
      /\ w[Len(t) + 1] \in Harmless /\ w[Len(t) + 2] \in Harmless
      /\ w[Len(t) + 3] = Enable[3] /\ w[Len(t) + 1] = Giver("EIE")
  <2> HIDE DEF t, w
  <2>1. t \in Seq(Call)
    BY <1>4 DEF Harmless
  <2>2. /\ Len(w) = Len(t) + 3
        /\ \A i \in 1 .. Len(t) : w[i] = t[i]
        /\ \A i \in 1 .. 3 : w[Len(t) + i] = Enable[i]
    <3>1. /\ Len(t \o Enable) = Len(t) + Len(Enable)
          /\ \A i \in 1 .. Len(t) : (t \o Enable)[i] = t[i]
          /\ \A i \in 1 .. Len(Enable) : (t \o Enable)[Len(t) + i] = Enable[i]
      <4>1. Enable \in Seq(Call)
        BY <1>5
      <4> QED
        BY <2>1, <4>1, Concatenated
    <3> QED
      BY <1>5, <1>6, <3>1, Zenon
  <2> QED
    BY <1>4, <1>5, <2>2
<1> HIDE DEF t, w
<1>8. \A r \in SetUp : Good(r) \/ Gives(w, Len(t) + 2, r)
  <2>1. ASSUME NEW r \in Fixed \ RxArea PROVE Gives(w, Len(t) + 2, r)
    <3>1. PICK j \in 1 .. Len(t) : t[j] = Giver(r)
      BY <1>4 DEF Gives
    <3>2. j \in 1 .. Len(t) + 2 /\ w[j] = Giver(r)
      BY <1>7, <3>1
    <3> QED
      BY <3>2 DEF Gives
  <2>2. Gives(w, Len(t) + 2, "EIE")
    <3>1. Len(t) + 1 \in 1 .. Len(t) + 2
      BY <1>7
    <3> QED
      BY <1>7, <3>1 DEF Gives
  <2>3. SetUp = Early \cup (Fixed \ RxArea) \cup {"EIE"}
    BY SetUpNames DEF Early
  <2> QED
    BY <1>3, <2>1, <2>2, <2>3
<1>9. CallsSetUp'
  <2> SUFFICES ASSUME NEW i \in 1 .. Len(w)
               PROVE  /\ Right(w[i])
                      /\ Enables(w[i]) => \A r \in SetUp : Ready(todo, i - 1, r)'
    BY <1>1 DEF CallsSetUp
  <2>1. CASE i = Len(t) + 3
    <3>1. i - 1 = Len(t) + 2
      BY <1>7, <2>1
    <3> QED
      BY <1>1, <1>5, <1>7, <1>8, <2>1, <3>1 DEF Ready, Good
  <2>2. CASE i # Len(t) + 3
    <3>1. i \in 1 .. Len(t) \/ i = Len(t) + 1 \/ i = Len(t) + 2
      BY <1>7, <2>2
    <3>2. w[i] \in Harmless
      BY <1>7, <3>1
    <3> QED
      BY <3>2 DEF Harmless
  <2> QED
    BY <2>1, <2>2
<1>10. ConfiguredBeforeReceiving' /\ EarlySetUp'
  BY <1>1 DEF ConfigInv, ConfiguredBeforeReceiving, EarlySetUp
<1> QED
  BY <1>9, <1>10 DEF ConfigInv

\* From the end of InitConfig on, every series of calls is tame.
Underway == {"mac", "idle", "eir", "count", "header", "erxst"}

LEMMA TameDriver ==
    ASSUME HwaddrType, LwipInit \/ GetMACAddress \/ Running
    PROVE  /\ \E calls \in Seq(Tame) : Begin(calls)
           /\ phy' = phy /\ stage \in Underway \cup {"config"} /\ stage' \in Underway
<1>1. {"EIR", "EPKTCNT", "ERXSTL", "ERXSTH"} \subseteq Register \ MiiRegisters
      /\ \A i \in 1 .. 6 : Maadr[i] \in Register \ MiiRegisters
  BY NamedAssumption DEF Named, BitFields, Maadr, MiiRegisters
<1>2. <<>> \in Seq(Tame) /\ \A r \in Register \ MiiRegisters : <<Read(r)>> \in Seq(Tame)
  BY TameCalls
<1>3. /\ phy' = phy /\ stage \in Underway \cup {"config"} /\ stage' \in Underway
  BY DEF LwipInit, GetMACAddress, Running, Timer, Interrupt, CheckEir, PollCount, OnReceive,
         MarkRead, Underway, own
<1>4. SUFFICES \E calls \in Seq(Tame) : Begin(calls)
  BY <1>3
<1>5. CASE LwipInit
  <2>1. <<Read(Maadr[1])>> \in Seq(Tame)
    BY <1>1, <1>2
  <2> QED
    BY <1>5, <2>1 DEF LwipInit
<1>6. CASE GetMACAddress
  <2>1. CASE Len(hwaddr) < 5
    <3>1. Len(hwaddr) + 2 \in 1 .. 6
      BY <2>1 DEF HwaddrType
    <3>2. <<Read(Maadr[Len(hwaddr) + 2])>> \in Seq(Tame)
      BY <1>1, <1>2, <3>1
    <3> QED
      BY <1>6, <2>1, <3>2 DEF GetMACAddress
  <2>2. CASE ~(Len(hwaddr) < 5)
    BY <1>2, <1>6, <2>2 DEF GetMACAddress
  <2> QED
    BY <2>1, <2>2
<1>7. CASE Timer
  BY <1>7, TameSend DEF Timer
<1>8. CASE Interrupt
  BY <1>1, <1>2, <1>8 DEF Interrupt
<1>9. CASE CheckEir
  BY <1>1, <1>2, <1>9 DEF CheckEir
<1>10. CASE PollCount
  <2>1. WriteWord("ERDPTL", "ERDPTH", nextPacket) \in Seq(Tame)
    BY NamedAssumption, SetUpNames, TameWord DEF Named, RxArea, MiiRegisters
  <2> QED
    BY <1>2, <1>10, <2>1 DEF PollCount
<1>11. CASE OnReceive
  <2> DEFINE t == <<Read("ERXSTL"), Read("ERXSTH")>>
  <2>1. t \in Seq(Tame)
    BY <1>1, TameCalls
  <2> HIDE DEF t
  <2>2. PICK answer \in {<<>>} \cup {Send(n) : n \in Counts} : Begin(answer \o t)
    BY <1>11 DEF OnReceive, t
  <2>3. answer \in Seq(Tame)
    BY <1>2, TameSend
  <2>4. answer \o t \in Seq(Tame)
    BY <2>1, <2>3, TameConcat
  <2> QED
    BY <1>11, <2>2, <2>4 DEF OnReceive
<1>12. CASE MarkRead
  BY <1>12, TameMark DEF MarkRead
<1> QED
  BY <1>5, <1>6, <1>7, <1>8, <1>9, <1>10, <1>11, <1>12 DEF Running

LEMMA ConfigDriver ==
    ASSUME ConfigInv, HwaddrType, Starting \/ Running PROVE ConfigInv'
<1> HIDE DEF SetUp
<1>3. CASE InitConfig
  <2> DEFINE calls == AwaitClock \o Prepare \o ReadPHY(PHSTAT2)
  <2>1. chip'["ECON1"] = {} /\ todo' = calls
    BY <1>3, TableAssumption DEF InitConfig, Boot, ResetValues
  <2>2. calls \in Seq(Harmless) /\ \A r \in Early : Gives(calls, Len(calls), r)
    BY HarmlessStart
  <2> HIDE DEF calls
  <2>3. ConfiguredBeforeReceiving'
    BY <2>1 DEF ConfiguredBeforeReceiving
  <2>4. CallsSetUp'
    BY <2>1, <2>2 DEF CallsSetUp, Harmless
  <2>5. EarlySetUp'
    BY <2>1, <2>2 DEF EarlySetUp, Ready
  <2> QED
    BY <2>3, <2>4, <2>5 DEF ConfigInv
<1>4. CASE PhyStat2
  <2>1. WritePHY(PHSTAT2, Word(read) \ {DPXSTAT}) \o ReadPHY(PHCON1) \in Seq(Harmless)
    BY HarmlessPHY, HarmlessConcat DEF PHSTAT2, PHCON1, Byte
  <2>2. \A r \in Early : Good(r)
    BY <1>4 DEF ConfigInv, EarlySetUp, PhyStat2, Begin, Ready, Gives
  <2> QED
    BY <1>4, <2>1, <2>2, ConfigBegin DEF PhyStat2
<1>5. CASE PhyCon1
  BY <1>5, ConfigFinish
<1>6. CASE LwipInit \/ GetMACAddress \/ Running
  <2>1. PICK calls \in Seq(Tame) : Begin(calls)
    BY <1>6, TameDriver
  <2>2. calls \in Seq(Harmless) /\ stage' \notin {"phstat2", "phcon1"}
    BY <1>6, <2>1, TameDriver, TameHarmless DEF Underway
  <2> QED
    BY <2>1, <2>2, ConfigBegin
<1> QED
  BY <1>3, <1>4, <1>5, <1>6 DEF Starting

LEMMA ConfigStep == Inv /\ HwaddrType /\ ConfigInv /\ [Next]_vars => ConfigInv'
<1> SUFFICES ASSUME Inv, HwaddrType, ConfigInv, [Next]_vars PROVE ConfigInv'
  OBVIOUS
<1> HIDE DEF SetUp
\* What leaves the calls, the registers set up and RXEN alone keeps ConfigInv.
<1>1. ASSUME todo' = todo, stage' = stage, \A r \in SetUp : chip'[r] = chip[r],
             RXEN \in chip'["ECON1"] => RXEN \in chip["ECON1"]
      PROVE  ConfigInv'
  <2>1. ConfiguredBeforeReceiving'
    <3>1. \A r \in SetUp : Good(r) => Good(r)'
      BY <1>1 DEF Good
    <3> QED
      BY <1>1, <3>1, AllGood DEF ConfigInv
  <2>2. \A r \in SetUp : \A n : Ready(todo, n, r)' <=> Ready(todo, n, r)
    BY <1>1 DEF Ready, Good, Gives
  <2>3. CallsSetUp' /\ EarlySetUp'
    BY <1>1, <2>2, SetUpNames DEF ConfigInv, CallsSetUp, EarlySetUp
  <2> QED
    BY <2>1, <2>3 DEF ConfigInv
<1>2. CASE Starting \/ Running
  BY <1>2, ConfigDriver
<1>3. CASE Transaction
  <2>1. CASE Access
    BY <1>3, <2>1, ConfigAccess DEF Transaction
  <2>2. CASE SwitchRead \/ SwitchWrite
    <3>1. chip' = chip /\ todo' = todo /\ stage' = stage
      BY <1>3, <2>2 DEF Transaction, SwitchRead, SwitchWrite, Inv, Switching, TypeInv, own
    <3> QED
      BY <1>1, <3>1
  <2> QED
    BY <1>3, <2>1, <2>2 DEF Transaction
<1>4. CASE ClockReady \/ MiiDone \/ TxDone \/ PacketArrives
  <2>1. todo' = todo /\ stage' = stage
    BY <1>4 DEF ClockReady, MiiDone, TxDone, PacketArrives, own
  <2>2. /\ chip \in [Register -> SUBSET Bit]
        /\ SetUp \subseteq Register
        /\ SetUp \cap {"ESTAT", "MISTAT", "MIRDL", "MIRDH", "ECON1", "EIR", "EPKTCNT"} = {}
    BY SetUpNames DEF Inv, TypeInv
  <2>3. \A r \in SetUp : chip'[r] = chip[r]
    BY <1>4, <2>2 DEF ClockReady, MiiDone, TxDone, PacketArrives
  <2>4. RXEN \in chip'["ECON1"] => RXEN \in chip["ECON1"]
    BY <1>4, <2>2, TableAssumption DEF ClockReady, MiiDone, TxDone, PacketArrives
  <2> QED
    BY <1>1, <2>1, <2>3, <2>4
<1>5. CASE ProcessorReset
  <2>1. chip' = chip /\ todo' = <<>> /\ stage' = "off"
    BY <1>5 DEF ProcessorReset, Restart
  <2> QED
    BY <2>1 DEF ConfigInv, ConfiguredBeforeReceiving, CallsSetUp, EarlySetUp
<1>6. CASE UNCHANGED vars
  BY <1>1, <1>6 DEF vars, bankVars, own
<1> QED
  BY <1>2, <1>3, <1>4, <1>5, <1>6 DEF Next

\* Reception is enabled only while every register of the set-up has the byte,
\* or the bits, InitConfig gives it, for any address, any PHY and any number
\* of resets of the processor, each at any point.
THEOREM ConfiguredFirst == Spec => []ConfiguredBeforeReceiving
<1>1. Init => ConfigInv
  BY TableAssumption DEF Init, BanksInit, ResetValues, ConfigInv, ConfiguredBeforeReceiving,
     CallsSetUp, EarlySetUp
<1>2. Init => Inv /\ HwaddrType
  BY BanksInitial DEF Init, HwaddrType
<1>3. Inv /\ HwaddrType /\ ConfigInv /\ [Next]_vars => (Inv /\ HwaddrType /\ ConfigInv)'
  BY ControllerStep, BanksStep, HwaddrStep, ConfigStep
<1>4. ConfigInv => ConfiguredBeforeReceiving
  BY DEF ConfigInv
<1> QED
  BY <1>1, <1>2, <1>3, <1>4, PTL DEF Spec
-----------------------------------------------------------------------------
(* The PHY's control register.  It is read and written through the MII     *)
(* registers in several calls, and the controller does the work in between *)
(* by itself; the invariant says what is true of them in every call of     *)
(* ReadPHY and WritePHY, and that nothing else touches them.               *)
Rest(s, n) == SubSeq(s, n, Len(s))
PowerOn == PhyPowerOn[PHCON1]
HalfDuplex == PowerOn \ {PDPXMD}

Busy == BUSY \in chip["MISTAT"]
Idle == ~Busy /\ chip["MICMD"] = {}
Fetched(a) == chip["MIRDL"] = LowByte(phy[a]) /\ chip["MIRDH"] = HighByte(phy[a])
Written(a, w) == a = PHCON1 => phy[PHCON1] = w

\* In the n-th call of ReadPHY(a); of WritePHY(a, w) followed by the calls s.
ReadingAt(a, n) ==
    /\ todo = Rest(ReadPHY(a), n)
    /\ n # 3 => ~Busy
    /\ n \notin {3, 4} => chip["MICMD"] = {}
    /\ n \in {2, 3} => chip["MIREGADR"] = a
    /\ n = 3 => chip["MICMD"] = {MIIRD} /\ (Busy \/ Fetched(a))
    /\ n \in {4, 5} => Fetched(a)
    /\ n = 6 => chip["MIRDH"] = HighByte(phy[a]) /\ read[2] = LowByte(phy[a])
    /\ n = 7 => read = <<LowByte(phy[a]), HighByte(phy[a])>>
WritingAt(a, w, s, n) ==
    /\ todo = Rest(WritePHY(a, w) \o s, n)
    /\ chip["MICMD"] = {}
    /\ n # 4 => ~Busy
    /\ n > 1 => chip["MIREGADR"] = a
    /\ n > 2 => chip["MIWRL"] = LowByte(w)
    /\ n = 4 => chip["MIWRH"] = HighByte(w) /\ (Busy \/ Written(a, w))

Leading == \E n \in 1 .. 10 :
    todo = Rest(AwaitClock \o Prepare \o ReadPHY(PHSTAT2), n) /\ Idle
Reading(a) == \E n \in 1 .. 7 : ReadingAt(a, n)
Writing(a, w, s) == \E n \in 1 .. 4 : WritingAt(a, w, s, n)
Settled ==
    /\ \A i \in 1 .. Len(todo) : todo[i].reg \notin MiiRegisters
    /\ Idle
    /\ phy[PHCON1] = HalfDuplex
\* What the controller may still be doing for a driver that was reset.
LeftOver ==
    Busy => \/ MIIRD \in chip["MICMD"]
            \/ chip["MIREGADR"] # PHCON1
            \/ Word(<<chip["MIWRL"], chip["MIWRH"]>>) = HalfDuplex

PhyInv ==
    /\ phy \in [{PHCON1, PHSTAT2} -> SUBSET (0 .. 15)]
    /\ phy[PHCON1] \in {PowerOn, HalfDuplex}
    /\ stage \in {"off", "phstat2", "phcon1", "config"} \cup Underway
    /\ on <=> stage # "off"
    /\ stage = "off" => LeftOver
    /\ stage = "phstat2" => Leading \/ Reading(PHSTAT2)
    /\ stage = "phcon1" => \/ \E w \in SUBSET (0 .. 15) : Writing(PHSTAT2, w, ReadPHY(PHCON1))
                           \/ Reading(PHCON1)
    /\ stage = "config" => Writing(PHCON1, HalfDuplex, Finish) \/ Settled
    /\ stage \in Underway => Settled

LEMMA RestStep ==
    ASSUME NEW S, NEW s \in Seq(S), NEW n \in 1 .. Len(s)
    PROVE  Rest(s, n) # <<>> /\ Head(Rest(s, n)) = s[n] /\ Tail(Rest(s, n)) = Rest(s, n + 1)
<1>1. Len(s) \in Nat
  OBVIOUS
<1>2. Rest(s, n) \in Seq(S) /\ Len(Rest(s, n)) = Len(s) - n + 1
  BY <1>1 DEF Rest
<1>3. \A i \in 1 .. Len(Rest(s, n)) : Rest(s, n)[i] = s[n + i - 1]
  BY <1>1, <1>2 DEF Rest
<1>4. Rest(s, n) # <<>> /\ Head(Rest(s, n)) = s[n]
  BY <1>1, <1>2, <1>3
<1>5. Tail(Rest(s, n)) = Rest(s, n + 1)
  <2>1. /\ Tail(Rest(s, n)) \in Seq(S) /\ Len(Tail(Rest(s, n))) = Len(s) - n
        /\ \A i \in 1 .. Len(s) - n : Tail(Rest(s, n))[i] = Rest(s, n)[i + 1]
    BY <1>1, <1>2, <1>4
  <2>2. /\ Rest(s, n + 1) \in Seq(S) /\ Len(Rest(s, n + 1)) = Len(s) - n
        /\ \A i \in 1 .. Len(s) - n : Rest(s, n + 1)[i] = s[n + i]
    BY <1>1 DEF Rest
  <2>3. \A i \in 1 .. Len(s) - n : Tail(Rest(s, n))[i] = Rest(s, n + 1)[i]
    <3> TAKE i \in 1 .. Len(s) - n
    <3>1. i + 1 \in 1 .. Len(Rest(s, n)) /\ n + (i + 1) - 1 = n + i
      BY <1>1, <1>2
    <3>2. Rest(s, n)[i + 1] = s[n + (i + 1) - 1]
      BY <1>3, <3>1
    <3> QED
      BY <2>1, <2>2, <3>1, <3>2
  <2> DEFINE x == Tail(Rest(s, n))
             y == Rest(s, n + 1)
  <2>4. x \in Seq(S) /\ y \in Seq(S) /\ Len(x) = Len(y)
    BY <2>1, <2>2
  <2>5. \A i \in 1 .. Len(x) : x[i] = y[i]
    BY <2>1, <2>3
  <2> HIDE DEF x, y
  <2>6. x = y
    BY <2>4, <2>5
  <2> QED
    BY <2>6 DEF x, y
<1> QED
  BY <1>4, <1>5

LEMMA RestEnds ==
    ASSUME NEW S, NEW s \in Seq(S), NEW t \in Seq(S)
    PROVE  /\ Rest(s, 1) = s /\ Rest(s, Len(s) + 1) = <<>>
           /\ Rest(s \o t, Len(s) + 1) = t
<1>1. Rest(s, 1) = s /\ Rest(s, Len(s) + 1) = <<>>
  BY DEF Rest
<1>2. Rest(s \o t, Len(s) + 1) = t
  <2> DEFINE w == s \o t
  <2>1. /\ w \in Seq(S) /\ Len(w) = Len(s) + Len(t) /\ Len(s) \in Nat /\ Len(t) \in Nat
        /\ \A i \in 1 .. Len(t) : w[Len(s) + i] = t[i]
    BY Concatenated
  <2> HIDE DEF w
  <2>2. /\ Rest(w, Len(s) + 1) \in Seq(S) /\ Len(Rest(w, Len(s) + 1)) = Len(t)
        /\ \A i \in 1 .. Len(t) : Rest(w, Len(s) + 1)[i] = w[Len(s) + i]
    BY <2>1 DEF Rest
  <2>3. Rest(w, Len(s) + 1) = t
    BY <2>1, <2>2
  <2> QED
    BY <2>3 DEF w
<1> QED
  BY <1>1, <1>2

\* The two bytes of a 16-bit word give it back.
LEMMA WordOfBytes ==
    ASSUME NEW w \in SUBSET (0 .. 15)
    PROVE  Word(<<LowByte(w), HighByte(w)>>) = w
<1>1. \A b \in w : b \in LowByte(w) \/ (b - 8 \in HighByte(w) /\ (b - 8) + 8 = b)
  BY DEF LowByte, HighByte, Bit
<1>2. LowByte(w) \subseteq w /\ \A b \in HighByte(w) : b + 8 \in w
  BY DEF LowByte, HighByte
<1>3. w \subseteq LowByte(w) \cup {b + 8 : b \in HighByte(w)}
  BY <1>1
<1>4. LowByte(w) \cup {b + 8 : b \in HighByte(w)} \subseteq w
  BY <1>2
<1> QED
  BY <1>3, <1>4 DEF Word

LEMMA PhyCalls ==
    ASSUME NEW a \in SUBSET Bit, NEW w
    PROVE  /\ ReadPHY(a) \in Seq(Call) /\ Len(ReadPHY(a)) = 6
           /\ ReadPHY(a)[1] = Write("MIREGADR", a)
           /\ ReadPHY(a)[2] = Write("MICMD", {MIIRD})
           /\ ReadPHY(a)[3] = UntilClearM("MISTAT", BUSY)
           /\ ReadPHY(a)[4] = Write("MICMD", {})
           /\ ReadPHY(a)[5] = ReadM("MIRDL") /\ ReadPHY(a)[6] = ReadM("MIRDH")
           /\ WritePHY(a, w) \in Seq(Call) /\ Len(WritePHY(a, w)) = 4
           /\ WritePHY(a, w)[1] = Write("MIREGADR", a)
           /\ WritePHY(a, w)[2] = Write("MIWRL", LowByte(w))
           /\ WritePHY(a, w)[3] = Write("MIWRH", HighByte(w))
           /\ WritePHY(a, w)[4] = UntilClearM("MISTAT", BUSY)
<1>1. ReadPHY(a) \in Seq(Call) /\ WritePHY(a, w) \in Seq(Call)
  BY HarmlessPHY, HarmlessCall
<1>2. /\ Len(ReadPHY(a)) = 6
      /\ ReadPHY(a)[1] = Write("MIREGADR", a)
      /\ ReadPHY(a)[2] = Write("MICMD", {MIIRD})
      /\ ReadPHY(a)[3] = UntilClearM("MISTAT", BUSY)
      /\ ReadPHY(a)[4] = Write("MICMD", {})
      /\ ReadPHY(a)[5] = ReadM("MIRDL") /\ ReadPHY(a)[6] = ReadM("MIRDH")
  BY DEF ReadPHY
<1>3. /\ Len(WritePHY(a, w)) = 4
      /\ WritePHY(a, w)[1] = Write("MIREGADR", a)
      /\ WritePHY(a, w)[2] = Write("MIWRL", LowByte(w))
      /\ WritePHY(a, w)[3] = Write("MIWRH", HighByte(w))
      /\ WritePHY(a, w)[4] = UntilClearM("MISTAT", BUSY)
  BY DEF WritePHY
<1> QED
  BY <1>1, <1>2, <1>3

\* The two addresses are different, and bytes.
LEMMA PhyAddresses == PHCON1 \in SUBSET Bit /\ PHSTAT2 \in SUBSET Bit /\ PHCON1 # PHSTAT2
<1>1. PHCON1 = {} /\ PHSTAT2 = {0, 4}
  BY TheBytes DEF PHCON1, PHSTAT2
<1> QED
  BY <1>1 DEF Bit

\* What one access does to the MII registers.
MiiSame == \A r \in MiiRegisters : chip'[r] = chip[r]
LEMMA MiiCalls ==
    ASSUME Inv, Access
    PROVE  /\ Head(todo).reg \notin MiiRegisters =>
                MiiSame /\ todo' \in {todo, Tail(todo)}
           /\ \A r \in MiiRegisters \ {"MISTAT"}, v \in SUBSET Bit :
                Head(todo) = Write(r, v) =>
                    /\ todo' = Tail(todo)
                    /\ chip'[r] = v
                    /\ \A q \in MiiRegisters \ {r, "MISTAT"} : chip'[q] = chip[q]
                    /\ Busy' <=> Busy \/ r = "MIWRH" \/ (r = "MICMD" /\ MIIRD \in v)
           /\ \A r \in MiiRegisters :
                Head(todo) = ReadM(r) =>
                    MiiSame /\ todo' = Tail(todo) /\ read' = <<read[2], chip[r]>>
           /\ Head(todo) = UntilClearM("MISTAT", BUSY) =>
                MiiSame /\ todo' = IF Busy THEN todo ELSE Tail(todo)
<1> DEFINE c == Head(todo)
           v == Sent(c, read)
           g == [chip EXCEPT ![c.reg] = Stored(c.op, @, v)]
<1>1. PICK got \in Returned(chip, c, c.reg) :
          /\ chip' = After(chip, c, c.reg, v) /\ todo' = Remaining(todo, got)
          /\ read' = ReadNext(c, read, got)
  BY AccessIsCall
<1>2. /\ MiiRegisters \subseteq Register /\ c.reg \in Register
      /\ chip \in [Register -> SUBSET Bit] /\ c \in Call
  BY AccessIsCall, NamedAssumption DEF Inv, TypeInv, Call, Named, MiiRegisters
<1>3. chip' = React(g, c.op, c.reg, v)
  BY <1>1 DEF After
<1>4. DOMAIN g = Register /\ \A r \in Register \ {c.reg} : g[r] = chip[r]
  BY <1>2
<1>5. g[c.reg] = Stored(c.op, chip[c.reg], v)
  BY <1>2
<1> HIDE DEF g, v, c
<1>6. \A q \in MiiRegisters \ {"MISTAT"} : chip'[q] = g[q]
  BY <1>2, <1>3, <1>4 DEF React, MiiRegisters
<1>7. ASSUME c.reg \notin MiiRegisters PROVE MiiSame /\ todo' \in {todo, Tail(todo)}
  <2>1. chip'["MISTAT"] = g["MISTAT"]
    BY <1>2, <1>3, <1>4, <1>7 DEF React, MiiRegisters
  <2>2. MiiSame
    BY <1>2, <1>4, <1>6, <1>7, <2>1 DEF MiiSame
  <2> QED
    BY <1>1, <2>2 DEF Remaining
<1>8. ASSUME Reads(c) PROVE MiiSame
  <2>1. g[c.reg] = chip[c.reg]
    BY <1>5, <1>8 DEF Stored, Reads
  <2>2. chip'["MISTAT"] = g["MISTAT"]
    BY <1>2, <1>3, <1>4, <1>8 DEF React, MiiRegisters, Reads
  <2> QED
    BY <1>2, <1>4, <1>6, <2>1, <2>2 DEF MiiSame
<1>9. ASSUME NEW r \in MiiRegisters \ {"MISTAT"}, NEW x \in SUBSET Bit, c = Write(r, x)
      PROVE  /\ todo' = Tail(todo)
             /\ chip'[r] = x
             /\ \A q \in MiiRegisters \ {r, "MISTAT"} : chip'[q] = chip[q]
             /\ Busy' <=> Busy \/ r = "MIWRH" \/ (r = "MICMD" /\ MIIRD \in x)
  <2>1. c.op = "WCR" /\ c.reg = r /\ c.until = "read" /\ v = x
    BY <1>9 DEF Write, v, Sent
  <2>2. todo' = Tail(todo)
    BY <1>1, <2>1 DEF Remaining, Over, c
  <2>3. g[r] = x
    BY <1>5, <2>1 DEF Stored
  <2>4. chip'[r] = x /\ \A q \in MiiRegisters \ {r, "MISTAT"} : chip'[q] = chip[q]
    BY <1>2, <1>4, <1>6, <2>1, <2>3
  <2>5. g["MISTAT"] = chip["MISTAT"] /\ "MISTAT" \in Register
    BY <1>2, <1>4, <2>1 DEF MiiRegisters
  <2>6. CASE r = "MIWRH" \/ (r = "MICMD" /\ MIIRD \in x)
    <3>1. chip'["MISTAT"] = g["MISTAT"] \cup {BUSY}
      BY <1>3, <1>4, <2>1, <2>5, <2>6 DEF React
    <3> QED
      BY <2>2, <2>4, <2>6, <3>1 DEF Busy
  <2>7. CASE ~(r = "MIWRH" \/ (r = "MICMD" /\ MIIRD \in x))
    <3>1. chip' = g
      BY <1>3, <2>1, <2>7 DEF React
    <3> QED
      BY <2>2, <2>4, <2>5, <2>7, <3>1 DEF Busy
  <2> QED
    BY <2>2, <2>4, <2>6, <2>7
<1>10. ASSUME NEW r \in MiiRegisters, c = ReadM(r)
       PROVE  MiiSame /\ todo' = Tail(todo) /\ read' = <<read[2], chip[r]>>
  <2>1. Reads(c) /\ c.op = "RCRM" /\ c.reg = r /\ c.until = "read"
    BY <1>10 DEF ReadM, Reads
  <2>2. got = chip[r]
    BY <1>1, <2>1 DEF Returned
  <2>3. todo' = Tail(todo)
    BY <1>1, <2>1 DEF Remaining, Over, c
  <2>4. read' = <<read[2], chip[r]>>
    BY <1>1, <2>1, <2>2 DEF ReadNext
  <2> QED
    BY <1>8, <2>1, <2>3, <2>4
<1>11. ASSUME c = UntilClearM("MISTAT", BUSY)
       PROVE  MiiSame /\ todo' = IF Busy THEN todo ELSE Tail(todo)
  <2>1. Reads(c) /\ c.op = "RCRM" /\ c.reg = "MISTAT" /\ c.until = "clear" /\ c.byte = {BUSY}
    BY <1>11 DEF UntilClearM, Reads
  <2>2. got = chip["MISTAT"]
    BY <1>1, <2>1 DEF Returned
  <2>3. todo' = IF Busy THEN todo ELSE Tail(todo)
    BY <1>1, <2>1, <2>2 DEF Remaining, Over, Busy, c
  <2> QED
    BY <1>8, <2>1, <2>3
<1> QED
  BY <1>7, <1>9, <1>10, <1>11 DEF c

LEMMA MiiWrite ==
    ASSUME Inv, Access, NEW r \in MiiRegisters \ {"MISTAT"}, NEW v \in SUBSET Bit,
           Head(todo) = Write(r, v)
    PROVE  /\ todo' = Tail(todo)
           /\ chip'[r] = v
           /\ \A q \in MiiRegisters \ {r, "MISTAT"} : chip'[q] = chip[q]
           /\ Busy' <=> Busy \/ r = "MIWRH" \/ (r = "MICMD" /\ MIIRD \in v)
  BY MiiCalls

LEMMA MiiRead ==
    ASSUME Inv, Access, NEW r \in MiiRegisters, Head(todo) = ReadM(r)
    PROVE  MiiSame /\ todo' = Tail(todo) /\ read' = <<read[2], chip[r]>>
  BY MiiCalls

LEMMA MiiWait ==
    ASSUME Inv, Access, Head(todo) = UntilClearM("MISTAT", BUSY)
    PROVE  MiiSame /\ todo' = IF Busy THEN todo ELSE Tail(todo)
  BY MiiCalls

\* A step that leaves the MII registers, the calls, the last bytes read and
\* the PHY alone keeps what is true of them.
LEMMA PhySame ==
    ASSUME PhyInv, MiiSame, UNCHANGED <<todo, stage, on, phy>>,
           read' = read
    PROVE  PhyInv'
<1>1. /\ chip'["MICMD"] = chip["MICMD"] /\ chip'["MIREGADR"] = chip["MIREGADR"]
      /\ chip'["MIWRL"] = chip["MIWRL"] /\ chip'["MIWRH"] = chip["MIWRH"]
      /\ chip'["MIRDL"] = chip["MIRDL"] /\ chip'["MIRDH"] = chip["MIRDH"]
      /\ chip'["MISTAT"] = chip["MISTAT"]
  BY DEF MiiSame, MiiRegisters
<1>2. \A a, n : ReadingAt(a, n) => ReadingAt(a, n)'
  BY <1>1 DEF ReadingAt, Busy, Fetched
<1>3. \A a, w, s, n : WritingAt(a, w, s, n) => WritingAt(a, w, s, n)'
  BY <1>1 DEF WritingAt, Busy, Written
<1>4. (Leading => Leading') /\ (Settled => Settled')
  BY <1>1 DEF Leading, Settled, Idle, Busy
<1>5. LeftOver => LeftOver'
  BY <1>1 DEF LeftOver, Busy
<1>6. /\ \A a : Reading(a) => Reading(a)'
      /\ \A a, w, s : Writing(a, w, s) => Writing(a, w, s)'
  BY <1>2, <1>3 DEF Reading, Writing
<1> QED
  BY <1>4, <1>5, <1>6 DEF PhyInv

\* One access of ReadPHY.
LEMMA ReadingStep ==
    ASSUME Inv, Access, phy' = phy, NEW a \in SUBSET Bit, Reading(a)
    PROVE  Reading(a)'
<1> DEFINE s == ReadPHY(a)
<1>1. PICK n \in 1 .. 7 : ReadingAt(a, n)
  BY DEF Reading
<1>2. /\ s \in Seq(Call) /\ Len(s) = 6
      /\ s[1] = Write("MIREGADR", a) /\ s[2] = Write("MICMD", {MIIRD})
      /\ s[3] = UntilClearM("MISTAT", BUSY) /\ s[4] = Write("MICMD", {})
      /\ s[5] = ReadM("MIRDL") /\ s[6] = ReadM("MIRDH")
  BY PhyCalls
<1> HIDE DEF s
<1>3. Rest(s, 7) = <<>>
  <2>1. Rest(s, Len(s) + 1) = <<>>
    BY <1>2, RestEnds
  <2> QED
    BY <1>2, <2>1
<1>4. todo = Rest(s, n) /\ n # 7
  BY <1>1, <1>3 DEF ReadingAt, Access, s
<1>5. Head(todo) = s[n] /\ Tail(todo) = Rest(s, n + 1)
  <2>1. n \in 1 .. Len(s)
    BY <1>2, <1>4
  <2> QED
    BY <1>2, <1>4, <2>1, RestStep
<1>6. {MIIRD} \in SUBSET Bit /\ {} \in SUBSET Bit /\ MIIRD \in {MIIRD} /\ MIIRD \notin {}
  BY DEF MIIRD, Bit
<1>7. \A m \in 1 .. 7 : ReadingAt(a, m)' => Reading(a)'
  BY DEF Reading
<1>8. {"MIREGADR", "MICMD", "MIRDL", "MIRDH"} \subseteq MiiRegisters \ {"MISTAT"}
      /\ "MISTAT" \in MiiRegisters
  BY DEF MiiRegisters
<1>9. CASE n = 1
  <2>1. Head(todo) = Write("MIREGADR", a) /\ Tail(todo) = Rest(s, 2)
    BY <1>2, <1>5, <1>9
  <2>2. /\ todo' = Rest(s, 2) /\ chip'["MIREGADR"] = a
        /\ chip'["MICMD"] = chip["MICMD"] /\ (Busy' <=> Busy)
    BY <1>6, <1>8, <2>1, MiiWrite
  <2>3. ReadingAt(a, 2)'
    BY <1>1, <1>9, <2>2 DEF ReadingAt, s
  <2> QED
    BY <1>7, <2>3
<1>10. CASE n = 2
  <2>1. Head(todo) = Write("MICMD", {MIIRD}) /\ Tail(todo) = Rest(s, 3)
    BY <1>2, <1>5, <1>10
  <2>2. /\ todo' = Rest(s, 3) /\ chip'["MICMD"] = {MIIRD}
        /\ chip'["MIREGADR"] = chip["MIREGADR"] /\ Busy'
    BY <1>6, <1>8, <2>1, MiiWrite
  <2>3. ReadingAt(a, 3)'
    BY <1>1, <1>10, <2>2 DEF ReadingAt, s
  <2> QED
    BY <1>7, <2>3
<1>11. CASE n = 3
  <2>1. Head(todo) = UntilClearM("MISTAT", BUSY) /\ Tail(todo) = Rest(s, 4)
    BY <1>2, <1>5, <1>11
  <2>2. MiiSame /\ todo' = IF Busy THEN todo ELSE Rest(s, 4)
    BY <1>8, <2>1, MiiWait
  <2>3. /\ chip'["MICMD"] = chip["MICMD"] /\ chip'["MIREGADR"] = chip["MIREGADR"]
        /\ (Busy' <=> Busy) /\ (Fetched(a) => Fetched(a)')
    BY <1>8, <2>2 DEF MiiSame, Busy, Fetched
  <2>4. CASE Busy
    <3>1. ReadingAt(a, 3)'
      BY <1>1, <1>11, <2>2, <2>3, <2>4 DEF ReadingAt, s
    <3> QED
      BY <1>7, <3>1
  <2>5. CASE ~Busy
    <3>1. ReadingAt(a, 4)'
      BY <1>1, <1>11, <2>2, <2>3, <2>5 DEF ReadingAt, s
    <3> QED
      BY <1>7, <3>1
  <2> QED
    BY <2>4, <2>5
<1>12. CASE n = 4
  <2>1. Head(todo) = Write("MICMD", {}) /\ Tail(todo) = Rest(s, 5)
    BY <1>2, <1>5, <1>12
  <2>2. /\ todo' = Rest(s, 5) /\ chip'["MICMD"] = {} /\ (Busy' <=> Busy)
        /\ chip'["MIRDL"] = chip["MIRDL"] /\ chip'["MIRDH"] = chip["MIRDH"]
    BY <1>6, <1>8, <2>1, MiiWrite
  <2>3. ReadingAt(a, 5)'
    BY <1>1, <1>12, <2>2 DEF ReadingAt, Fetched, s
  <2> QED
    BY <1>7, <2>3
<1>13. CASE n = 5
  <2>1. Head(todo) = ReadM("MIRDL") /\ Tail(todo) = Rest(s, 6)
    BY <1>2, <1>5, <1>13
  <2>2. /\ todo' = Rest(s, 6) /\ MiiSame /\ read' = <<read[2], chip["MIRDL"]>>
    BY <1>8, <2>1, MiiRead
  <2>3. /\ chip'["MICMD"] = chip["MICMD"] /\ chip'["MIRDH"] = chip["MIRDH"] /\ (Busy' <=> Busy)
        /\ read'[2] = chip["MIRDL"]
    BY <1>8, <2>2 DEF MiiSame, Busy
  <2>4. ReadingAt(a, 6)'
    BY <1>1, <1>13, <2>2, <2>3 DEF ReadingAt, Fetched, s
  <2> QED
    BY <1>7, <2>4
<1>14. CASE n = 6
  <2>1. Head(todo) = ReadM("MIRDH") /\ Tail(todo) = Rest(s, 7)
    BY <1>2, <1>5, <1>14
  <2>2. /\ todo' = Rest(s, 7) /\ MiiSame /\ read' = <<read[2], chip["MIRDH"]>>
    BY <1>8, <2>1, MiiRead
  <2>3. chip'["MICMD"] = chip["MICMD"] /\ (Busy' <=> Busy)
    BY <1>8, <2>2 DEF MiiSame, Busy
  <2>4. ReadingAt(a, 7)'
    BY <1>1, <1>14, <2>2, <2>3 DEF ReadingAt, s
  <2> QED
    BY <1>7, <2>4
<1> QED
  BY <1>1, <1>4, <1>9, <1>10, <1>11, <1>12, <1>13, <1>14

\* One access of WritePHY before other calls: it goes on, or it is over.
LEMMA WritingStep ==
    ASSUME Inv, Access, phy' = phy, NEW a \in SUBSET Bit, NEW w, NEW s \in Seq(Call),
           Writing(a, w, s)
    PROVE  Writing(a, w, s)' \/ (todo' = s /\ Idle' /\ Written(a, w)')
<1> DEFINE p == WritePHY(a, w)
           t == p \o s
<1>1. PICK n \in 1 .. 4 : WritingAt(a, w, s, n)
  BY DEF Writing
<1>2. /\ p \in Seq(Call) /\ Len(p) = 4
      /\ p[1] = Write("MIREGADR", a) /\ p[2] = Write("MIWRL", LowByte(w))
      /\ p[3] = Write("MIWRH", HighByte(w)) /\ p[4] = UntilClearM("MISTAT", BUSY)
  BY PhyCalls
<1> HIDE DEF p
<1>3. /\ t \in Seq(Call) /\ Len(t) \in Nat /\ Len(t) >= 4
      /\ t[1] = Write("MIREGADR", a) /\ t[2] = Write("MIWRL", LowByte(w))
      /\ t[3] = Write("MIWRH", HighByte(w)) /\ t[4] = UntilClearM("MISTAT", BUSY)
      /\ Rest(t, 5) = s
  <2>1. /\ t \in Seq(Call) /\ Len(t) = 4 + Len(s) /\ Len(s) \in Nat
        /\ \A i \in 1 .. 4 : t[i] = p[i]
    <3>1. /\ t \in Seq(Call) /\ Len(t) = Len(p) + Len(s) /\ Len(s) \in Nat
          /\ \A i \in 1 .. Len(p) : t[i] = p[i]
      <4>1. p \in Seq(Call) /\ s \in Seq(Call)
        BY <1>2
      <4> HIDE DEF t
      <4> QED
        BY <4>1, Concatenated DEF t
    <3> HIDE DEF t
    <3> QED
      BY <1>2, <3>1
  <2>2. Rest(t, Len(p) + 1) = s
    BY <1>2, RestEnds
  <2> HIDE DEF t
  <2> QED
    BY <1>2, <2>1, <2>2
<1> HIDE DEF t
<1>4. todo = Rest(t, n)
  BY <1>1 DEF WritingAt, t, p
<1>5. Head(todo) = t[n] /\ Tail(todo) = Rest(t, n + 1)
  <2>1. n \in 1 .. Len(t)
    BY <1>3
  <2> QED
    BY <1>3, <1>4, <2>1, RestStep
<1>6. LowByte(w) \in SUBSET Bit /\ HighByte(w) \in SUBSET Bit
  BY DEF LowByte, HighByte
<1>7. \A m \in 1 .. 4 : WritingAt(a, w, s, m)' => Writing(a, w, s)'
  BY DEF Writing
<1>8. {"MIREGADR", "MICMD", "MIWRL", "MIWRH"} \subseteq MiiRegisters \ {"MISTAT"}
      /\ "MISTAT" \in MiiRegisters
  BY DEF MiiRegisters
<1>9. CASE n = 1
  <2>1. Head(todo) = Write("MIREGADR", a) /\ Tail(todo) = Rest(t, 2)
    BY <1>3, <1>5, <1>9
  <2>2. /\ todo' = Rest(t, 2) /\ chip'["MIREGADR"] = a
        /\ chip'["MICMD"] = chip["MICMD"] /\ (Busy' <=> Busy)
    BY <1>6, <1>8, <2>1, MiiWrite
  <2>3. WritingAt(a, w, s, 2)'
    BY <1>1, <1>9, <2>2 DEF WritingAt, t, p
  <2> QED
    BY <1>7, <2>3
<1>10. CASE n = 2
  <2>1. Head(todo) = Write("MIWRL", LowByte(w)) /\ Tail(todo) = Rest(t, 3)
    BY <1>3, <1>5, <1>10
  <2>2. /\ todo' = Rest(t, 3) /\ chip'["MIWRL"] = LowByte(w)
        /\ chip'["MICMD"] = chip["MICMD"] /\ chip'["MIREGADR"] = chip["MIREGADR"]
        /\ (Busy' <=> Busy)
    BY <1>6, <1>8, <2>1, MiiWrite
  <2>3. WritingAt(a, w, s, 3)'
    BY <1>1, <1>10, <2>2 DEF WritingAt, t, p
  <2> QED
    BY <1>7, <2>3
<1>11. CASE n = 3
  <2>1. Head(todo) = Write("MIWRH", HighByte(w)) /\ Tail(todo) = Rest(t, 4)
    BY <1>3, <1>5, <1>11
  <2>2. /\ todo' = Rest(t, 4) /\ chip'["MIWRH"] = HighByte(w)
        /\ chip'["MICMD"] = chip["MICMD"] /\ chip'["MIREGADR"] = chip["MIREGADR"]
        /\ chip'["MIWRL"] = chip["MIWRL"] /\ Busy'
    BY <1>6, <1>8, <2>1, MiiWrite
  <2>3. WritingAt(a, w, s, 4)'
    BY <1>1, <1>11, <2>2 DEF WritingAt, t, p
  <2> QED
    BY <1>7, <2>3
<1>12. CASE n = 4
  <2>1. Head(todo) = UntilClearM("MISTAT", BUSY) /\ Tail(todo) = s
    BY <1>3, <1>5, <1>12
  <2>2. MiiSame /\ todo' = IF Busy THEN todo ELSE s
    BY <1>8, <2>1, MiiWait
  <2>3. /\ chip'["MICMD"] = chip["MICMD"] /\ chip'["MIREGADR"] = chip["MIREGADR"]
        /\ chip'["MIWRL"] = chip["MIWRL"] /\ chip'["MIWRH"] = chip["MIWRH"]
        /\ (Busy' <=> Busy) /\ (Written(a, w) => Written(a, w)')
    BY <1>8, <2>2 DEF MiiSame, Busy, Written
  <2>4. CASE Busy
    <3>1. WritingAt(a, w, s, 4)'
      BY <1>1, <1>12, <2>2, <2>3, <2>4 DEF WritingAt, t, p
    <3> QED
      BY <1>7, <3>1
  <2>5. CASE ~Busy
    BY <1>1, <1>12, <2>2, <2>3, <2>5 DEF WritingAt, Idle
  <2> QED
    BY <2>4, <2>5
<1> QED
  BY <1>1, <1>9, <1>10, <1>11, <1>12

LEMMA StartLength ==
    /\ AwaitClock \o Prepare \in Seq(Call) /\ Len(AwaitClock \o Prepare) = 10
    /\ \A i \in 1 .. 10 : (AwaitClock \o Prepare)[i].reg \notin MiiRegisters
<1>1. AwaitClock \o Prepare \in Seq(Tame)
  BY HarmlessStart
<1>2. Len(AwaitClock \o Prepare) = 10
  BY DEF AwaitClock, Prepare, SetRXMemoryArea, WriteWord
<1> DEFINE s == AwaitClock \o Prepare
<1> HIDE DEF s
<1>3. s \in Seq(Call) /\ \A i \in 1 .. 10 : s[i] \in Tame
  <2>1. s \in Seq(Tame) /\ Len(s) = 10
    BY <1>1, <1>2 DEF s
  <2> QED
    <3>1. s \in Seq(Call)
      BY <2>1, TameHarmless, HarmlessCall
    <3>2. \A i \in 1 .. 10 : s[i] \in Tame
      BY <2>1, ElementOf
    <3> QED
      BY <3>1, <3>2
<1> QED
  BY <1>2, <1>3 DEF s, Tame

LEMMA LeadingStep ==
    ASSUME Inv, Access, phy' = phy, Leading PROVE Leading' \/ Reading(PHSTAT2)'
<1> DEFINE s == AwaitClock \o Prepare
           t == ReadPHY(PHSTAT2)
           w == s \o t
<1>1. /\ s \in Seq(Call) /\ Len(s) = 10 /\ t \in Seq(Call)
      /\ \A i \in 1 .. 10 : s[i].reg \notin MiiRegisters
  BY StartLength, PhyCalls, PhyAddresses
<1>2. PICK n \in 1 .. 10 : todo = Rest(w, n) /\ Idle
  <2>1. w = AwaitClock \o Prepare \o ReadPHY(PHSTAT2)
    OBVIOUS
  <2> HIDE DEF w
  <2> QED
    BY <2>1 DEF Leading
<1>3. \A m \in 1 .. 10 : todo' = Rest(w, m) /\ Idle' => Leading'
  <2>1. w = AwaitClock \o Prepare \o ReadPHY(PHSTAT2)
    OBVIOUS
  <2> HIDE DEF w
  <2> QED
    BY <2>1 DEF Leading
<1> HIDE DEF s, t
<1>4. /\ w \in Seq(Call) /\ Len(w) \in Nat /\ Len(w) >= 10
      /\ \A i \in 1 .. 10 : w[i] = s[i]
      /\ Rest(w, 11) = t /\ Rest(t, 1) = t
  <2>1. /\ w \in Seq(Call) /\ Len(w) = Len(s) + Len(t) /\ Len(t) \in Nat
        /\ \A i \in 1 .. Len(s) : w[i] = s[i]
    <3>1. s \in Seq(Call) /\ t \in Seq(Call)
      BY <1>1
    <3> HIDE DEF w
    <3> QED
      BY <3>1, Concatenated DEF w
  <2>2. Rest(w, Len(s) + 1) = t /\ Rest(t, 1) = t
    BY <1>1, RestEnds
  <2> HIDE DEF w
  <2> QED
    BY <1>1, <2>1, <2>2
<1> HIDE DEF w
<1>5. Head(todo) = s[n] /\ Tail(todo) = Rest(w, n + 1)
  <2>1. n \in 1 .. Len(w)
    BY <1>4
  <2> QED
    BY <1>2, <1>4, <2>1, RestStep
<1>6. MiiSame /\ todo' \in {todo, Rest(w, n + 1)}
  BY <1>1, <1>5, MiiCalls
<1>7. Idle'
  BY <1>2, <1>6 DEF Idle, Busy, MiiSame, MiiRegisters
<1>8. CASE todo' = todo
  BY <1>2, <1>3, <1>7, <1>8
<1>9. CASE todo' = Rest(w, n + 1) /\ n < 10
  <2>1. n + 1 \in 1 .. 10
    BY <1>9
  <2> QED
    BY <1>3, <1>7, <1>9, <2>1
<1>10. CASE todo' = Rest(w, n + 1) /\ n = 10
  <2>1. todo' = Rest(t, 1)
    BY <1>4, <1>10
  <2>2. ReadingAt(PHSTAT2, 1)'
    BY <1>7, <2>1 DEF ReadingAt, Idle, t
  <2> QED
    BY <2>2 DEF Reading
<1> QED
  BY <1>6, <1>8, <1>9, <1>10

LEMMA SettledStep ==
    ASSUME Inv, Access, phy' = phy, Settled PROVE Settled'
<1>1. todo \in Seq(Call) /\ todo # <<>> /\ Len(todo) \in Nat
  BY DEF Inv, TypeInv, Program, Access
<1>2. Head(todo) = todo[1] /\ 1 \in 1 .. Len(todo)
  BY <1>1
<1>3. MiiSame /\ todo' \in {todo, Tail(todo)}
  BY <1>2, MiiCalls DEF Settled
<1>4. Idle' /\ phy'[PHCON1] = HalfDuplex
  BY <1>3 DEF Settled, Idle, Busy, MiiSame, MiiRegisters
<1>5. \A i \in 1 .. Len(todo') : \E j \in 1 .. Len(todo) : todo'[i] = todo[j]
  <2>1. CASE todo' = todo
    BY <2>1
  <2>2. CASE todo' = Tail(todo)
    <3>1. Len(todo') = Len(todo) - 1 /\ \A i \in 1 .. Len(todo') : todo'[i] = todo[i + 1]
      BY <1>1, <2>2
    <3>2. \A i \in 1 .. Len(todo') : i + 1 \in 1 .. Len(todo)
      BY <1>1, <3>1
    <3> QED
      BY <3>1, <3>2
  <2> QED
    BY <1>3, <2>1, <2>2
<1> QED
  BY <1>4, <1>5 DEF Settled

LEMMA FinishTame ==
    Finish \in Seq(Call) /\ \A i \in 1 .. Len(Finish) : Finish[i].reg \notin MiiRegisters
<1> DEFINE s == SetMACAddress \o Configure
<1>1. s \in Seq(Tame) /\ s \in Seq(Call)
  BY FinishSetsUp, TameHarmless, HarmlessCall
<1>2. /\ Enable \in Seq(Call)
      /\ \A i \in 1 .. Len(Enable) : Enable[i].reg \notin MiiRegisters
  <2>1. /\ Set("EIE", {7, 6}) \in Call /\ Clear("ECON1", {TXRST, RXRST}) \in Call
        /\ Set("ECON1", {RXEN}) \in Call
    BY FinishSetsUp DEF Tame, Harmless
  <2>2. /\ Set("EIE", {7, 6}).reg = "EIE" /\ Clear("ECON1", {TXRST, RXRST}).reg = "ECON1"
        /\ Set("ECON1", {RXEN}).reg = "ECON1"
    BY DEF Set, Clear
  <2>3. "EIE" \notin MiiRegisters /\ "ECON1" \notin MiiRegisters
    BY DEF MiiRegisters
  <2> QED
    BY <2>1, <2>2, <2>3 DEF Enable
<1>3. Finish = s \o Enable
  BY DEF Finish
<1>4. \A i \in 1 .. Len(s) : s[i].reg \notin MiiRegisters
  <2> HIDE DEF s
  <2> QED
    BY <1>1 DEF Tame
<1> HIDE DEF s
<1> DEFINE w == s \o Enable
<1>5. /\ w \in Seq(Call) /\ Len(w) = Len(s) + Len(Enable)
      /\ Len(s) \in Nat /\ Len(Enable) \in Nat
      /\ \A i \in 1 .. Len(s) : w[i] = s[i]
      /\ \A i \in 1 .. Len(Enable) : w[Len(s) + i] = Enable[i]
  <2>1. s \in Seq(Call) /\ Enable \in Seq(Call)
    BY <1>1, <1>2
  <2> HIDE DEF w
  <2> QED
    BY <2>1, Concatenated DEF w
<1> HIDE DEF w
<1>6. ASSUME NEW i \in 1 .. Len(w) PROVE w[i].reg \notin MiiRegisters
  <2>1. CASE i <= Len(s)
    BY <1>4, <1>5, <2>1
  <2>2. CASE i > Len(s)
    <3>1. i - Len(s) \in 1 .. Len(Enable) /\ Len(s) + (i - Len(s)) = i
      BY <1>5, <2>2
    <3> QED
      BY <1>2, <1>5, <3>1
  <2> QED
    BY <1>5, <2>1, <2>2
<1> QED
  BY <1>3, <1>5, <1>6 DEF w

LEMMA PhyAccess ==
    ASSUME Inv, PhyInv, Access, UNCHANGED own PROVE PhyInv'
<1>1. phy' = phy /\ stage' = stage /\ on' = on /\ stage # "off"
  BY DEF Access, own, PhyInv
<1>2. Leading => Leading' \/ Reading(PHSTAT2)'
  BY <1>1, LeadingStep
<1>3. /\ Reading(PHSTAT2) => Reading(PHSTAT2)'
      /\ Reading(PHCON1) => Reading(PHCON1)'
  BY <1>1, ReadingStep, PhyAddresses
<1>4. \A w : Writing(PHSTAT2, w, ReadPHY(PHCON1))
                => Writing(PHSTAT2, w, ReadPHY(PHCON1))' \/ Reading(PHCON1)'
  <2> SUFFICES ASSUME NEW w, Writing(PHSTAT2, w, ReadPHY(PHCON1))
               PROVE  Writing(PHSTAT2, w, ReadPHY(PHCON1))' \/ Reading(PHCON1)'
    OBVIOUS
  <2>1. ReadPHY(PHCON1) \in Seq(Call)
    BY PhyCalls, PhyAddresses
  <2>2. \/ Writing(PHSTAT2, w, ReadPHY(PHCON1))'
        \/ todo' = ReadPHY(PHCON1) /\ Idle'
    BY <1>1, <2>1, PhyAddresses, WritingStep
  <2>3. ASSUME todo' = ReadPHY(PHCON1), Idle' PROVE Reading(PHCON1)'
    <3>1. todo' = Rest(ReadPHY(PHCON1), 1)
      BY <2>1, <2>3, RestEnds
    <3>2. ReadingAt(PHCON1, 1)'
      BY <2>3, <3>1 DEF ReadingAt, Idle
    <3> QED
      BY <3>2 DEF Reading
  <2> QED
    BY <2>2, <2>3
<1>5. Writing(PHCON1, HalfDuplex, Finish) => Writing(PHCON1, HalfDuplex, Finish)' \/ Settled'
  <2> SUFFICES ASSUME Writing(PHCON1, HalfDuplex, Finish)
               PROVE  Writing(PHCON1, HalfDuplex, Finish)' \/ Settled'
    OBVIOUS
  <2>1. Finish \in Seq(Call) /\ \A i \in 1 .. Len(Finish) : Finish[i].reg \notin MiiRegisters
    BY FinishTame
  <2>2. \/ Writing(PHCON1, HalfDuplex, Finish)'
        \/ todo' = Finish /\ Idle' /\ Written(PHCON1, HalfDuplex)'
    BY <1>1, <2>1, PhyAddresses, WritingStep
  <2> QED
    BY <2>1, <2>2 DEF Settled, Written
<1>6. Settled => Settled'
  BY <1>1, SettledStep
<1> QED
  BY <1>1, <1>2, <1>3, <1>4, <1>5, <1>6 DEF PhyInv

\* No operation the controller may finish gives the PHY anything unintended.
LEMMA NothingUnintended == PhyInv => LeftOver
<1> SUFFICES ASSUME PhyInv, Busy PROVE LeftOver
  BY DEF LeftOver
<1>1. \A a : Reading(a) => MIIRD \in chip["MICMD"]
  BY DEF Reading, ReadingAt
<1>2. \A w : Writing(PHSTAT2, w, ReadPHY(PHCON1)) => chip["MIREGADR"] # PHCON1
  BY PhyAddresses DEF Writing, WritingAt
<1>3. Writing(PHCON1, HalfDuplex, Finish)
         => Word(<<chip["MIWRL"], chip["MIWRH"]>>) = HalfDuplex
  <2>1. HalfDuplex \in SUBSET (0 .. 15)
    BY PhyAssumption DEF HalfDuplex, PowerOn
  <2>2. Word(<<LowByte(HalfDuplex), HighByte(HalfDuplex)>>) = HalfDuplex
    BY <2>1, WordOfBytes
  <2> QED
    BY <2>2 DEF Writing, WritingAt
<1>4. ~Leading /\ ~Settled
  BY DEF Leading, Settled, Idle
<1> QED
  BY <1>1, <1>2, <1>3, <1>4 DEF PhyInv, LeftOver

LEMMA PhyMiiDone ==
    ASSUME Inv, PhyInv, MiiDone PROVE PhyInv'
<1>1. /\ Busy /\ UNCHANGED <<todo, stage, on, read>>
      /\ {"MISTAT", "MIRDL", "MIRDH", "MICMD", "MIREGADR", "MIWRL", "MIWRH"} \subseteq Register
      /\ chip \in [Register -> SUBSET Bit]
  BY NamedAssumption DEF MiiDone, Busy, Inv, TypeInv, Named
<1>2. ~Busy'
  BY <1>1 DEF MiiDone, Busy
<1>3. /\ chip'["MICMD"] = chip["MICMD"] /\ chip'["MIREGADR"] = chip["MIREGADR"]
      /\ chip'["MIWRL"] = chip["MIWRL"] /\ chip'["MIWRH"] = chip["MIWRH"]
  BY <1>1 DEF MiiDone
<1>4. MIIRD \in chip["MICMD"] =>
         /\ phy' = phy
         /\ chip'["MIRDL"] = LowByte(phy[chip["MIREGADR"]])
         /\ chip'["MIRDH"] = HighByte(phy[chip["MIREGADR"]])
  BY <1>1 DEF MiiDone
<1>5. MIIRD \notin chip["MICMD"] =>
         phy' = IF chip["MIREGADR"] = PHCON1
                THEN [phy EXCEPT ![PHCON1] = Word(<<chip["MIWRL"], chip["MIWRH"]>>)]
                ELSE phy
  BY DEF MiiDone
<1>6. LeftOver /\ HalfDuplex \in SUBSET (0 .. 15) /\ phy \in [{PHCON1, PHSTAT2} -> SUBSET (0 .. 15)]
  BY NothingUnintended, PhyAssumption DEF HalfDuplex, PowerOn, PhyInv
<1>7. /\ phy' \in [{PHCON1, PHSTAT2} -> SUBSET (0 .. 15)]
      /\ phy'[PHCON1] \in {PowerOn, HalfDuplex}
  <2>1. phy' = phy \/ phy' = [phy EXCEPT ![PHCON1] = HalfDuplex]
    BY <1>1, <1>4, <1>5, <1>6 DEF LeftOver
  <2> QED
    BY <1>6, <2>1 DEF PhyInv
<1>8. \A a : Reading(a) => Reading(a)'
  <2> SUFFICES ASSUME NEW a, NEW n \in 1 .. 7, ReadingAt(a, n) PROVE Reading(a)'
    BY DEF Reading
  <2>1. n = 3 /\ chip["MICMD"] = {MIIRD} /\ chip["MIREGADR"] = a
    BY <1>1 DEF ReadingAt
  <2>2. Fetched(a)'
    BY <1>4, <2>1 DEF Fetched
  <2>3. ReadingAt(a, 3)'
    BY <1>1, <1>2, <1>3, <2>1, <2>2 DEF ReadingAt
  <2> QED
    BY <2>3 DEF Reading
<1>9. \A a, w, s : w \in SUBSET (0 .. 15) /\ Writing(a, w, s) => Writing(a, w, s)'
  <2> SUFFICES ASSUME NEW a, NEW w \in SUBSET (0 .. 15), NEW s, NEW n \in 1 .. 4,
                      WritingAt(a, w, s, n)
               PROVE  Writing(a, w, s)'
    BY DEF Writing
  <2>1. /\ n = 4 /\ chip["MICMD"] = {} /\ chip["MIREGADR"] = a
        /\ chip["MIWRL"] = LowByte(w) /\ chip["MIWRH"] = HighByte(w)
    BY <1>1 DEF WritingAt
  <2>2. Written(a, w)'
    <3>1. Word(<<chip["MIWRL"], chip["MIWRH"]>>) = w
      BY <2>1, WordOfBytes
    <3> QED
      BY <1>5, <1>6, <2>1, <3>1 DEF Written
  <2>3. WritingAt(a, w, s, 4)'
    BY <1>1, <1>2, <1>3, <2>1, <2>2 DEF WritingAt
  <2> QED
    BY <2>3 DEF Writing
<1>10. ~Leading /\ ~Settled /\ LeftOver'
  BY <1>1, <1>2 DEF Leading, Settled, Idle, LeftOver
<1> QED
  BY <1>1, <1>6, <1>7, <1>8, <1>9, <1>10 DEF PhyInv

LEMMA PhyDriver ==
    ASSUME Inv, HwaddrType, PhyInv, Starting \/ Running PROVE PhyInv'
<1>1. CASE InitConfig
  <2>1. /\ chip'["MICMD"] = {} /\ chip'["MISTAT"] = {}
        /\ todo' = AwaitClock \o Prepare \o ReadPHY(PHSTAT2)
        /\ on' = TRUE /\ stage' = "phstat2" /\ phy' = phy
    BY <1>1, TableAssumption DEF InitConfig, Boot, ResetValues
  <2> DEFINE w == AwaitClock \o Prepare \o ReadPHY(PHSTAT2)
  <2>2. Rest(w, 1) = w
    <3>1. AwaitClock \o Prepare \in Seq(Call) /\ ReadPHY(PHSTAT2) \in Seq(Call)
      BY StartLength, PhyCalls, PhyAddresses
    <3>2. w \in Seq(Call)
      BY <3>1, Concatenated
    <3> HIDE DEF w
    <3> QED
      BY <3>2, RestEnds
  <2> HIDE DEF w
  <2>3. todo' = Rest(w, 1) /\ Idle'
    BY <2>1, <2>2 DEF w, Idle, Busy
  <2>4. Leading'
    BY <2>3 DEF Leading, w
  <2> QED
    BY <2>1, <2>4 DEF PhyInv, Underway
<1>2. ASSUME NEW a \in SUBSET Bit, NEW w, NEW s \in Seq(Call), Idle',
             todo' = WritePHY(a, w) \o s
      PROVE  Writing(a, w, s)'
  <2>1. WritePHY(a, w) \o s \in Seq(Call)
    <3>1. WritePHY(a, w) \in Seq(Call)
      BY PhyCalls
    <3> QED
      BY <3>1, Concatenated
  <2> DEFINE x == WritePHY(a, w) \o s
  <2>2. Rest(x, 1) = x
    <3> HIDE DEF x
    <3>1. x \in Seq(Call)
      BY <2>1 DEF x
    <3> QED
      BY <3>1, RestEnds
  <2>3. WritingAt(a, w, s, 1)'
    BY <1>2, <2>2 DEF WritingAt, Idle
  <2> QED
    BY <2>3 DEF Writing
\* With no call left, a reading is over.
<1>3. ASSUME todo = <<>>, NEW a \in SUBSET Bit
      PROVE  /\ Reading(a) => Idle /\ read = <<LowByte(phy[a]), HighByte(phy[a])>>
             /\ \A w, s : ~(s \in Seq(Call) /\ Writing(a, w, s))
             /\ ~Leading
  <2>1. \A n \in 1 .. 6 : Rest(ReadPHY(a), n) # <<>>
    <3>1. ReadPHY(a) \in Seq(Call) /\ Len(ReadPHY(a)) = 6
      BY PhyCalls
    <3> QED
      BY <3>1, RestStep
  <2>2. ASSUME NEW n \in 1 .. 7, ReadingAt(a, n)
        PROVE  Idle /\ read = <<LowByte(phy[a]), HighByte(phy[a])>>
    <3>1. n = 7
      <4>1. todo = Rest(ReadPHY(a), n)
        BY <2>2 DEF ReadingAt
      <4> QED
        BY <1>3, <2>1, <4>1
    <3> QED
      BY <2>2, <3>1 DEF ReadingAt, Idle
  <2>3. ASSUME NEW w, NEW s \in Seq(Call), Writing(a, w, s) PROVE FALSE
    <3> DEFINE p == WritePHY(a, w)
    <3>1. p \in Seq(Call) /\ Len(p) = 4
      BY PhyCalls
    <3>2. PICK n \in 1 .. 4 : todo = Rest(p \o s, n)
      BY <2>3 DEF Writing, WritingAt
    <3> HIDE DEF p
    <3>3. p \o s \in Seq(Call) /\ Len(p \o s) = Len(p) + Len(s) /\ Len(s) \in Nat
      <4>1. p \in Seq(Call)
        BY <3>1
      <4> QED
        BY <4>1, Concatenated
    <3> DEFINE x == p \o s
    <3>4. x \in Seq(Call) /\ n \in 1 .. Len(x) /\ todo = Rest(x, n)
      BY <3>1, <3>2, <3>3
    <3> HIDE DEF x
    <3> QED
      BY <1>3, <3>4, RestStep
  <2>4. ASSUME Leading PROVE FALSE
    <3> DEFINE p == AwaitClock \o Prepare
               s == ReadPHY(PHSTAT2)
               x == p \o s
    <3>1. p \in Seq(Call) /\ Len(p) = 10 /\ s \in Seq(Call)
      BY StartLength, PhyCalls, PhyAddresses
    <3>2. PICK n \in 1 .. 10 : todo = Rest(AwaitClock \o Prepare \o ReadPHY(PHSTAT2), n)
      BY <2>4 DEF Leading
    <3>3. x = AwaitClock \o Prepare \o ReadPHY(PHSTAT2)
      OBVIOUS
    <3> HIDE DEF p, s
    <3>4. x \in Seq(Call) /\ Len(x) = Len(p) + Len(s) /\ Len(s) \in Nat
      <4>1. p \in Seq(Call) /\ s \in Seq(Call)
        BY <3>1
      <4> QED
        BY <4>1, Concatenated
    <3> HIDE DEF x
    <3>5. n \in 1 .. Len(x) /\ todo = Rest(x, n)
      BY <3>1, <3>2, <3>3, <3>4
    <3> QED
      BY <1>3, <3>4, <3>5, RestStep
  <2> QED
    BY <2>2, <2>3, <2>4 DEF Reading
<1>4. CASE PhyStat2
  <2> DEFINE w == Word(read) \ {DPXSTAT}
  <2>1. /\ todo = <<>> /\ chip' = chip /\ on' = on /\ on /\ phy' = phy
        /\ stage = "phstat2" /\ stage' = "phcon1"
        /\ todo' = WritePHY(PHSTAT2, w) \o ReadPHY(PHCON1)
    BY <1>4 DEF PhyStat2, Begin
  <2>2. Idle'
    <3>1. Reading(PHSTAT2)
      BY <1>3, <2>1, PhyAddresses DEF PhyInv
    <3>2. Idle
      BY <1>3, <2>1, <3>1, PhyAddresses
    <3> QED
      BY <2>1, <3>2 DEF Idle, Busy
  <2>3. PICK x \in SUBSET (0 .. 15) : todo' = WritePHY(PHSTAT2, x) \o ReadPHY(PHCON1)
    <3>1. read[1] \subseteq 0 .. 7 /\ read[2] \subseteq 0 .. 7
      BY DEF Inv, TypeInv, Bit
    <3>2. w \in SUBSET (0 .. 15)
      BY <3>1 DEF Word
    <3> QED
      BY <2>1, <3>2
  <2>4. Writing(PHSTAT2, x, ReadPHY(PHCON1))'
    <3>1. ReadPHY(PHCON1) \in Seq(Call)
      BY PhyCalls, PhyAddresses
    <3> QED
      BY <1>2, <2>2, <2>3, <3>1, PhyAddresses
  <2> QED
    BY <2>1, <2>4 DEF PhyInv, Underway
<1>5. CASE PhyCon1
  <2> DEFINE w == Word(read) \ {PDPXMD}
  <2>1. /\ todo = <<>> /\ chip' = chip /\ on' = on /\ on /\ phy' = phy
        /\ stage = "phcon1" /\ stage' = "config"
        /\ todo' = WritePHY(PHCON1, w) \o Finish
    BY <1>5 DEF PhyCon1, Begin
  <2>2. Reading(PHCON1)
    <3>1. ReadPHY(PHCON1) \in Seq(Call)
      BY PhyCalls, PhyAddresses
    <3> QED
      BY <1>3, <2>1, <3>1, PhyAddresses DEF PhyInv
  <2>3. Idle /\ read = <<LowByte(phy[PHCON1]), HighByte(phy[PHCON1])>>
    BY <1>3, <2>1, <2>2, PhyAddresses
  <2>4. w = HalfDuplex
    <3>1. Word(read) = phy[PHCON1]
      <4>1. phy[PHCON1] \in SUBSET (0 .. 15)
        BY DEF PhyInv
      <4> QED
        BY <2>3, <4>1, WordOfBytes
    <3> QED
      BY <3>1 DEF PhyInv, HalfDuplex
  <2>5. Idle'
    BY <2>1, <2>3 DEF Idle, Busy
  <2> HIDE DEF w
  <2>6. Writing(PHCON1, HalfDuplex, Finish)'
    BY <1>2, <2>1, <2>4, <2>5, FinishTame, PhyAddresses
  <2> QED
    BY <2>1, <2>6 DEF PhyInv, Underway
<1>6. CASE LwipInit \/ GetMACAddress \/ Running
  <2>1. PICK calls \in Seq(Tame) : Begin(calls)
    BY <1>6, TameDriver
  <2>2. /\ phy' = phy /\ stage \in Underway \cup {"config"} /\ stage' \in Underway
        /\ todo = <<>> /\ todo' = calls /\ chip' = chip /\ on' = on /\ on
    BY <1>6, <2>1, TameDriver DEF Begin
  <2>3. Settled
    <3>1. Finish \in Seq(Call)
      BY FinishTame
    <3> QED
      BY <1>3, <2>2, <3>1, PhyAddresses DEF PhyInv
  <2>4. \A i \in 1 .. Len(calls) : calls[i].reg \notin MiiRegisters
    BY DEF Tame
  <2>5. Settled'
    BY <2>2, <2>3, <2>4 DEF Settled, Idle, Busy
  <2> QED
    BY <2>2, <2>5 DEF PhyInv, Underway
<1> QED
  BY <1>1, <1>4, <1>5, <1>6 DEF Starting

LEMMA PhyStep == Inv /\ HwaddrType /\ PhyInv /\ [Next]_vars => PhyInv'
<1> SUFFICES ASSUME Inv, HwaddrType, PhyInv, [Next]_vars PROVE PhyInv'
  OBVIOUS
<1>1. CASE Starting \/ Running
  BY <1>1, PhyDriver
<1>2. CASE Transaction
  <2>1. CASE Access
    BY <1>2, <2>1, PhyAccess DEF Transaction
  <2>2. CASE SwitchRead \/ SwitchWrite
    <3>1. chip' = chip /\ UNCHANGED <<todo, stage, on, phy>> /\ read' = read
      BY <1>2, <2>2 DEF Transaction, SwitchRead, SwitchWrite, Inv, Switching, TypeInv, own
    <3> QED
      BY <3>1, PhySame DEF MiiSame
  <2> QED
    BY <1>2, <2>1, <2>2 DEF Transaction
<1>3. CASE ClockReady \/ TxDone \/ PacketArrives
  <2>1. UNCHANGED <<todo, stage, on, phy>> /\ read' = read
    BY <1>3 DEF ClockReady, TxDone, PacketArrives, own
  <2>2. chip \in [Register -> SUBSET Bit] /\ MiiRegisters \subseteq Register
    BY NamedAssumption DEF Inv, TypeInv, Named, MiiRegisters
  <2>3. MiiRegisters \cap {"ESTAT", "ECON1", "EIR", "EPKTCNT"} = {}
    BY DEF MiiRegisters
  <2>4. MiiSame
    BY <1>3, <2>2, <2>3 DEF MiiSame, ClockReady, TxDone, PacketArrives
  <2> QED
    BY <2>1, <2>4, PhySame
<1>4. CASE MiiDone
  BY <1>4, PhyMiiDone
<1>5. CASE ProcessorReset
  <2>1. /\ chip' = chip /\ phy' = phy /\ stage' = "off" /\ on' = FALSE
    BY <1>5 DEF ProcessorReset, Restart
  <2>2. LeftOver'
    BY <2>1, NothingUnintended DEF LeftOver, Busy
  <2> QED
    BY <2>1, <2>2 DEF PhyInv, Underway
<1>6. CASE UNCHANGED vars
  BY <1>6, PhySame DEF vars, bankVars, own, MiiSame
<1> QED
  BY <1>1, <1>2, <1>3, <1>4, <1>5, <1>6 DEF Next

\* When InitConfig is over, the PHY's control register is what it was at power
\* on with the duplex bit clear, however long the controller took over each
\* operation and wherever an earlier initialisation was cut off.
THEOREM PhySetUp == Spec => []PhyAsWritten
<1>1. Init => PhyInv
  <2> SUFFICES ASSUME Init PROVE PhyInv
    OBVIOUS
  <2>1. ~Busy /\ stage = "off" /\ on = FALSE /\ phy = PhyPowerOn
    BY NamedAssumption DEF Init, BanksInit, ResetValues, Busy, Named
  <2> QED
    BY <2>1, PhyAssumption DEF PhyInv, LeftOver, PowerOn, Underway
<1>2. Init => Inv /\ HwaddrType
  BY BanksInitial DEF Init, HwaddrType
<1>3. Inv /\ HwaddrType /\ PhyInv /\ [Next]_vars => (Inv /\ HwaddrType /\ PhyInv)'
  BY ControllerStep, BanksStep, HwaddrStep, PhyStep
<1>4. PhyInv => PhyAsWritten
  BY DEF PhyInv, PhyAsWritten, Settled, HalfDuplex, PowerOn
<1> QED
  BY <1>1, <1>2, <1>3, <1>4, PTL DEF Spec
=============================================================================

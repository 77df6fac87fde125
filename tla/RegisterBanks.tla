---------------------------- MODULE RegisterBanks ----------------------------
(***************************************************************************)
(* How the driver reaches the controller's registers.  The controller has  *)
(* four banks and ECON1.BSEL selects one; the driver keeps the number of   *)
(* the bank it believes selected in activeBank.  A call on a register of   *)
(* another bank first reads ECON1 and writes it back with the new bank,    *)
(* two SPI transactions between which the controller goes on working; then *)
(* the access itself goes to whatever register answers at its address in   *)
(* the bank that is really selected.                                       *)
(*                                                                         *)
(* The processor can be reset at any point.  The controller is not: it     *)
(* keeps its bank, its registers and what it was doing.                    *)
(***************************************************************************)
EXTENDS RegisterCalls

VARIABLES
    \* the controller
    chip,           \* register -> its contents, ECON1 without BSEL
    bsel,           \* ECON1.BSEL
    \* the driver
    on,             \* Init has reset the controller
    activeBank,     \* ENC28J60::activeBank
    todo,           \* calls to make, the first one under way
    step,           \* "call", or "switch": between the RCR and WCR of ECON1
    econ1,          \* local econ1 of SwitchBank
    read            \* what the last two reads returned

bankVars == <<chip, bsel, on, activeBank, todo, step, econ1, read>>

F == INSTANCE RegisterFile WITH file <- chip

ResetValues == [r \in Register |-> {}]

BanksInit ==
    /\ chip = ResetValues
    /\ bsel = 0
    /\ on = FALSE
    /\ activeBank = 0
    /\ todo = <<>>
    /\ step = "call"
    /\ econ1 = {}
    /\ read = <<{}, {}>>

\* Fault: the controller is not reset with the processor.
BootWithoutReset(calls) ==
    /\ ~on
    /\ on' = TRUE
    /\ activeBank' = 0
    /\ todo' = calls
    /\ UNCHANGED <<chip, bsel, step, econ1, read>>

\* ENC28J60::Init: activeBank = 0, then the soft reset, which selects bank 0
\* in the controller and does not look at activeBank.
Boot(calls) ==
    /\ ~on
    /\ on' = TRUE
    /\ activeBank' = 0
    /\ chip' = ResetValues
    /\ bsel' = 0
    /\ todo' = calls
    /\ UNCHANGED <<step, econ1, read>>

\* The driver goes on to another series of calls.
Begin(calls) ==
    /\ on
    /\ todo = <<>>
    /\ todo' = calls
    /\ UNCHANGED <<chip, bsel, on, activeBank, step, econ1, read>>

\* ReadRegister, WriteRegister and the others: is the bank another one?
MustSwitch == BankOf(Head(todo).reg) \notin {activeBank, ANY_BANK}

\* SwitchBank: RCR(ENC_ECON1)
SwitchRead ==
    /\ on /\ todo # <<>> /\ step = "call"
    /\ MustSwitch
    /\ econ1' = chip["ECON1"]
    /\ step' = "switch"
    /\ UNCHANGED <<chip, bsel, on, activeBank, todo, read>>

\* Fault: ECON1 is written with the bank alone.
SwitchWriteBankOnly ==
    /\ on /\ step = "switch"
    /\ chip' = [chip EXCEPT !["ECON1"] = {}]
    /\ bsel' = BankOf(Head(todo).reg)
    /\ activeBank' = BankOf(Head(todo).reg)
    /\ step' = "call"
    /\ UNCHANGED <<on, todo, econ1, read>>

\* SwitchBank: WCR(ENC_ECON1, econ1) with the flags read before.
SwitchWrite ==
    /\ on /\ step = "switch"
    /\ chip' = [chip EXCEPT !["ECON1"] = econ1]
    /\ bsel' = BankOf(Head(todo).reg)
    /\ activeBank' = BankOf(Head(todo).reg)
    /\ step' = "call"
    /\ UNCHANGED <<on, todo, econ1, read>>

\* The registers that answer at address a: one, or none.
Answers(a) == {r \in Register : AddrOf(r) = a /\ BankOf(r) \in {bsel, ANY_BANK}}

\* RCR, RCRM, WCR, BFS or BFC.
Access ==
    /\ on /\ todo # <<>> /\ step = "call"
    /\ ~MustSwitch
    /\ LET c == Head(todo)
           reached == Answers(AddrOf(c.reg))
           r == CHOOSE x \in reached : TRUE
       IN  \E got \in IF reached = {} THEN DummyBytes ELSE Returned(chip, c, r) :
               /\ chip' = IF reached = {} THEN chip
                          ELSE After(chip, c, r, Sent(c, read))
               /\ read' = ReadNext(c, read, got)
               /\ todo' = Remaining(todo, got)
    /\ UNCHANGED <<bsel, on, activeBank, step, econ1>>

Chip ==
    /\ ByItself(chip, chip')
    /\ UNCHANGED <<bsel, on, activeBank, todo, step, econ1, read>>

\* The processor is reset: .bss is cleared, the controller goes on.
Restart ==
    /\ on
    /\ on' = FALSE
    /\ activeBank' = 0
    /\ todo' = <<>>
    /\ step' = "call"
    /\ UNCHANGED <<chip, bsel, econ1, read>>

BanksNext ==
    \/ \E calls \in Program : Boot(calls) \/ Begin(calls)
    \/ SwitchRead \/ SwitchWrite \/ Access \/ Chip \/ Restart
BanksSpec == BanksInit /\ [][BanksNext]_bankVars
-----------------------------------------------------------------------------
\* Every access reaches the register it was made for, whatever banks were
\* used before and wherever the processor was reset.
AccessReachesRegister ==
    on /\ todo # <<>> /\ step = "call" /\ ~MustSwitch
       => Answers(AddrOf(Head(todo).reg)) = {Head(todo).reg}

\* A transmission is started by Send's SET_REG_BITS and by nothing else:
\* SwitchBank, which writes back flags it read a moment ago, never starts one
\* again that the controller has finished in between.
StartsTransmission == TXRTS \in chip'["ECON1"] /\ TXRTS \notin chip["ECON1"]
TransmitsOnce ==
    [][StartsTransmission => (on /\ step = "call" /\ Transmits(Head(todo)))]_bankVars

\* The banked, cached access implements the plain register file, reads,
\* waits and restarts included.
ImplementsFile == F!FileSpec
=============================================================================

---------------------------- MODULE RegisterFile ----------------------------
(***************************************************************************)
(* What the register macros of enc28j60.cpp promise: "the caller doesn't   *)
(* have to deal with" banks (enc28j60.cpp:10).  Every call acts on the     *)
(* register it names, in one step, and nothing but calls and the           *)
(* controller itself changes a register.                                   *)
(***************************************************************************)
EXTENDS RegisterCalls

VARIABLES
    file,           \* register -> its contents
    todo,           \* calls the driver will make
    read            \* what its last two reads returned

fileVars == <<file, todo, read>>

FileInit ==
    /\ file = [r \in Register |-> {}]
    /\ todo = <<>>
    /\ read = <<{}, {}>>

\* The processor starts and resets the controller.
FileReset ==
    /\ todo = <<>>
    /\ file' = [r \in Register |-> {}]
    /\ todo' \in Program
    /\ read' = read

FileBegin ==
    /\ todo = <<>>
    /\ todo' \in Program
    /\ UNCHANGED <<file, read>>

FileCall ==
    /\ todo # <<>>
    /\ LET c == Head(todo)
       IN  \E got \in Returned(file, c, c.reg) :
               /\ file' = After(file, c, c.reg, Sent(c, read))
               /\ read' = ReadNext(c, read, got)
               /\ todo' = Remaining(todo, got)

FileChip ==
    /\ ByItself(file, file')
    /\ UNCHANGED <<todo, read>>

\* The processor is reset: its calls are forgotten, the registers stay.
FileRestart ==
    /\ todo' = <<>>
    /\ UNCHANGED <<file, read>>

FileNext == FileReset \/ FileBegin \/ FileCall \/ FileChip \/ FileRestart
FileSpec == FileInit /\ [][FileNext]_fileVars
=============================================================================

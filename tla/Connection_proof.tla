-------------------------- MODULE Connection_proof --------------------------
(***************************************************************************)
(* Proofs about Connection, for rectangles and excess data of any size.    *)
(***************************************************************************)
EXTENDS Connection, TLAPS

(* Between two callbacks a live object has its control block and all its   *)
(* callbacks, and a deleted one has none; inside one, the object can only  *)
(* be gone because a response could not be written.                        *)
Ownership ==
    /\ pc = "idle" /\ obj = "live" => pcb = "open" /\ registered = Callbacks
    /\ pc = "idle" /\ obj # "live" => registered = {}
    /\ pc = "parse" /\ obj = "live" => pcb = "open" /\ registered = Callbacks
    /\ pc = "parse" /\ obj # "live" => "write" \in failed
    /\ pc = "error" => /\ obj = "live" /\ pcb = "freed"
                       /\ "connection" \in failed

IInv ==
    /\ TypeOK
    /\ Ownership
    /\ UndefinedOnlyAfterFailure
    /\ ClosesItsConnection

LEMMA InitIInv == Init => IInv
  <1>1. 0 \in 0 .. Need /\ 0 \in 0 .. 2 + Need + MaxExtra
    BY NeedAssumption, MaxExtraAssumption
  <1> QED BY <1>1 DEF Init, IInv, TypeOK, Ownership, UndefinedOnlyAfterFailure,
                      ClosesItsConnection, Callbacks

\* delete this, in a callback or at its end.
LEMMA DeleteStep ==
  ASSUME IInv,
         NEW failures, failures \in {failed, failed \cup {"write"}},
         pc = "parse" => failures = failed \cup {"write"},
         NEW back, back \in {"idle", "parse"},
         pc = "error" => back = "idle",
         pc # "error" => back = pc,
         obj = "live", pc \in {"idle", "parse", "error"},
         Delete(failures, back),
         UNCHANGED <<handlingUrl, left>>,
         parser' \in {"Connected", "ParsingRequest", "ParsingHeader", "Body"},
         got' \in 0 .. Need,
         items' \in 0 .. 2 + Need + MaxExtra
  PROVE  IInv'
  <1>1. failures \subseteq {"malloc", "write", "close", "connection"}
    BY DEF IInv, TypeOK
  <1>2. /\ obj' = "deleted" /\ registered' = {}
        /\ UNCHANGED <<unacked, state, handlingUrl, left>>
    BY DEF Delete, Unregistered
  <1>3. CASE pcb = "open"
    <2>1. /\ pc' = back
          /\ \/ pcb' = "closing" /\ failed' = failures
             \/ pcb' = "open" /\ failed' = failures \cup {"close"}
      BY <1>3 DEF Delete, TcpClose
    <2>2. pc # "error"
      BY <1>3 DEF IInv, Ownership
    <2> QED BY <1>1, <1>2, <2>1, <2>2
            DEF IInv, TypeOK, Ownership, UndefinedOnlyAfterFailure,
                ClosesItsConnection, Callbacks
  <1>4. CASE pcb # "open"
    <2>1. pc' = "undefined" /\ failed' = failures /\ pcb' = pcb
      BY <1>4 DEF Delete, Undefined
    <2>2. pc = "error" /\ "connection" \in failed
      BY <1>4 DEF IInv, Ownership
    <2> QED BY <1>1, <1>2, <2>1, <2>2
            DEF IInv, TypeOK, Ownership, UndefinedOnlyAfterFailure,
                ClosesItsConnection, Callbacks
  <1> QED BY <1>3, <1>4

\* sendData inside onReceive, which goes on after it.
LEMMA RespondStep ==
  ASSUME IInv, pc = "parse", obj = "live", Respond,
         UNCHANGED <<handlingUrl, left>>,
         parser' \in {"Connected", "ParsingRequest", "ParsingHeader", "Body"},
         got' \in 0 .. Need,
         items' \in 0 .. 2 + Need + MaxExtra
  PROVE  IInv'
  <1>1. CASE Delete(failed \cup {"write"}, pc)
    BY <1>1, DeleteStep
  <1>2. CASE /\ unacked' = TRUE
             /\ state' = "SendingData"
             /\ UNCHANGED <<pcb, registered, obj, pc, failed>>
    BY <1>2 DEF IInv, TypeOK, Ownership, UndefinedOnlyAfterFailure,
                ClosesItsConnection, Callbacks
  <1> QED BY <1>1, <1>2 DEF Respond

\* A step of onReceive that leaves lwIP and the object's memory alone.
LEMMA QuietStep ==
  ASSUME IInv, pc = "parse", obj = "live", NoResponse,
         handlingUrl' \in {"PutRect", "Other"},
         left' = left,
         parser' \in {"Connected", "ParsingRequest", "ParsingHeader", "Body"},
         got' \in 0 .. Need,
         items' \in 0 .. 2 + Need + MaxExtra
  PROVE  IInv'
  BY DEF IInv, TypeOK, Ownership, UndefinedOnlyAfterFailure,
         ClosesItsConnection, Callbacks, NoResponse, lwip

LEMMA CallbackStep == IInv /\ Callback => IInv'
  <1> SUFFICES ASSUME IInv, Callback PROVE IInv'
    OBVIOUS
  <1>1. items > 0 => items - 1 \in 0 .. 2 + Need + MaxExtra
    BY NeedAssumption, MaxExtraAssumption DEF IInv, TypeOK
  <1>2. 0 \in 0 .. 2 + Need + MaxExtra
    BY NeedAssumption, MaxExtraAssumption
  <1>3. CASE ParseRequest
    BY <1>1, <1>3, QuietStep DEF ParseRequest, IInv, TypeOK
  <1>4. CASE HeaderDone
    BY <1>1, <1>4, QuietStep, RespondStep DEF HeaderDone, IInv, TypeOK
  <1>5. CASE Body
    <2>1. Taken \in 0 .. Need
      BY NeedAssumption, MaxExtraAssumption DEF IInv, TypeOK, Taken
    <2>2. got' \in 0 .. Need
      BY <1>5, <2>1 DEF Body, IInv, TypeOK
    <2> QED BY <1>2, <1>5, <2>2, QuietStep, RespondStep DEF Body, IInv, TypeOK
  <1>6. CASE Received
    BY <1>6 DEF Received, IInv, TypeOK, Ownership, UndefinedOnlyAfterFailure,
                ClosesItsConnection, Callbacks, lwip, object
  <1>7. CASE UseAfterDelete
    BY <1>7 DEF UseAfterDelete, Undefined, IInv, TypeOK, Ownership,
                UndefinedOnlyAfterFailure, ClosesItsConnection, lwip, object
  <1>8. CASE Error
    <2>1. pc = "error" /\ obj = "live"
      BY <1>8 DEF Error, IInv, Ownership
    <2> QED BY <1>8, <2>1, DeleteStep DEF Error, IInv, TypeOK
  <1> QED BY <1>3, <1>4, <1>5, <1>6, <1>7, <1>8 DEF Callback

LEMMA IdleStep ==
  ASSUME IInv,
         Accept \/ AcceptNoMemory \/ Receive \/ Sent \/ RemoteClose \/ Abort \/ Closed
  PROVE  IInv'
  <1> USE DEF IInv, TypeOK, Ownership, UndefinedOnlyAfterFailure,
              ClosesItsConnection, Callbacks, lwip, object
  <1>1. CASE Accept
    <2>1. 0 \in 0 .. Need /\ 2 + Need + MaxExtra \in 0 .. 2 + Need + MaxExtra
      BY NeedAssumption, MaxExtraAssumption
    <2> QED BY <1>1, <2>1 DEF Accept
  <1>2. CASE AcceptNoMemory
    BY <1>2 DEF AcceptNoMemory, Undefined
  <1>3. CASE Receive
    <2>1. items' \in 0 .. 2 + Need + MaxExtra /\ left' \in 0 .. 2 + Need + MaxExtra
      BY <1>3, NeedAssumption, MaxExtraAssumption DEF Receive
    <2> QED BY <1>3, <2>1 DEF Receive
  <1>4. CASE Sent
    BY <1>4, DeleteStep DEF Sent, OnSent
  <1>5. CASE RemoteClose
    BY <1>5, DeleteStep DEF RemoteClose
  <1>6. CASE Abort
    BY <1>6 DEF Abort
  <1>7. CASE Closed
    BY <1>7 DEF Closed
  <1> QED BY <1>1, <1>2, <1>3, <1>4, <1>5, <1>6, <1>7

LEMMA Invariance == Spec => []IInv
  <1>1. IInv /\ [Next]_vars => IInv'
    <2>1. IInv /\ UNCHANGED vars => IInv'
      BY DEF IInv, TypeOK, Ownership, UndefinedOnlyAfterFailure,
             ClosesItsConnection, vars, lwip, object
    <2> QED BY <2>1, CallbackStep, IdleStep DEF Next
  <1> QED BY <1>1, InitIInv, PTL DEF Spec

(* lwIP calls back only objects that are there: the destructor             *)
(* (TCPConnection.cpp:14-22) takes the callbacks back in time on every     *)
(* path that deletes the object.                                           *)
THEOREM CallbacksNotDangling == Spec => []NoDanglingCallback
  <1>1. IInv => NoDanglingCallback
    BY DEF IInv, Ownership, NoDanglingCallback
  <1> QED BY <1>1, Invariance, PTL

(* "delete this" in onSent, onRemoteClose, onBody and onHeaderDone is safe *)
(* unless an allocation, a write or the connection itself failed.          *)
THEOREM SafeUnlessFailure == Spec => []UndefinedOnlyAfterFailure
  <1>1. IInv => UndefinedOnlyAfterFailure
    BY DEF IInv
  <1> QED BY <1>1, Invariance, PTL

(* A deleted object has called tcp_close (TCPConnection.cpp:21), so that   *)
(* its control block is not held for ever unless that call failed.         *)
THEOREM ConnectionsClosed == Spec => []ClosesItsConnection
  <1>1. IInv => ClosesItsConnection
    BY DEF IInv
  <1> QED BY <1>1, Invariance, PTL

(* Type correctness of a connection object and its control block, for any  *)
(* rectangle and any number of surplus bytes (TCPConnection.hpp:20-60).    *)
THEOREM ConnectionTypes == Spec => []TypeOK
  <1>1. IInv => TypeOK
    BY DEF IInv
  <1> QED BY <1>1, Invariance, PTL
=============================================================================

----------------------------- MODULE Connection -----------------------------
(***************************************************************************)
(* The life of a connection object: TCPConnection, HttpConnection and      *)
(* MyConnection against lwIP.  lwIP calls back from the main loop, one     *)
(* call at a time; the object deletes itself inside those calls, and the   *)
(* code above the call it deletes itself in goes on using it.  onReceive   *)
(* is therefore one step per call that can delete.                         *)
(*                                                                         *)
(* A request is a request line, the headers and, for a rectangle, Need     *)
(* bytes; a chunk of data is a number of these items.  What they mean is   *)
(* in HttpParser and Drawing.  pc = "undefined" stands for everything that *)
(* may follow once the program has used memory that is no longer its own.  *)
(***************************************************************************)
EXTENDS Naturals

CONSTANTS
    Need,       \* bytes of a rectangle (dataCount)
    MaxExtra    \* bound: bytes a client sends beyond them

ASSUME NeedAssumption == Need \in Nat \ {0}
ASSUME MaxExtraAssumption == MaxExtra \in Nat

VARIABLES
    \* lwIP
    pcb,            \* the protocol control block
    registered,     \* callbacks it has; callback_arg is the object
    unacked,        \* a response is on its way
    \* the object
    obj,            \* the memory it is in
    parser,         \* HttpConnection::state
    handlingUrl,    \* "PutRect" or "Other"
    state,          \* MyConnection::state
    got,            \* currentDataCount
    \* control
    pc,             \* "idle": in lwIP or the main loop
    items,          \* what onReceive has not looked at yet
    \* history
    left,           \* items the client may still send
    failed          \* calls that failed for this connection

object == <<obj, parser, handlingUrl, state, got>>
lwip == <<pcb, registered, unacked>>
vars == <<lwip, object, pc, items, left, failed>>

Callbacks == {"recv", "err", "sent"}

Init ==
    /\ pcb = "none" /\ registered = {} /\ unacked = FALSE
    /\ obj = "none" /\ parser = "Connected" /\ handlingUrl = "Other"
    /\ state = "ReceivingData" /\ got = 0
    /\ pc = "idle" /\ items = 0 /\ left = 0 /\ failed = {}
-----------------------------------------------------------------------------
Undefined == pc' = "undefined"

\* Faults: the destructor forgets tcp_sent; it does not close.
UnregisteredButSent == {"sent"}
TcpCloseOmitted(failures) == pcb' = pcb /\ failed' = failures

\* What the destructor leaves registered.
Unregistered == {}

\* tcp_close sends a FIN, unless there is no memory for one; nobody looks at
\* the result.
TcpClose(failures) ==
    \/ pcb' = "closing" /\ failed' = failures
    \/ pcb' = pcb /\ failed' = failures \cup {"close"}

\* delete this: the destructor needs the control block, back is where the
\* call it is made in goes on.
Delete(failures, back) ==
    /\ obj' = "deleted"
    /\ registered' = Unregistered
    /\ UNCHANGED <<unacked, state>>
    /\ IF pcb = "open" THEN TcpClose(failures) /\ pc' = back
       ELSE Undefined /\ failed' = failures /\ UNCHANGED pcb

\* Fault: the object goes as soon as its response is written.
RespondAndDelete ==
    /\ obj' = "deleted"
    /\ registered' = Unregistered
    /\ TcpClose(failed)
    /\ unacked' = TRUE /\ state' = "SendingData" /\ pc' = pc

\* sendData, and what follows from its result.
Respond ==
    \/ /\ unacked' = TRUE
       /\ state' = "SendingData"
       /\ UNCHANGED <<pcb, registered, obj, pc, failed>>
    \/ Delete(failed \cup {"write"}, pc)

NoResponse == UNCHANGED <<lwip, obj, state, pc, failed>>
-----------------------------------------------------------------------------
\* Httpd::accept: createConnection, for a new connection of lwIP's.
Accept ==
    /\ pc = "idle" /\ obj # "live" /\ pcb \in {"none", "freed"}
    /\ pcb' = "open" /\ unacked' = FALSE
    /\ obj' = "live" /\ registered' = Callbacks
    /\ parser' = "Connected" /\ state' = "ReceivingData" /\ got' = 0
    /\ handlingUrl' = "Other"
    /\ left' = 2 + Need + MaxExtra
    /\ failed' = {}
    /\ UNCHANGED <<pc, items>>

\* The constructor runs on what mem_malloc returned, also when that is NULL.
AcceptNoMemory ==
    /\ pc = "idle" /\ obj # "live" /\ pcb \in {"none", "freed"}
    /\ pcb' = "open"
    /\ failed' = {"malloc"}
    /\ Undefined
    /\ UNCHANGED <<registered, unacked, object, items, left>>

\* StaticReceive, onReceive: n items have come.
Receive ==
    /\ pc = "idle" /\ pcb = "open" /\ "recv" \in registered
    /\ \E n \in 1 .. left : items' = n /\ left' = left - n
    /\ parser' = IF parser = "Connected" THEN "ParsingRequest" ELSE parser
    /\ pc' = "parse"
    /\ UNCHANGED <<lwip, obj, handlingUrl, state, got, failed>>

ParseRequest ==
    /\ pc = "parse" /\ obj = "live" /\ items > 0
    /\ parser = "ParsingRequest"
    /\ handlingUrl' \in {"PutRect", "Other"}
    /\ parser' = "ParsingHeader"
    /\ items' = items - 1
    /\ NoResponse
    /\ UNCHANGED <<got, left>>

\* onHeaderDone and, after it, the store to the parser's state.
HeaderDone ==
    /\ pc = "parse" /\ obj = "live" /\ items > 0
    /\ parser = "ParsingHeader"
    /\ items' = items - 1
    /\ IF handlingUrl = "PutRect" THEN NoResponse ELSE Respond
    /\ parser' = "Body"
    /\ UNCHANGED <<handlingUrl, got, left>>

\* Fault: bytes beyond the size are taken too.
TakenAll == got + items

Taken == IF got + items < Need THEN got + items ELSE Need

\* onBody, with all that is left of the chunk.
Body ==
    /\ pc = "parse" /\ obj = "live" /\ items > 0
    /\ parser = "Body"
    /\ items' = 0
    /\ IF handlingUrl = "PutRect"
       THEN /\ got' = Taken
            /\ IF got' = Need THEN Respond ELSE NoResponse
       ELSE NoResponse /\ UNCHANGED got
    /\ UNCHANGED <<parser, handlingUrl, left>>

\* tcp_recved(getPCB()), pbuf_free, and back to lwIP.
Received ==
    /\ pc = "parse" /\ obj = "live" /\ items = 0
    /\ pc' = "idle"
    /\ UNCHANGED <<lwip, object, items, left, failed>>

\* The parser and onReceive go on with an object that onHeaderDone or onBody
\* has deleted: they store its state, read it, and read its pcb.
UseAfterDelete ==
    /\ pc = "parse" /\ obj # "live"
    /\ Undefined
    /\ UNCHANGED <<lwip, object, items, left, failed>>

\* Fault: the object is kept for another request.
OnSentKeeps == unacked' = FALSE /\ UNCHANGED <<pcb, registered, obj, state, pc, failed>>

OnSent ==
    IF state = "SendingData" THEN Delete(failed, pc)
    ELSE unacked' = FALSE /\ UNCHANGED <<pcb, registered, obj, state, pc, failed>>

\* StaticSent: (part of) the response has been acknowledged.
Sent ==
    /\ pc = "idle" /\ pcb = "open" /\ unacked /\ "sent" \in registered
    /\ OnSent
    /\ UNCHANGED <<parser, handlingUrl, got, items, left>>

\* StaticReceive without data, onRemoteClose.
RemoteClose ==
    /\ pc = "idle" /\ pcb = "open" /\ "recv" \in registered
    /\ Delete(failed, pc)
    /\ UNCHANGED <<parser, handlingUrl, got, items, left>>

\* lwIP gives up on the connection (a reset, or its memory is needed): it
\* frees the control block and then calls back, if it is to.
Abort ==
    /\ pc = "idle" /\ pcb \in {"open", "closing"}
    /\ pcb' = "freed"
    /\ failed' = failed \cup {"connection"}
    /\ pc' = IF "err" \in registered THEN "error" ELSE pc
    /\ UNCHANGED <<registered, unacked, object, items, left>>

\* StaticError
Error ==
    /\ pc = "error"
    /\ Delete(failed, "idle")
    /\ UNCHANGED <<parser, handlingUrl, got, items, left>>

\* lwIP alone: the rest of the closing handshake, and the default for a
\* connection closed by the client that has no callbacks any more.
Closed ==
    /\ pc = "idle"
    /\ pcb = "closing" \/ (pcb = "open" /\ "recv" \notin registered)
    /\ pcb' = "freed"
    /\ UNCHANGED <<registered, unacked, object, pc, items, left, failed>>

Callback == ParseRequest \/ HeaderDone \/ Body \/ Received \/ UseAfterDelete \/ Error

Next ==
    \/ Accept \/ AcceptNoMemory
    \/ Receive \/ Callback
    \/ Sent \/ RemoteClose \/ Abort \/ Closed

(* A callback runs to its end, and a response that was written is          *)
(* acknowledged in the end, unless the connection ends before that.        *)
Spec == Init /\ [][Next]_vars /\ WF_vars(Callback) /\ WF_vars(Sent)
-----------------------------------------------------------------------------
TypeOK ==
    /\ pcb \in {"none", "open", "closing", "freed"}
    /\ registered \subseteq Callbacks
    /\ unacked \in BOOLEAN
    /\ obj \in {"none", "live", "deleted"}
    /\ parser \in {"Connected", "ParsingRequest", "ParsingHeader", "Body"}
    /\ handlingUrl \in {"PutRect", "Other"}
    /\ state \in {"ReceivingData", "SendingData"}
    /\ got \in 0 .. Need
    /\ pc \in {"idle", "parse", "error", "undefined"}
    /\ items \in 0 .. 2 + Need + MaxExtra
    /\ left \in 0 .. 2 + Need + MaxExtra
    /\ failed \subseteq {"malloc", "write", "close", "connection"}

(* lwIP never calls an object that is not there.                           *)
NoDanglingCallback ==
    pc = "idle" /\ registered # {} => obj = "live" /\ pcb = "open"

(* The object uses itself, or its control block, after they are gone only  *)
(* when an allocation or a write failed or lwIP reported an error: in all  *)
(* else that can happen to a connection it is deleted at a safe place.     *)
UndefinedOnlyAfterFailure ==
    pc = "undefined" => failed \cap {"malloc", "write", "connection"} # {}

(* An object that is gone has closed its connection, unless closing was    *)
(* what failed.                                                            *)
ClosesItsConnection ==
    pc # "undefined" /\ obj = "deleted" /\ pcb = "open" => "close" \in failed

(* A request that was answered is followed by the end of its object.       *)
AnsweredThenDeleted ==
    state = "SendingData" /\ obj = "live" ~> obj = "deleted" \/ pc = "undefined"
=============================================================================

---------------------------- MODULE JenkinsClient ----------------------------
(***************************************************************************)
(* The Jenkins API client (jenkins-api-client.c): one request at a time,   *)
(* its state (struct jac_state) allocated by jenkins_get_status and freed  *)
(* in lwIP's callbacks, and the end of the response's header, looked for   *)
(* across the chunks the response comes in.  What the JSON in it is made   *)
(* into is in JsonParser and JenkinsStatus.                                *)
(*                                                                         *)
(* The callbacks are never unregistered: lwIP may call them until it frees *)
(* the control block.  pc = "undefined" stands for everything that may     *)
(* follow once freed memory has been used.                                 *)
(***************************************************************************)
EXTENDS Integers, Sequences

CONSTANTS
    NLines,     \* lines of the response's header
    NBody       \* bound: characters of its body

ASSUME NLinesAssumption == NLines \in Nat \ {0}
ASSUME NBodyAssumption == NBody \in Nat

VARIABLES
    pcb,                \* lwIP's control block of the connection
    state,              \* the memory of struct jac_state
    header_done, match, \* members of it
    parsed,             \* what json_parse_buf was given
    pc,                 \* "idle": in lwIP or the main loop
    \* the server
    stream,             \* its response
    pos,                \* how much of it was received
    \* history
    remoteClosed        \* jac_recv was called without data

response == <<stream, pos>>
vars == <<pcb, state, header_done, match, parsed, pc, response, remoteClosed>>

Blocks == {"connecting", "open", "closing", "closed by peer"}
Kinds == {"text", "cr", "lf"}
Header ==
    [n \in 1 .. 3 * NLines + 2 |->
        IF n <= 3 * NLines THEN <<"text", "cr", "lf">>[((n - 1) % 3) + 1]
        ELSE <<"cr", "lf">>[n - 3 * NLines]]
Responses == {Header \o body : body \in UNION {[1 .. n -> Kinds] : n \in 0 .. NBody}}

Init ==
    /\ pcb = "none" /\ state = "none"
    /\ header_done = FALSE /\ match = 0 /\ parsed = <<>>
    /\ pc = "idle"
    /\ stream \in Responses /\ pos = 0
    /\ remoteClosed = FALSE
-----------------------------------------------------------------------------
\* Fault: the state stays allocated when there is no connection.
NoConnectionLeak == pcb' = "freed" /\ state' = "live"

NoConnection == pcb' = "freed" /\ state' = "freed"

\* Fault: what was matched before is not forgotten.
FreshButMatch == header_done' = FALSE /\ UNCHANGED match /\ parsed' = <<>>

Fresh == header_done' = FALSE /\ match' = 0 /\ parsed' = <<>>

\* jenkins_get_status.  Without a control block or memory it leaves nothing
\* behind, which is no step here.
GetStatus ==
    /\ pc = "idle" /\ pcb \in {"none", "freed"} /\ state # "live"
    /\ \/ pcb' = "connecting" /\ state' = "live"
       \/ NoConnection
    /\ Fresh
    /\ stream' \in Responses /\ pos' = 0
    /\ remoteClosed' = FALSE
    /\ UNCHANGED pc

\* mem_free(arg), for an arg that lwIP kept.
Free ==
    IF state = "live" THEN state' = "freed" /\ pc' = pc
    ELSE pc' = "undefined" /\ state' = state

\* Fault: who aborts frees the state too, which jac_error has freed.
AbortAndFree == pcb' = "freed" /\ state' = "freed" /\ pc' = "undefined"

\* tcp_abort: lwIP frees the control block and calls jac_error.
Abort == pcb' = "freed" /\ Free

\* jac_connected
Connected ==
    /\ pc = "idle" /\ pcb = "connecting"
    /\ \/ pcb' = "open" /\ UNCHANGED <<state, pc>>
       \/ Abort
    /\ UNCHANGED <<header_done, match, parsed, response, remoteClosed>>

header_match == <<"cr", "lf", "cr", "lf">>

\* One turn of the loop of jac_parse_response: how much of header_match is
\* found and where the loop is, for the next character c.
Matched(s, c) ==
    IF s.match = 4 THEN s
    ELSE [match |-> IF c = header_match[s.match + 1] THEN s.match + 1 ELSE 0,
          at |-> s.at + 1]

\* Fault: the match starts again in each chunk.
ScanFromScratch(data) ==
    LET run[n \in 0 .. Len(data)] ==
            IF n = 0 THEN [match |-> 0, at |-> 0] ELSE Matched(run[n - 1], data[n])
    IN  run[Len(data)]

\* The loop: match after data, and where it stopped.
Scan(data) ==
    LET run[n \in 0 .. Len(data)] ==
            IF n = 0 THEN [match |-> match, at |-> 0] ELSE Matched(run[n - 1], data[n])
    IN  run[Len(data)]

\* jac_parse_response.  The break leaves buf at the last LF of the header.
ParseResponse(data) ==
    IF header_done THEN parsed' = parsed \o data /\ UNCHANGED <<header_done, match>>
    ELSE LET end == Scan(data)
         IN  /\ match' = end.match
             /\ header_done' = (end.match = 4)
             /\ parsed' = IF end.match = 4 THEN SubSeq(data, end.at, Len(data)) ELSE parsed

\* jac_recv, for one pbuf.
Receive ==
    /\ pc = "idle" /\ pcb = "open"
    /\ \E n \in 1 .. Len(stream) - pos :
        /\ ParseResponse(SubSeq(stream, pos + 1, pos + n))
        /\ pos' = pos + n
    /\ UNCHANGED <<pcb, state, pc, stream, remoteClosed>>

\* jac_recv without data.  tcp_close may fail; the state is freed anyway.
RemoteClose ==
    /\ pc = "idle" /\ pcb = "open"
    /\ remoteClosed' = TRUE
    /\ pcb' \in {"closing", "closed by peer"}
    /\ Free
    /\ UNCHANGED <<header_done, match, parsed, response>>

\* Fault: a connection that was established is left alone.
PollSparesConnected == pcb = "connecting"

\* Whether jac_poll finds JAC_CONNECTING: nothing ever sets JAC_CONNECTED.
Connecting == TRUE

\* jac_poll, called every few seconds as long as there is a control block.
Poll ==
    /\ pc = "idle" /\ pcb \in Blocks
    /\ IF state # "live" THEN pc' = "undefined" /\ UNCHANGED <<pcb, state>>
       ELSE IF Connecting THEN Abort ELSE UNCHANGED <<pcb, state, pc>>
    /\ UNCHANGED <<header_done, match, parsed, response, remoteClosed>>

\* lwIP gives up on the connection and calls jac_error.
Error ==
    /\ pc = "idle" /\ pcb \in Blocks
    /\ Abort
    /\ UNCHANGED <<header_done, match, parsed, response, remoteClosed>>

\* The closing handshake ends; lwIP tells nobody.
Closed ==
    /\ pc = "idle" /\ pcb = "closing"
    /\ pcb' = "freed"
    /\ UNCHANGED <<state, header_done, match, parsed, pc, response, remoteClosed>>

Next ==
    \/ GetStatus \/ Connected \/ Receive \/ RemoteClose
    \/ Poll \/ Error \/ Closed

(* lwIP's timer goes on polling a connection; nothing is assumed of the    *)
(* server, nor of who asks for the status.                                 *)
Spec == Init /\ [][Next]_vars /\ WF_vars(Poll)
-----------------------------------------------------------------------------
TypeOK ==
    /\ pcb \in Blocks \cup {"none", "freed"}
    /\ state \in {"none", "live", "freed"}
    /\ match \in 0 .. 4 /\ header_done = (match = 4)
    /\ parsed \in Seq(Kinds)
    /\ pc \in {"idle", "undefined"}
    /\ stream \in Responses /\ pos \in 0 .. Len(stream)
    /\ remoteClosed \in BOOLEAN

(* The state is there as long as data or an answer to the connect may      *)
(* come, and no longer: neither used after it is freed nor leaked.         *)
StateWithConnection ==
    pc = "idle" => (state = "live" <=> pcb \in {"connecting", "open"})

(* The state is used or freed a second time only after the server closed   *)
(* first: aborts, also from within a callback, errors and failed connects  *)
(* free it once.                                                           *)
UndefinedOnlyAfterRemoteClose == pc = "undefined" => remoteClosed

(* However the response is cut into chunks, the JSON parser is given the   *)
(* bytes from the last line feed of the header on, without a gap, and      *)
(* nothing of the header before it.                                        *)
ParsedFromHeaderEnd == parsed = SubSeq(stream, Len(Header), pos)

(* A request does not last for ever, though the server never answers or    *)
(* never stops: the poll aborts it.                                        *)
RequestEnds == state = "live" ~> state # "live"
=============================================================================

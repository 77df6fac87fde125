------------------------------- MODULE Jenkins -------------------------------
(***************************************************************************)
(* The Jenkins API client as a whole: the request of JenkinsClient, whose  *)
(* response goes through the JSON parser to the handler of JenkinsStatus.  *)
(* Bytes of the body that reach the parser make it call the handler any    *)
(* number of times before jac_recv returns; the response may be cut off    *)
(* anywhere, by the poll, an error or the server, and another request is   *)
(* made with the same code.                                                *)
(***************************************************************************)
EXTENDS JenkinsClient, JenkinsStatus

VARIABLE parsing    \* jac_recv is in json_parse_buf

jenkinsVars == <<vars, parsing, statusVars>>

JenkinsInit == Init /\ StatusInit /\ parsing = FALSE
-----------------------------------------------------------------------------
\* jenkins_get_status initializes both the search for the header's end and
\* the handler's counters.
Request == ~parsing /\ GetStatus /\ Again /\ UNCHANGED parsing

\* jac_recv up to the call of json_parse_buf, if there is anything for it.
Deliver ==
    /\ ~parsing /\ Receive
    /\ parsing' = (parsed' # parsed)
    /\ UNCHANGED statusVars

Parse == parsing /\ Event /\ UNCHANGED <<vars, parsing>>

\* The end of the bytes is reached and jac_recv returns.
Return == parsing /\ parsing' = FALSE /\ UNCHANGED <<vars, statusVars>>

\* What does not concern the handler.
Unparsed(A) == ~parsing /\ A /\ UNCHANGED <<parsing, statusVars>>

PollConnection == Unparsed(Poll)

JenkinsNext ==
    \/ Request \/ Deliver \/ Parse \/ Return \/ PollConnection
    \/ Unparsed(Connected) \/ Unparsed(RemoteClose)
    \/ Unparsed(Error) \/ Unparsed(Closed)

(* lwIP's timer goes on polling a connection, and a buffer has an end;     *)
(* nothing is assumed of the server, nor of who asks for the status.       *)
JenkinsSpec ==
    JenkinsInit /\ [][JenkinsNext]_jenkinsVars /\ WF_jenkinsVars(PollConnection)
                /\ WF_jenkinsVars(Return)
=============================================================================

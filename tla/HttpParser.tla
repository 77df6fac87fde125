----------------------------- MODULE HttpParser -----------------------------
(***************************************************************************)
(* HttpConnection::onReceive and the parser behind it (httpd.cpp:62-175).  *)
(* A request is a line, header lines, an empty line and a body; TCP hands  *)
(* it over in chunks (pbufs) cut anywhere.  The parser keeps no bytes from *)
(* one chunk to the next, only its state, and assumes that "all header     *)
(* fields are within one chunk of data" (httpd.cpp:116).                   *)
(*                                                                         *)
(* The stream is a sequence of tokens <<kind, line, part>>: every line but *)
(* the empty one has a text in two parts, so that it can be cut in the     *)
(* middle, and ends in CR and LF; a body byte may look like any of them.   *)
(***************************************************************************)
EXTENDS Naturals, FiniteSets, Sequences

CONSTANTS
    NHeaders,       \* header lines of a request
    NBody           \* bound: bytes of its body

ASSUME NHeadersAssumption == NHeaders \in Nat
ASSUME NBodyAssumption == NBody \in Nat

VARIABLES
    stream,     \* what the client sends on this connection
    pos,        \* how much of it has been received
    chunk,      \* data, len: what is left of the pbuf being parsed
    state,      \* HttpConnection::state
    pc,         \* where parseData is
    \* history
    calls,      \* setRequest, onHeader and onHeaderDone as they were called
    body,       \* what onBody was called with
    bodyAt,     \* where in the stream the header ended
    whole       \* no chunk ended inside a line so far

vars == <<stream, pos, chunk, state, pc, calls, body, bodyAt, whole>>

Blank == NHeaders + 1                   \* number of the empty line
Line(l) == IF l = Blank THEN <<<<"cr", l, 0>>, <<"lf", l, 0>>>>
           ELSE <<<<"text", l, 1>>, <<"text", l, 2>>, <<"cr", l, 0>>, <<"lf", l, 0>>>>
Preamble == [n \in 1 .. 4 * Blank + 2 |-> LET l == (n - 1) \div 4 IN Line(l)[n - 4 * l]]
Body(kinds) == [n \in 1 .. Len(kinds) |-> <<kinds[n], Blank + 1, n>>]

Requests == {Preamble \o Body(kinds) : kinds \in UNION {[1 .. n -> {"text", "cr", "lf"}] : n \in 0 .. NBody}}

\* What "calls" records: the line's number, and for the other two
Done == Blank                           \* onHeaderDone
Garbled == Blank + 1                    \* a line that lost its beginning
-----------------------------------------------------------------------------
\* One turn of the loop of findSubStr: token n of the data has kind c.
Compared(s, c, target, n) ==
    IF s.found > 0 THEN s
    ELSE IF c # target[s.match + 1] THEN [match |-> 0, found |-> 0]
    ELSE IF s.match + 1 < Len(target) THEN [match |-> s.match + 1, found |-> 0]
    ELSE [match |-> 0, found |-> n - Len(target) + 1]

(* findSubStr: where target starts in data, counted from 1; 0 for -1.      *)
FindSubStr(data, target) ==
    LET run[n \in 0 .. Len(data)] ==
            IF n = 0 THEN [match |-> 0, found |-> 0]
            ELSE Compared(run[n - 1], data[n][1], target, n)
    IN  run[Len(data)].found

LineEnd(data) == FindSubStr(data, <<"cr", "lf">>)

Rest(data) == SubSeq(data, LineEnd(data) + 2, Len(data))

\* The text of line l as a chunk must hold it for it to be understood.
Text(l) == <<<<"text", l, 1>>, <<"text", l, 2>>>>
Content(data) == SubSeq(data, 1, LineEnd(data) - 1)
-----------------------------------------------------------------------------
\* A connection is accepted: HttpConnection's constructor, for some request.
Fresh ==
    /\ stream' \in Requests
    /\ pos' = 0 /\ chunk' = <<>>
    /\ state' = "Connected" /\ pc' = "wait"
    /\ calls' = <<>> /\ body' = <<>> /\ bodyAt' = 0 /\ whole' = TRUE

Init ==
    /\ stream \in Requests
    /\ pos = 0 /\ chunk = <<>>
    /\ state = "Connected" /\ pc = "wait"
    /\ calls = <<>> /\ body = <<>> /\ bodyAt = 0 /\ whole = TRUE

Accept == pc = "wait" /\ pos = Len(stream) /\ Fresh

\* What parseData does first in each state.
Entry(s) == CASE s = "ParsingRequest" -> "request"
              [] s = "ParsingHeader" -> "header"
              [] s = "Body" -> "body"

(* onReceive, for one pbuf of the chain: its next n tokens.                *)
OnReceive ==
    /\ pc = "wait"
    /\ \E n \in 1 .. Len(stream) - pos :
        /\ chunk' = SubSeq(stream, pos + 1, pos + n)
        /\ pos' = pos + n
        /\ whole' = (whole /\ (pos + n >= Len(Preamble) \/ stream[pos + n][1] = "lf"))
    /\ state' = IF state = "Connected" THEN "ParsingRequest" ELSE state
    /\ pc' = Entry(state')
    /\ UNCHANGED <<stream, calls, body, bodyAt>>

\* No line ends in the chunk: the parser returns and the chunk is gone.
NoLineEnd ==
    /\ pc \in {"request", "header"}
    /\ LineEnd(chunk) = 0
    /\ chunk' = <<>>
    /\ pc' = "wait"
    /\ UNCHANGED <<stream, pos, state, calls, body, bodyAt, whole>>

(* parseRequest: of a line that lost its beginning any or no part may be   *)
(* found between the first two spaces.                                     *)
ParseRequest ==
    /\ pc = "request"
    /\ LineEnd(chunk) > 0
    /\ calls' \in IF Content(chunk) = Text(0) THEN {<<0>>}
                  ELSE {<<>>, <<0>>, <<Garbled>>}
    /\ chunk' = Rest(chunk)
    /\ state' = "ParsingHeader"
    /\ pc' = "header"
    /\ UNCHANGED <<stream, pos, body, bodyAt, whole>>

\* parseHeader, one line of it.
Header(data) ==
    IF \E l \in 1 .. NHeaders : Content(data) = Text(l)
    THEN CHOOSE l \in 1 .. NHeaders : Content(data) = Text(l)
    ELSE Garbled

\* Fault: the next line is looked for at the LF.
ParseHeaderKeepsLf ==
    /\ pc = "header"
    /\ LineEnd(chunk) > 1
    /\ calls' = Append(calls, Header(chunk))
    /\ chunk' = SubSeq(chunk, LineEnd(chunk) + 1, Len(chunk))
    /\ UNCHANGED <<stream, pos, state, pc, body, bodyAt, whole>>

\* Fault: len is moved on, data is not.
ParseHeaderDataKept ==
    /\ pc = "header"
    /\ LineEnd(chunk) > 1
    /\ calls' = Append(calls, Header(chunk))
    /\ chunk' = SubSeq(chunk, 1, Len(Rest(chunk)))
    /\ UNCHANGED <<stream, pos, state, pc, body, bodyAt, whole>>

ParseHeader ==
    /\ pc = "header"
    /\ LineEnd(chunk) > 1
    /\ calls' = Append(calls, Header(chunk))
    /\ chunk' = Rest(chunk)
    /\ UNCHANGED <<stream, pos, state, pc, body, bodyAt, whole>>

\* Fault: what follows the empty line in its chunk is not handed to onBody.
HeaderDoneDropsRest ==
    /\ pc = "header"
    /\ LineEnd(chunk) = 1
    /\ calls' = Append(calls, Done)
    /\ chunk' = <<>>
    /\ state' = "Body"
    /\ bodyAt' = (pos - Len(chunk)) + 2
    /\ pc' = "body"
    /\ UNCHANGED <<stream, pos, body, whole>>

\* parseHeader at an empty line.
HeaderDone ==
    /\ pc = "header"
    /\ LineEnd(chunk) = 1
    /\ calls' = Append(calls, Done)
    /\ chunk' = Rest(chunk)
    /\ state' = "Body"
    /\ bodyAt' = (pos - Len(chunk)) + 2
    /\ pc' = "body"
    /\ UNCHANGED <<stream, pos, body, whole>>

\* onBody, when anything is left.
ParseBody ==
    /\ pc = "body"
    /\ body' = body \o chunk
    /\ chunk' = <<>>
    /\ pc' = "wait"
    /\ UNCHANGED <<stream, pos, state, calls, bodyAt, whole>>

Next ==
    \/ Accept \/ OnReceive \/ NoLineEnd
    \/ ParseRequest \/ ParseHeader \/ HeaderDone \/ ParseBody

Spec == Init /\ [][Next]_vars
-----------------------------------------------------------------------------
(* As long as no chunk ended inside a line, and the request is cut in any  *)
(* other way, what the handlers are called with is what the client sent:   *)
(* more than the assumption in the source asks for.                        *)
LinesIn(n) == {l \in 0 .. Blank : \E k \in 1 .. n : stream[k] = <<"lf", l, 0>>}

CallsAsSent ==
    whole /\ pc = "wait" =>
        /\ calls = [l \in 1 .. Cardinality(LinesIn(pos)) |-> l - 1]
        /\ body = SubSeq(stream, Len(Preamble) + 1, pos)

(* However the stream is cut, onHeaderDone comes once and last, and after  *)
(* it every byte goes to onBody, none twice and none left out.             *)
BodyGapless ==
    /\ \A n \in 1 .. Len(calls) : calls[n] = Done => n = Len(calls) /\ state = "Body"
    /\ state = "Body" => body \o chunk = SubSeq(stream, bodyAt + 1, pos)
    /\ state # "Body" => body = <<>>

(* However the stream is cut, no header line is reported twice or before   *)
(* one that was sent ahead of it.                                          *)
HeadersInOrder ==
    \A m, n \in 1 .. Len(calls) :
        m < n /\ calls[m] # Garbled /\ calls[n] # Garbled => calls[m] < calls[n]
=============================================================================

------------------------------ MODULE Drawing -------------------------------
(***************************************************************************)
(* What MyConnection makes of a request (main.cpp:169-287): the headers    *)
(* set coordinates and sizes, onHeaderDone draws a pixel, clears the       *)
(* matrix or prepares for a rectangle, and onBody paints the rectangle     *)
(* from a body that arrives in chunks of any size, two bytes per pixel.    *)
(*                                                                         *)
(* The constructor initialises none of the numbers, and putPixel.color is  *)
(* the same 16 bits as putRect.width (a union).  Byte l of the body has    *)
(* the value l, and a colour is <<low byte, high byte>>.                   *)
(***************************************************************************)
EXTENDS Integers, FiniteSets

CONSTANTS
    Word,       \* values of a uint16_t: 2^16
    Values,     \* values of a header, and of memory that was not written
    MaxBody     \* bound: bytes of a body

ASSUME WordAssumption == Word \in Nat \ {0}
ASSUME ValuesAssumption == Values \subseteq 0 .. Word - 1
ASSUME MaxBodyAssumption == MaxBody \in Nat

VARIABLES
    handlingUrl, state,     \* MyConnection::handlingUrl, ::state
    x, y,                   \* the same
    width, height,          \* parameters.putRect; width is also the colour
    dataCount, currentDataCount, currentColor, currentX, currentY,
    fb,                     \* the frame buffer
    pc, len, i,             \* onBody: where it is, its arguments and index
    \* history
    sent,                   \* headers of the request, by name
    colored,                \* a Color header came after the Width header
    received,               \* body bytes received
    responses               \* responses written

head == <<handlingUrl, x, y, width, height, sent, colored>>
rect == <<dataCount, currentDataCount, currentColor, currentX, currentY, len, i, received>>
vars == <<head, rect, state, fb, pc, responses>>

Coords == 0 .. Word - 1
Keys == {"X", "Y", "Color", "Width", "Height"}
Urls == {"None", "PutRect", "Pixel", "Clear"}
Unset == -1
Solid == MaxBody                    \* high byte of a colour set by a header
Old == <<Solid, Solid>>             \* what was in the frame buffer before
NoColor == <<0, Solid>>

Paint(col, row, color) == fb' = [fb EXCEPT ![<<col, row>>] = color]
-----------------------------------------------------------------------------
\* A connection object whose setRequest has been called.  dataCount and the
\* ones behind it are written in onHeaderDone before they are read.
Init ==
    /\ handlingUrl \in Urls /\ state = "ReceivingData"
    /\ x \in Values /\ y \in Values /\ width \in Values /\ height \in Values
    /\ dataCount = 0 /\ currentDataCount = 0 /\ currentColor = NoColor
    /\ currentX = 0 /\ currentY = 0
    /\ fb = [p \in Coords \X Coords |-> Old]
    /\ pc = "header" /\ len = 0 /\ i = 0
    /\ sent = [k \in Keys |-> Unset] /\ colored = FALSE
    /\ received = 0 /\ responses = 0

\* onHeader; each header comes at most once.
OnHeader(key, val) ==
    /\ pc = "header"
    /\ sent[key] = Unset
    /\ sent' = [sent EXCEPT ![key] = val]
    /\ colored' = IF key = "Color" THEN sent["Width"] # Unset
                  ELSE IF key = "Width" THEN FALSE ELSE colored
    /\ x' = IF key = "X" THEN val ELSE x
    /\ y' = IF key = "Y" THEN val ELSE y
    /\ width' = IF key \in {"Color", "Width"} THEN val ELSE width
    /\ height' = IF key = "Height" THEN val ELSE height
    /\ UNCHANGED <<handlingUrl, rect, state, fb, pc, responses>>

\* sendData, and what follows from its result.
Respond ==
    \/ /\ responses' = responses + 1
       /\ state' = "SendingData"
       /\ pc' = "wait"
    \/ /\ pc' = "deleted"
       /\ UNCHANGED <<responses, state>>

\* onHeaderDone, for all but a rectangle.
DrawAtOnce ==
    /\ pc = "header"
    /\ handlingUrl # "PutRect"
    /\ \/ handlingUrl = "Pixel" /\ Paint(x, y, <<width, Solid>>)
       \/ handlingUrl = "Clear" /\ fb' = [p \in Coords \X Coords |-> <<width, Solid>>]
       \/ handlingUrl = "None" /\ UNCHANGED fb
    /\ Respond
    /\ UNCHANGED <<head, rect>>

\* onHeaderDone, for a rectangle.  The size is an int product kept in 32 bits;
\* currentY starts at x.
PrepareRect ==
    /\ pc = "header"
    /\ handlingUrl = "PutRect"
    /\ dataCount' = (width * height * 2) % (Word * Word)
    /\ currentDataCount' = 0
    /\ currentX' = x
    /\ currentY' = x
    /\ pc' = "wait"
    /\ UNCHANGED <<head, currentColor, len, i, received, state, fb, responses>>

Missing == dataCount - currentDataCount

\* Fault: bytes beyond the size are taken too.
TakeAll(n) == n

Take(n) == IF n > Missing THEN Missing ELSE n

\* onBody is called with n bytes, and takes no more than are missing.
OnBody ==
    /\ pc = "wait"
    /\ handlingUrl = "PutRect"
    /\ \E n \in 1 .. MaxBody - received :
        /\ received' = received + n
        /\ len' = Take(n)
    /\ i' = 0
    /\ pc' = "loop"
    /\ UNCHANGED <<head, dataCount, currentDataCount, currentColor, currentX,
                   currentY, state, fb, responses>>

\* One byte of the loop: the first of a pixel ...
LowByte ==
    /\ pc = "loop" /\ i < len
    /\ (i + currentDataCount) % 2 = 0
    /\ currentColor' = <<i + currentDataCount, Solid>>
    /\ i' = i + 1
    /\ UNCHANGED <<head, dataCount, currentDataCount, currentX, currentY, len,
                   received, state, fb, pc, responses>>

\* Fault: the end of a row is not measured from x.
RowEndAtZero == width

RowEnd == width + x

\* ... and the second, which paints it and goes on to the next cell.
HighByte ==
    /\ pc = "loop" /\ i < len
    /\ (i + currentDataCount) % 2 = 1
    /\ LET color == <<currentColor[1], i + currentDataCount>>
           next == (currentX + 1) % Word
       IN  /\ currentColor' = color
           /\ Paint(currentX, currentY, color)
           /\ IF next >= RowEnd
              THEN currentX' = x /\ currentY' = (currentY + 1) % Word
              ELSE currentX' = next /\ currentY' = currentY
    /\ i' = i + 1
    /\ UNCHANGED <<head, dataCount, currentDataCount, len, received, state, pc, responses>>

\* Faults: the last chunk is compared with the whole size; the chunks are not
\* added up.
CompleteInOneChunk == len = dataCount
TotalAssigned == len

Total == currentDataCount + len
Complete == Total = dataCount

\* The end of onBody.
BodyDone ==
    /\ pc = "loop" /\ i = len
    /\ currentDataCount' = Total
    /\ IF Complete THEN Respond
       ELSE pc' = "wait" /\ UNCHANGED <<responses, state>>
    /\ UNCHANGED <<head, dataCount, currentColor, currentX, currentY, len, i, received, fb>>

\* onSent, or the client closes: delete this.
OnSent ==
    /\ pc = "wait"
    /\ state = "SendingData"
    /\ pc' = "deleted"
    /\ UNCHANGED <<head, rect, state, fb, responses>>

OnRemoteClose ==
    /\ pc \in {"header", "wait"}
    /\ pc' = "deleted"
    /\ UNCHANGED <<head, rect, state, fb, responses>>

Next ==
    \/ \E key \in Keys, val \in Values : OnHeader(key, val)
    \/ DrawAtOnce \/ PrepareRect
    \/ OnBody \/ LowByte \/ HighByte \/ BodyDone
    \/ OnSent \/ OnRemoteClose

Spec == Init /\ [][Next]_vars
-----------------------------------------------------------------------------
TypeOK ==
    /\ handlingUrl \in Urls
    /\ state \in {"ReceivingData", "SendingData"}
    /\ {x, y, width, height} \subseteq Values
    /\ dataCount \in Nat /\ currentDataCount \in 0 .. dataCount
    /\ currentColor \in (0 .. MaxBody) \X (0 .. MaxBody)
    /\ currentX \in Coords /\ currentY \in Coords
    /\ fb \in [Coords \X Coords -> Nat \X (0 .. MaxBody)]
    /\ pc \in {"header", "wait", "loop", "deleted"}
    /\ len \in 0 .. MaxBody /\ i \in 0 .. len
    /\ sent \in [Keys -> Values \cup {Unset}]
    /\ received \in 0 .. MaxBody
    /\ responses \in Nat

\* A rectangle whose size and column were all sent, and that ends, with its
\* first row at "top", below the largest coordinates.
Sized(top) ==
    /\ handlingUrl = "PutRect" /\ pc # "header"
    /\ \A k \in {"X", "Width", "Height"} : sent[k] # Unset
    /\ ~colored
    /\ sent["X"] + sent["Width"] < Word
    /\ top + sent["Height"] < Word

\* The frame buffer after the first n pixels of the body, with the rectangle's
\* first row at "top".
Painted(top, n) ==
    [p \in Coords \X Coords |->
        LET col == p[1] - sent["X"]
            row == p[2] - top
            k == row * sent["Width"] + col
        IN  IF col \in 0 .. sent["Width"] - 1 /\ row >= 0 /\ k < n
            THEN <<2 * k, 2 * k + 1>> ELSE Old]

PixelsDone == (currentDataCount + IF pc = "loop" THEN i ELSE 0) \div 2

(* However the body is cut into chunks, also in the middle of a pixel, the *)
(* cells painted so far are those of a rectangle of the size and at the    *)
(* column that were asked for, row by row, and no other cell is touched.   *)
(* Its first row is the one the source starts at, which is X.              *)
PaintedRowByRow == Sized(sent["X"]) => fb = Painted(sent["X"], PixelsDone)

(* The rectangle is where the headers and the log line of onHeaderDone,    *)
(* "Drawing from (x,y)", put it.                                           *)
DrawnFromXY ==
    sent["Y"] # Unset /\ Sized(sent["Y"]) => fb = Painted(sent["Y"], PixelsDone)

(* A rectangle is answered when its last byte has come and not before, and *)
(* a second time only to a client that sends more than it announced.       *)
AnsweredWhenComplete ==
    handlingUrl = "PutRect" /\ pc = "wait" =>
        /\ responses > 0 <=> received > 0 /\ received >= dataCount
        /\ responses > 1 => received > dataCount

(* A byte beyond the announced size paints nothing, and none before it is  *)
(* dropped, whatever chunk it comes in.                                    *)
BodyClipped ==
    handlingUrl = "PutRect" /\ pc = "wait" =>
        currentDataCount = IF received < dataCount THEN received ELSE dataCount
=============================================================================

---------------------------- MODULE Drawing_proof ----------------------------
(***************************************************************************)
(* onBody counts right, for any header values, any width of the words and  *)
(* any body cut in any way: what was taken is what came, up to the size,   *)
(* and the answer comes with the last byte.                                *)
(*                                                                         *)
(* Inside onBody neither is true, for currentDataCount is moved on at the  *)
(* end and responses after it.  Counted says what holds there: the taken   *)
(* bytes are those counted plus len, and an answer that was written before *)
(* means that this chunk is beyond the size.                               *)
(*                                                                         *)
(* What is painted follows from where the next pixel goes (PaintInv).      *)
(***************************************************************************)
EXTENDS Drawing, TLAPS

Clipped == IF received < dataCount THEN received ELSE dataCount

Counted ==
    handlingUrl = "PutRect" =>
        /\ pc = "header" => received = 0 /\ responses = 0
        /\ pc = "wait" => currentDataCount = Clipped
        /\ pc = "loop" =>
            /\ currentDataCount + len = Clipped
            /\ received > 0
            /\ dataCount > 0 /\ currentDataCount = dataCount => responses > 0
            /\ responses > 0 => currentDataCount = dataCount /\ received > dataCount

\* Nothing but a rectangle reaches onBody's loop.
LoopIsRect == pc = "loop" => handlingUrl = "PutRect"

IInv == TypeOK /\ Counted /\ LoopIsRect /\ AnsweredWhenComplete

USE WordAssumption, ValuesAssumption, MaxBodyAssumption

LEMMA ValuesAreCoords == Values \subseteq Coords /\ Values \subseteq Nat /\ Coords \subseteq Nat
BY DEF Coords

(* A painted cell keeps the type of the frame buffer, whether or not it is *)
(* on the matrix.                                                          *)
LEMMA PaintType ==
    ASSUME NEW col, NEW row, NEW color \in Nat \X (0 .. MaxBody),
           fb \in [Coords \X Coords -> Nat \X (0 .. MaxBody)], Paint(col, row, color)
    PROVE  fb' \in [Coords \X Coords -> Nat \X (0 .. MaxBody)]
BY DEF Paint

LEMMA InitIInv == Init => IInv
<1> SUFFICES ASSUME Init PROVE IInv
    OBVIOUS
<1>1. 0 \in Coords /\ 0 \in 0 .. MaxBody /\ MaxBody \in 0 .. MaxBody /\ MaxBody \in Nat
    BY DEF Coords
<1>2. TypeOK
    BY <1>1 DEF Init, TypeOK, Urls, NoColor, Old, Solid, Keys, Unset
<1>3. QED
    BY <1>2 DEF Init, IInv, Counted, LoopIsRect, AnsweredWhenComplete

(* The answer, or its failure: the type, and pc afterwards.                *)
LEMMA RespondType ==
    ASSUME TypeOK, Respond
    PROVE  /\ responses' \in Nat
           /\ state' \in {"ReceivingData", "SendingData"}
           /\ \/ pc' = "wait" /\ responses' = responses + 1
              \/ pc' = "deleted"
BY DEF TypeOK, Respond

LEMMA HeaderStep ==
    ASSUME IInv, NEW key \in Keys, NEW val \in Values, OnHeader(key, val)
    PROVE  IInv'
<1>1. TypeOK'
    BY DEF IInv, TypeOK, OnHeader, rect, Keys
<1>2. QED
    BY <1>1 DEF IInv, Counted, LoopIsRect, AnsweredWhenComplete, Clipped, OnHeader, rect

LEMMA DrawAtOnceStep == IInv /\ DrawAtOnce => IInv'
<1> SUFFICES ASSUME IInv, DrawAtOnce PROVE IInv'
    OBVIOUS
<1>1. <<width, Solid>> \in Nat \X (0 .. MaxBody)
    <2>1. width \in Nat
        BY ValuesAreCoords DEF IInv, TypeOK
    <2>2. Solid \in 0 .. MaxBody
        BY DEF Solid
    <2>3. QED
        BY <2>1, <2>2
<1>2. fb' \in [Coords \X Coords -> Nat \X (0 .. MaxBody)]
    <2>1. CASE Paint(x, y, <<width, Solid>>)
        BY <1>1, <2>1, PaintType DEF IInv, TypeOK
    <2>2. CASE fb' = [p \in Coords \X Coords |-> <<width, Solid>>]
        BY <1>1, <2>2
    <2>3. CASE UNCHANGED fb
        BY <2>3 DEF IInv, TypeOK
    <2>4. QED
        BY <2>1, <2>2, <2>3 DEF DrawAtOnce
<1>3. UNCHANGED <<head, rect>> /\ handlingUrl # "PutRect" /\ Respond
    BY DEF DrawAtOnce
<1>4. TypeOK'
    BY <1>2, <1>3, RespondType DEF IInv, TypeOK, head, rect
<1>5. pc' # "loop"
    BY <1>3, RespondType DEF IInv
<1>6. QED
    BY <1>3, <1>4, <1>5 DEF IInv, Counted, LoopIsRect, AnsweredWhenComplete, head

LEMMA PrepareStep == IInv /\ PrepareRect => IInv'
<1> SUFFICES ASSUME IInv, PrepareRect PROVE IInv'
    OBVIOUS
<1>1. dataCount' \in Nat
    <2>1. width \in Nat /\ height \in Nat
        BY ValuesAreCoords DEF IInv, TypeOK
    <2>2. width * height * 2 \in Nat /\ Word * Word \in Nat \ {0}
        BY <2>1, SMTT(30)
    <2>3. \A m \in Nat, n \in Nat \ {0} : m % n \in Nat
        OBVIOUS
    <2>4. (width * height * 2) % (Word * Word) \in Nat
        BY <2>2, <2>3, Zenon
    <2>5. QED
        BY <2>4 DEF PrepareRect
<1>2. TypeOK'
    <2>1. x \in Coords
        BY ValuesAreCoords DEF IInv, TypeOK
    <2>2. 0 \in 0 .. dataCount'
        BY <1>1
    <2>3. QED
        BY <1>1, <2>1, <2>2 DEF IInv, TypeOK, PrepareRect, head
<1>3. received' = 0 /\ responses' = 0 /\ currentDataCount' = 0 /\ pc' = "wait"
    BY DEF PrepareRect, IInv, Counted
<1>4. QED
    BY <1>1, <1>2, <1>3 DEF IInv, Counted, Clipped, LoopIsRect, AnsweredWhenComplete

LEMMA OnBodyStep == IInv /\ OnBody => IInv'
<1> SUFFICES ASSUME IInv, OnBody PROVE IInv'
    OBVIOUS
<1>1. PICK n \in 1 .. MaxBody - received : received' = received + n /\ len' = Take(n)
    BY DEF OnBody
<1>2. /\ dataCount \in Nat /\ currentDataCount \in Nat /\ received \in Nat /\ responses \in Nat
      /\ received <= MaxBody /\ currentDataCount = Clipped
      /\ responses > 0 <=> received > 0 /\ received >= dataCount
    BY DEF OnBody, IInv, TypeOK, Counted, AnsweredWhenComplete
<1>3. /\ len' \in 0 .. MaxBody /\ received' \in 0 .. MaxBody /\ received' > 0
      /\ currentDataCount + len' = IF received' < dataCount THEN received' ELSE dataCount
    BY <1>1, <1>2 DEF Take, Missing, Clipped
<1>4. TypeOK'
    BY <1>3 DEF IInv, TypeOK, OnBody, head
<1>5. /\ dataCount > 0 /\ currentDataCount = dataCount => responses > 0
      /\ responses > 0 => currentDataCount = dataCount /\ received' > dataCount
    BY <1>1, <1>2 DEF Clipped
<1>6. pc' = "loop" /\ UNCHANGED <<handlingUrl, dataCount, currentDataCount, responses>>
    BY DEF OnBody, head
<1>7. Counted'
    BY <1>3, <1>5, <1>6 DEF Counted, Clipped
<1>8. QED
    BY <1>4, <1>6, <1>7 DEF IInv, LoopIsRect, AnsweredWhenComplete, OnBody

(* A byte of the loop has an index that is one of the bytes received.      *)
LEMMA IndexReceived ==
    ASSUME IInv, pc = "loop", i < len
    PROVE  i + currentDataCount \in 0 .. MaxBody /\ i + 1 \in 0 .. len
<1>1. /\ dataCount \in Nat /\ currentDataCount \in Nat /\ received \in 0 .. MaxBody
      /\ len \in 0 .. MaxBody /\ i \in 0 .. len /\ currentDataCount + len = Clipped
    BY DEF IInv, TypeOK, Counted, LoopIsRect
<1>2. QED
    BY <1>1 DEF Clipped

LEMMA LowByteStep == IInv /\ LowByte => IInv'
<1> SUFFICES ASSUME IInv, LowByte PROVE IInv'
    OBVIOUS
<1>1. i + currentDataCount \in 0 .. MaxBody /\ i + 1 \in 0 .. len
    BY IndexReceived DEF LowByte
<1>2. currentColor' \in (0 .. MaxBody) \X (0 .. MaxBody)
    BY <1>1 DEF LowByte, Solid
<1>3. TypeOK'
    BY <1>1, <1>2 DEF IInv, TypeOK, LowByte, head
<1>4. QED
    BY <1>3 DEF IInv, Counted, Clipped, LoopIsRect, AnsweredWhenComplete, LowByte, head

LEMMA HighByteStep == IInv /\ HighByte => IInv'
<1> SUFFICES ASSUME IInv, HighByte PROVE IInv'
    OBVIOUS
<1>1. i + currentDataCount \in 0 .. MaxBody /\ i + 1 \in 0 .. len
    BY IndexReceived DEF HighByte
<1>2. <<currentColor[1], i + currentDataCount>> \in (0 .. MaxBody) \X (0 .. MaxBody)
    BY <1>1 DEF IInv, TypeOK
<1>3. fb' \in [Coords \X Coords -> Nat \X (0 .. MaxBody)]
    BY <1>2, PaintType DEF HighByte, IInv, TypeOK
<1>4. currentX' \in Coords /\ currentY' \in Coords
    <2>1. (currentX + 1) % Word \in Coords /\ (currentY + 1) % Word \in Coords
        BY DEF IInv, TypeOK, Coords
    <2>2. x \in Coords /\ currentY \in Coords
        BY ValuesAreCoords DEF IInv, TypeOK
    <2>3. QED
        BY <2>1, <2>2 DEF HighByte
<1>5. TypeOK'
    BY <1>1, <1>2, <1>3, <1>4 DEF IInv, TypeOK, HighByte, head
<1>6. QED
    BY <1>5 DEF IInv, Counted, Clipped, LoopIsRect, AnsweredWhenComplete, HighByte, head

LEMMA BodyDoneStep == IInv /\ BodyDone => IInv'
<1> SUFFICES ASSUME IInv, BodyDone PROVE IInv'
    OBVIOUS
<1>1. /\ dataCount \in Nat /\ currentDataCount \in Nat /\ received \in 0 .. MaxBody
      /\ len \in 0 .. MaxBody /\ responses \in Nat
      /\ handlingUrl = "PutRect" /\ currentDataCount + len = Clipped /\ received > 0
      /\ responses > 0 => currentDataCount = dataCount /\ received > dataCount
    BY DEF BodyDone, IInv, TypeOK, Counted, LoopIsRect
<1>2. UNCHANGED <<head, dataCount, currentColor, currentX, currentY, len, i, received, fb>>
    BY DEF BodyDone
<1>3. currentDataCount' = Clipped /\ currentDataCount' \in 0 .. dataCount
    BY <1>1 DEF BodyDone, Total, Clipped
<1>4. CASE Complete
    <2>1. Respond
        BY <1>4 DEF BodyDone
    <2>2. TypeOK'
        BY <1>2, <1>3, <2>1, RespondType DEF IInv, TypeOK, head
    <2>3. received >= dataCount
        BY <1>1, <1>4 DEF Complete, Total, Clipped
    <2>4. AnsweredWhenComplete'
        BY <1>1, <1>2, <2>1, <2>3, RespondType DEF IInv, AnsweredWhenComplete, head
    <2>5. QED
        BY <1>2, <1>3, <2>1, <2>2, <2>4, RespondType
        DEF IInv, Counted, Clipped, LoopIsRect, head
<1>5. CASE ~Complete
    <2>1. pc' = "wait" /\ UNCHANGED <<responses, state>>
        BY <1>5 DEF BodyDone
    <2>2. TypeOK'
        BY <1>2, <1>3, <2>1 DEF IInv, TypeOK, head
    <2>3. received < dataCount /\ responses = 0
        BY <1>1, <1>5 DEF Complete, Total, Clipped
    <2>4. received' = received /\ dataCount' = dataCount /\ responses' = 0
        BY <1>2, <2>1, <2>3
    <2>5. AnsweredWhenComplete'
        BY <1>1, <2>3, <2>4 DEF AnsweredWhenComplete
    <2>6. Counted'
        BY <1>3, <2>1, <2>4 DEF Counted, Clipped
    <2>7. QED
        BY <2>1, <2>2, <2>5, <2>6 DEF IInv, LoopIsRect
<1>6. QED
    BY <1>4, <1>5

LEMMA EndStep == IInv /\ (OnSent \/ OnRemoteClose \/ UNCHANGED vars) => IInv'
<1> SUFFICES ASSUME IInv, OnSent \/ OnRemoteClose \/ UNCHANGED vars PROVE IInv'
    OBVIOUS
<1>1. UNCHANGED <<head, rect, state, fb, responses>>
    BY DEF OnSent, OnRemoteClose, vars
<1>2. pc' = "deleted" \/ pc' = pc
    BY DEF OnSent, OnRemoteClose, vars
<1>3. TypeOK'
    BY <1>1, <1>2 DEF IInv, TypeOK, head, rect
<1>4. UNCHANGED <<handlingUrl, dataCount, currentDataCount, len, received, responses>>
    BY <1>1 DEF head, rect
<1>5. CASE pc' = "deleted"
    BY <1>3, <1>5 DEF IInv, Counted, LoopIsRect, AnsweredWhenComplete
<1>6. CASE pc' = pc
    <2>1. Counted'
        BY <1>4, <1>6 DEF IInv, Counted, Clipped
    <2>2. QED
        BY <1>3, <1>4, <1>6, <2>1 DEF IInv, LoopIsRect, AnsweredWhenComplete
<1>7. QED
    BY <1>2, <1>5, <1>6

LEMMA Invariance == Spec => []IInv
<1>1. IInv /\ [Next]_vars => IInv'
    BY HeaderStep, DrawAtOnceStep, PrepareStep, OnBodyStep, LowByteStep,
       HighByteStep, BodyDoneStep, EndStep DEF Next
<1>2. QED
    BY InitIInv, <1>1, PTL DEF Spec

(* The counters and coordinates of MyConnection stay in their types, for   *)
(* any header values.                                                      *)
THEOREM DrawingTypes == Spec => []TypeOK
<1>1. IInv => TypeOK
    BY DEF IInv
<1>2. QED
    BY <1>1, Invariance, PTL

(* onBody (main.cpp:248-287) takes every byte up to the announced size and *)
(* none beyond it, however the body is cut.                                *)
THEOREM TakesWhatWasAnnounced == Spec => []BodyClipped
<1>1. IInv => BodyClipped
    BY DEF IInv, Counted, Clipped, BodyClipped
<1>2. QED
    BY <1>1, Invariance, PTL

(* A rectangle is answered when its last byte has come, and a second time  *)
(* only to a client that sends more than it announced.                     *)
THEOREM AnswersWithLastByte == Spec => []AnsweredWhenComplete
<1>1. IInv => AnsweredWhenComplete
    BY DEF IInv
<1>2. QED
    BY <1>1, Invariance, PTL

-----------------------------------------------------------------------------
(* Where the next pixel goes.  The bytes taken so far are Taken; the cell  *)
(* of pixel number Taken \div 2 is the one at currentX and currentY, which *)
(* is in the rectangle as long as a byte is missing.                       *)
Left == sent["X"]
Across == sent["Width"]
Down == sent["Height"]
Taken == currentDataCount + (IF pc = "loop" THEN i ELSE 0)

Untouched == [p \in Coords \X Coords |-> Old]

Heads ==
    /\ Left # Unset => x = Left
    /\ Across # Unset /\ ~colored => width = Across
    /\ Down # Unset => height = Down

Place ==
    Across > 0 =>
        \E row \in 0 .. Down, col \in 0 .. Across - 1 :
            /\ currentX = Left + col /\ currentY = Left + row
            /\ Taken \div 2 = row * Across + col

Half == Taken % 2 = 1 => currentColor = <<Taken - 1, Solid>>

InRect ==
    Sized(Left) /\ pc \in {"wait", "loop"} =>
        dataCount <= 2 * (Across * Down) /\ Place /\ Half

PaintInv ==
    /\ Heads
    /\ handlingUrl = "PutRect" /\ pc = "header" => fb = Untouched /\ currentDataCount = 0
    /\ InRect
    /\ PaintedRowByRow

LEMMA Products ==
    ASSUME NEW a \in Nat, NEW b \in Nat
    PROVE  a * b \in Nat /\ (a + 1) * b = a * b + b
OBVIOUS

LEMMA ProductsGrow ==
    ASSUME NEW a \in Nat, NEW b \in Nat, NEW w \in Nat, a <= b
    PROVE  a * w <= b * w
<1>1. PICK d \in Nat : b = a + d
    BY b - a \in Nat
<1>2. b * w = a * w + d * w
    BY <1>1
<1>3. d * w \in Nat /\ a * w \in Nat
    BY Products
<1>4. QED
    BY <1>2, <1>3

(* No two cells of a row order share a number.                             *)
LEMMA CellUnique ==
    ASSUME NEW w \in Nat, NEW a \in Nat, NEW b \in Nat,
           NEW c \in 0 .. w - 1, NEW d \in 0 .. w - 1, a * w + c = b * w + d
    PROVE  a = b /\ c = d
<1>1. a * w \in Nat /\ b * w \in Nat
    BY Products
<1>2. ~(a < b)
    <2>1. SUFFICES ASSUME a < b PROVE FALSE
        OBVIOUS
    <2>2. (a + 1) * w <= b * w
        BY <2>1, ProductsGrow
    <2>3. (a + 1) * w = a * w + w
        BY Products
    <2>4. QED
        BY <1>1, <2>2, <2>3
<1>3. ~(b < a)
    <2>1. SUFFICES ASSUME b < a PROVE FALSE
        OBVIOUS
    <2>2. (b + 1) * w <= a * w
        BY <2>1, ProductsGrow
    <2>3. (b + 1) * w = b * w + w
        BY Products
    <2>4. QED
        BY <1>1, <2>2, <2>3
<1>4. a = b
    BY <1>2, <1>3
<1>5. QED
    BY <1>1, <1>4

\* What Sized says of the headers.
Measured ==
    /\ Left # Unset /\ Across # Unset /\ Down # Unset /\ ~colored
    /\ Left + Across < Word /\ Left + Down < Word

LEMMA SizedMeasured == Sized(Left) <=> handlingUrl = "PutRect" /\ pc # "header" /\ Measured
BY DEF Sized, Measured, Left, Across, Down

LEMMA MeasuredFacts ==
    ASSUME IInv, Heads, Measured
    PROVE  /\ Left \in Nat /\ Across \in Nat /\ Down \in Nat /\ Word \in Nat
           /\ x = Left /\ width = Across /\ height = Down
           /\ Left + Across < Word /\ Left + Down < Word
           /\ Across * Down \in Nat
<1>1. "X" \in Keys /\ "Width" \in Keys /\ "Height" \in Keys
    BY DEF Keys
<1>2. Left \in Values /\ Across \in Values /\ Down \in Values
    BY <1>1 DEF IInv, TypeOK, Measured, Left, Across, Down
<1>3. Left \in Nat /\ Across \in Nat /\ Down \in Nat
    BY <1>2, ValuesAreCoords
<1>4. Across * Down \in Nat
    BY <1>3, Products
<1>5. QED
    BY <1>3, <1>4 DEF Heads, Measured

LEMMA PaintedNone == Measured /\ IInv /\ Heads => Painted(Left, 0) = Untouched
<1> SUFFICES ASSUME Measured, IInv, Heads, NEW p \in Coords \X Coords
             PROVE  Painted(Left, 0)[p] = Old
    BY DEF Painted, Untouched
<1> DEFINE col == p[1] - Left  row == p[2] - Left
<1>1. col \in Int /\ row \in Int /\ Across \in Nat
    BY MeasuredFacts, ValuesAreCoords DEF Coords
<1>2. col \in 0 .. Across - 1 /\ row >= 0 => ~(row * Across + col < 0)
    BY <1>1, Products
<1>3. QED
    BY <1>2 DEF Painted, Left, Across

(* One pixel more, in its place in the row order.                          *)
LEMMA OnePixel ==
    ASSUME IInv, Heads, Sized(Left),
           NEW n \in Nat, NEW row \in 0 .. Down, NEW col \in 0 .. Across - 1,
           n = row * Across + col, fb = Painted(Left, n),
           Paint(Left + col, Left + row, <<2 * n, 2 * n + 1>>)
    PROVE  fb' = Painted(Left, n + 1)
<1>1. /\ Left \in Nat /\ Across \in Nat /\ Down \in Nat /\ Word \in Nat
      /\ Left + Across < Word /\ Left + Down < Word
    BY SizedMeasured, MeasuredFacts
<1> DEFINE cell == <<Left + col, Left + row>>
<1>2. cell \in Coords \X Coords
    BY <1>1 DEF Coords
<1>3. fb' = [p \in Coords \X Coords |-> IF p = cell THEN <<2 * n, 2 * n + 1>> ELSE fb[p]]
    BY DEF Paint, Painted
<1>4. ASSUME NEW p \in Coords \X Coords
      PROVE  fb'[p] = Painted(Left, n + 1)[p]
    <2> DEFINE c == p[1] - Left  r == p[2] - Left  k == r * Across + c
    <2>1. c \in Int /\ r \in Int /\ p = <<p[1], p[2]>> /\ p[1] \in Int /\ p[2] \in Int
        BY <1>1 DEF Coords
    <2>2. \A m : Painted(Left, m)[p] = IF c \in 0 .. Across - 1 /\ r >= 0 /\ k < m
                                      THEN <<2 * k, 2 * k + 1>> ELSE Old
        BY DEF Painted, Left, Across
    <2>3. CASE p = cell
        <3>1. c = col /\ r = row
            BY <1>1, <2>3
        <3>2. k = n
            BY <3>1
        <3>3. Painted(Left, n + 1)[p] = <<2 * n, 2 * n + 1>>
            <4>1. c \in 0 .. Across - 1 /\ r >= 0 /\ k < n + 1
                BY <1>1, <3>1, <3>2
            <4>2. QED
                BY <2>2, <3>2, <4>1
        <3>4. QED
            BY <1>3, <2>3, <3>3
    <2>4. CASE p # cell
        <3>1. fb'[p] = Painted(Left, n)[p]
            BY <1>3, <2>4
        <3>2. c \in 0 .. Across - 1 /\ r >= 0 => k \in Nat /\ k # n
            <4>1. SUFFICES ASSUME c \in 0 .. Across - 1, r >= 0 PROVE k \in Nat /\ k # n
                OBVIOUS
            <4>2. r \in Nat /\ row \in Nat /\ r * Across \in Nat
                BY <1>1, <2>1, <4>1, Products
            <4>3. k \in Nat
                BY <4>1, <4>2
            <4>4. ASSUME k = n PROVE FALSE
                <5>1. r = row /\ c = col
                    <6>1. r * Across + c = row * Across + col
                        BY <4>4
                    <6> HIDE DEF r, c
                    <6>2. QED
                        BY <1>1, <4>1, <4>2, <6>1, CellUnique
                <5>2. p[1] = Left + col /\ p[2] = Left + row
                    BY <1>1, <2>1, <5>1
                <5>3. QED
                    BY <2>1, <2>4, <5>2
            <4>5. QED
                BY <4>3, <4>4
        <3>3. c \in 0 .. Across - 1 /\ r >= 0 => (k < n <=> k < n + 1)
            BY <3>2
        <3>4. QED
            BY <2>2, <3>1, <3>3
    <2>5. QED
        BY <2>3, <2>4
<1>5. QED
    BY <1>3, <1>4 DEF Painted

LEMMA PaintHeaderStep ==
    ASSUME IInv, PaintInv, NEW key \in Keys, NEW val \in Values, OnHeader(key, val)
    PROVE  PaintInv'
<1>1. pc = "header" /\ pc' = "header" /\ UNCHANGED <<handlingUrl, fb, currentDataCount>>
    BY DEF OnHeader, rect
<1>2. Heads'
    <2>1. /\ sent' = [sent EXCEPT ![key] = val]
          /\ sent \in [Keys -> Values \cup {Unset}]
          /\ "X" \in Keys /\ "Width" \in Keys /\ "Height" \in Keys
        BY DEF OnHeader, IInv, TypeOK, Keys
    <2>2. /\ sent'["X"] = IF key = "X" THEN val ELSE sent["X"]
          /\ sent'["Width"] = IF key = "Width" THEN val ELSE sent["Width"]
          /\ sent'["Height"] = IF key = "Height" THEN val ELSE sent["Height"]
        BY <2>1
    <2>3. QED
        BY <2>2 DEF OnHeader, PaintInv, Heads, Left, Across, Down
<1>3. QED
    BY <1>1, <1>2 DEF PaintInv, InRect, PaintedRowByRow, Sized, Untouched

\* Whatever is not a rectangle.
LEMMA PaintDrawStep == IInv /\ PaintInv /\ DrawAtOnce => PaintInv'
<1> SUFFICES ASSUME IInv, PaintInv, DrawAtOnce PROVE PaintInv'
    OBVIOUS
<1>1. UNCHANGED <<head, rect>> /\ handlingUrl # "PutRect"
    BY DEF DrawAtOnce
<1>2. Heads'
    BY <1>1 DEF PaintInv, Heads, head, Left, Across, Down
<1>3. handlingUrl' # "PutRect"
    BY <1>1 DEF head
<1>4. QED
    BY <1>2, <1>3 DEF PaintInv, InRect, PaintedRowByRow, Sized

LEMMA PaintPrepareStep == IInv /\ PaintInv /\ PrepareRect => PaintInv'
<1> SUFFICES ASSUME IInv, PaintInv, PrepareRect PROVE PaintInv'
    OBVIOUS
<1>1. /\ UNCHANGED <<handlingUrl, x, y, width, height, sent, colored, fb>>
      /\ pc' = "wait" /\ currentDataCount' = 0 /\ currentX' = x /\ currentY' = x
      /\ fb = Untouched
      /\ dataCount' = (width * height * 2) % (Word * Word)
    BY DEF PrepareRect, head, PaintInv
<1>2. Heads'
    BY <1>1 DEF PaintInv, Heads, Left, Across, Down
<1>3. Taken' = 0 /\ PixelsDone' = 0
    BY <1>1 DEF Taken, PixelsDone
<1>4. UNCHANGED <<Left, Across, Down>> /\ (Heads' => Heads)
    BY <1>1 DEF Left, Across, Down, Heads
<1>5. ASSUME Sized(Left)'
      PROVE  /\ Left \in Nat /\ Across \in Nat /\ Down \in Nat /\ Across * Down \in Nat
             /\ x = Left /\ width = Across /\ height = Down
             /\ Painted(Left, 0) = Untouched
    <2>1. Measured
        BY <1>1, <1>5 DEF Sized, Measured, Left, Across, Down
    <2>2. Heads
        BY DEF PaintInv
    <2>3. QED
        BY <2>1, <2>2, MeasuredFacts, PaintedNone
<1>6. InRect'
    <2>1. SUFFICES ASSUME Sized(Left)' PROVE (dataCount <= 2 * (Across * Down) /\ Place /\ Half)'
        BY DEF InRect
    <2>2. (dataCount <= 2 * (Across * Down))'
        <3>1. width * height * 2 = 2 * (Across * Down) /\ 2 * (Across * Down) \in Nat
            BY <1>5, <2>1
        <3>2. \A m \in Nat, n \in Nat \ {0} : m % n <= m
            OBVIOUS
        <3>3. Word * Word \in Nat \ {0}
            OBVIOUS
        <3>4. (width * height * 2) % (Word * Word) <= width * height * 2
            BY <3>1, <3>2, <3>3, Zenon
        <3>5. QED
            BY <1>1, <1>4, <3>1, <3>4
    <2>3. Place'
        <3>1. SUFFICES ASSUME Across > 0
              PROVE  \E row \in 0 .. Down, col \in 0 .. Across - 1 :
                        /\ x = Left + col /\ x = Left + row
                        /\ 0 \div 2 = row * Across + col
            BY <1>1, <1>3, <1>4 DEF Place
        <3>2. 0 \in 0 .. Down /\ 0 \in 0 .. Across - 1 /\ x = Left + 0 /\ 0 * Across + 0 = 0
            BY <1>5, <2>1, <3>1
        <3>3. 0 \div 2 = 0
            OBVIOUS
        <3>4. QED
            BY <3>2, <3>3
    <2>4. Half'
        BY <1>3 DEF Half
    <2>5. QED
        BY <2>2, <2>3, <2>4
<1>7. PaintedRowByRow'
    BY <1>1, <1>3, <1>4, <1>5 DEF PaintedRowByRow, Painted, Left, Across
<1>8. QED
    BY <1>1, <1>2, <1>6, <1>7 DEF PaintInv

\* Steps that only move on from one chunk to the next.
LEMMA PaintQuietStep ==
    ASSUME IInv, PaintInv, UNCHANGED <<head, dataCount, currentColor, currentX, currentY, fb>>,
           Taken' = Taken, pc # "header",
           pc' \in {"wait", "loop", "deleted"}, pc' = "deleted" \/ pc \in {"wait", "loop"}
    PROVE  PaintInv'
<1>1. UNCHANGED <<handlingUrl, x, y, width, height, sent, colored>>
    BY DEF head
<1>2. Heads' /\ UNCHANGED <<Left, Across, Down>>
    BY <1>1 DEF PaintInv, Heads, Left, Across, Down
<1>3. Sized(Left)' = Sized(Left)
    BY <1>1, <1>2 DEF Sized
<1>4. InRect'
    BY <1>2, <1>3 DEF PaintInv, InRect, Place, Half
<1>5. PixelsDone' = PixelsDone
    BY DEF PixelsDone, Taken
<1>6. PaintedRowByRow'
    BY <1>1, <1>2, <1>3, <1>5 DEF PaintInv, PaintedRowByRow, Painted, Left, Across
<1>7. QED
    BY <1>2, <1>4, <1>6 DEF PaintInv

\* A byte of the loop and what it is measured with.
LEMMA LoopFacts ==
    ASSUME IInv, PaintInv, pc = "loop", i < len, Sized(Left)
    PROVE  /\ Taken = i + currentDataCount /\ Taken \in Nat /\ Taken < dataCount
           /\ dataCount \in Nat /\ dataCount <= 2 * (Across * Down)
           /\ Place /\ Half /\ fb = Painted(Left, Taken \div 2)
<1>1. /\ i \in Nat /\ len \in Nat /\ currentDataCount \in Nat /\ dataCount \in Nat
      /\ received \in Nat /\ currentDataCount + len = Clipped
    BY DEF IInv, TypeOK, Counted, LoopIsRect
<1>2. QED
    BY <1>1 DEF Taken, Clipped, PaintInv, InRect, PaintedRowByRow, PixelsDone, Left

LEMMA PaintLowStep == IInv /\ PaintInv /\ LowByte => PaintInv'
<1> SUFFICES ASSUME IInv, PaintInv, LowByte PROVE PaintInv'
    OBVIOUS
<1>1. /\ UNCHANGED <<handlingUrl, x, y, width, height, sent, colored, dataCount,
                     currentDataCount, currentX, currentY, fb, pc>>
      /\ pc = "loop" /\ i < len /\ i' = i + 1
      /\ currentColor' = <<i + currentDataCount, Solid>>
      /\ (i + currentDataCount) % 2 = 0
    BY DEF LowByte, head
<1>2. Heads' /\ UNCHANGED <<Left, Across, Down>>
    BY <1>1 DEF PaintInv, Heads, Left, Across, Down
<1>3. Sized(Left)' = Sized(Left)
    BY <1>1, <1>2 DEF Sized
<1>4. ASSUME Sized(Left)
      PROVE  /\ (dataCount <= 2 * (Across * Down) /\ Place /\ Half)'
             /\ fb' = Painted(Left, Taken' \div 2)
    <2>1. /\ Taken = i + currentDataCount /\ Taken \in Nat
          /\ dataCount <= 2 * (Across * Down)
          /\ Place /\ fb = Painted(Left, Taken \div 2)
        BY <1>1, <1>4, LoopFacts
    <2>2. i \in Nat /\ currentDataCount \in Nat
        BY DEF IInv, TypeOK
    <2>3. Taken' = Taken + 1
        BY <1>1, <2>2 DEF Taken
    <2>4. Taken' \div 2 = Taken \div 2 /\ Taken' - 1 = Taken
        BY <1>1, <2>1, <2>3
    <2>5. Place'
        BY <1>1, <1>2, <2>1, <2>4 DEF Place
    <2>6. Half'
        BY <1>1, <2>1, <2>4 DEF Half
    <2>7. QED
        BY <1>1, <1>2, <2>1, <2>4, <2>5, <2>6
<1>5. PixelsDone' = Taken' \div 2
    BY DEF PixelsDone, Taken
<1>6. PaintedRowByRow'
    BY <1>1, <1>2, <1>3, <1>4, <1>5 DEF PaintedRowByRow, Painted, Left, Across
<1>7. QED
    BY <1>1, <1>2, <1>3, <1>4, <1>6 DEF PaintInv, InRect

(* The second byte of a pixel paints the cell whose turn it is; the next   *)
(* one is beside it, or the first of the next row.                         *)
LEMMA PaintHighStep == IInv /\ PaintInv /\ HighByte => PaintInv'
<1> SUFFICES ASSUME IInv, PaintInv, HighByte PROVE PaintInv'
    OBVIOUS
<1>1. /\ UNCHANGED <<handlingUrl, x, y, width, height, sent, colored, dataCount,
                     currentDataCount, pc>>
      /\ pc = "loop" /\ i < len /\ i' = i + 1
      /\ (i + currentDataCount) % 2 = 1
      /\ Paint(currentX, currentY, <<currentColor[1], i + currentDataCount>>)
      /\ IF (currentX + 1) % Word >= RowEnd
         THEN currentX' = x /\ currentY' = (currentY + 1) % Word
         ELSE currentX' = (currentX + 1) % Word /\ currentY' = currentY
    BY DEF HighByte, head
<1>2. Heads' /\ UNCHANGED <<Left, Across, Down>> /\ Heads
    BY <1>1 DEF PaintInv, Heads, Left, Across, Down
<1>3. Sized(Left)' = Sized(Left)
    BY <1>1, <1>2 DEF Sized
<1>4. ASSUME Sized(Left)
      PROVE  /\ (dataCount <= 2 * (Across * Down) /\ Place /\ Half)'
             /\ fb' = Painted(Left, Taken' \div 2)
    <2>1. /\ Taken = i + currentDataCount /\ Taken \in Nat /\ Taken < dataCount
          /\ dataCount \in Nat /\ dataCount <= 2 * (Across * Down)
          /\ Place /\ Half /\ fb = Painted(Left, Taken \div 2)
        BY <1>1, <1>4, LoopFacts
    <2>2. /\ Left \in Nat /\ Across \in Nat /\ Down \in Nat /\ Word \in Nat
          /\ x = Left /\ width = Across
          /\ Left + Across < Word /\ Left + Down < Word /\ Across * Down \in Nat
        BY <1>2, <1>4, SizedMeasured, MeasuredFacts
    <2>3. i \in Nat /\ currentDataCount \in Nat
        BY DEF IInv, TypeOK
    <2>4. Taken' = Taken + 1
        BY <1>1, <2>3 DEF Taken
    <2>5. PICK n \in Nat : n = Taken \div 2 /\ Taken = 2 * n + 1
        BY <1>1, <2>1
    <2>6. Taken' = 2 * (n + 1) /\ Taken' \div 2 = n + 1 /\ Taken' % 2 = 0
        BY <2>4, <2>5
    <2>7. Across > 0
        <3>1. Across = 0 => Across * Down = 0
            BY <2>2
        <3>2. QED
            BY <2>1, <2>2, <3>1
    <2>8. PICK row \in 0 .. Down, col \in 0 .. Across - 1 :
                currentX = Left + col /\ currentY = Left + row /\ n = row * Across + col
        BY <2>1, <2>5, <2>7 DEF Place
    <2>9. row * Across \in Nat /\ (row + 1) * Across = row * Across + Across
          /\ row \in Nat /\ col \in Nat
        BY <2>2, <2>8, Products
    <2>10. row < Down
        <3>1. n < Across * Down
            BY <2>1, <2>2, <2>5
        <3>2. Across * Down = Down * Across
            BY <2>2
        <3>3. row # Down
            BY <2>8, <2>9, <3>1, <3>2
        <3>4. QED
            BY <2>2, <3>3
    <2>11. currentColor[1] = 2 * n
        BY <2>1, <2>5 DEF Half
    <2>12. Paint(Left + col, Left + row, <<2 * n, 2 * n + 1>>)
        BY <1>1, <2>1, <2>5, <2>8, <2>11
    <2>13. fb' = Painted(Left, n + 1)
        BY <1>2, <1>4, <2>1, <2>5, <2>8, <2>12, OnePixel
    <2>14. (currentX + 1) % Word = Left + col + 1 /\ (currentY + 1) % Word = Left + row + 1
        BY <2>2, <2>8, <2>9, <2>10
    <2>15. Place'
        <3>1. CASE col + 1 = Across
            <4>1. currentX' = Left + 0 /\ currentY' = Left + (row + 1)
                BY <1>1, <2>2, <2>9, <2>14, <3>1 DEF RowEnd
            <4>2. n + 1 = (row + 1) * Across + 0
                BY <2>2, <2>8, <2>9, <3>1
            <4>3. row + 1 \in 0 .. Down /\ 0 \in 0 .. Across - 1
                BY <2>2, <2>7, <2>9, <2>10
            <4>4. QED
                BY <1>2, <2>6, <4>1, <4>2, <4>3 DEF Place
        <3>2. CASE col + 1 # Across
            <4>1. col + 1 \in 0 .. Across - 1
                BY <2>2, <2>9, <3>2
            <4>2. currentX' = Left + (col + 1) /\ currentY' = Left + row
                BY <1>1, <2>2, <2>8, <2>9, <2>14, <4>1 DEF RowEnd
            <4>3. n + 1 = row * Across + (col + 1)
                BY <2>8, <2>9
            <4>4. QED
                BY <1>2, <2>6, <4>1, <4>2, <4>3 DEF Place
        <3>3. QED
            BY <3>1, <3>2
    <2>16. Half'
        BY <2>6 DEF Half
    <2>17. QED
        BY <1>1, <1>2, <2>1, <2>6, <2>13, <2>15, <2>16
<1>5. PixelsDone' = Taken' \div 2
    BY DEF PixelsDone, Taken
<1>6. PaintedRowByRow'
    BY <1>1, <1>2, <1>3, <1>4, <1>5 DEF PaintedRowByRow, Painted, Left, Across
<1>7. QED
    BY <1>1, <1>2, <1>3, <1>4, <1>6 DEF PaintInv, InRect

LEMMA PaintEndStep == IInv /\ PaintInv /\ (OnSent \/ OnRemoteClose \/ UNCHANGED vars) => PaintInv'
<1> SUFFICES ASSUME IInv, PaintInv, OnSent \/ OnRemoteClose \/ UNCHANGED vars PROVE PaintInv'
    OBVIOUS
<1>1. UNCHANGED <<head, dataCount, currentDataCount, currentColor, currentX, currentY, i, fb>>
    BY DEF OnSent, OnRemoteClose, vars, rect
<1>2. UNCHANGED <<handlingUrl, x, y, width, height, sent, colored>>
    BY <1>1 DEF head
<1>3. CASE UNCHANGED pc
    BY <1>1, <1>2, <1>3 DEF PaintInv, Heads, Left, Across, Down, InRect, Place, Half, Taken,
                            PaintedRowByRow, PixelsDone, Sized, Painted, Untouched
<1>4. CASE pc = "wait" /\ pc' = "deleted"
    <2>1. Taken' = Taken
        BY <1>1, <1>4 DEF Taken
    <2>2. QED
        BY <1>1, <1>4, <2>1, PaintQuietStep
<1>5. CASE pc = "header" /\ pc' = "deleted"
    <2>1. Heads' /\ UNCHANGED <<Left, Across, Down>>
        BY <1>2 DEF PaintInv, Heads, Left, Across, Down
    <2>2. PaintedRowByRow'
        <3>1. SUFFICES ASSUME Sized(Left)' PROVE fb' = Painted(Left, PixelsDone)'
            BY DEF PaintedRowByRow, Left
        <3>2. Measured /\ handlingUrl = "PutRect"
            BY <1>2, <3>1 DEF Sized, Measured, Left, Across, Down
        <3>3. Painted(Left, 0) = Untouched
            BY <3>2, PaintedNone DEF PaintInv
        <3>4. fb' = Untouched /\ PixelsDone' = 0
            BY <1>1, <1>5, <3>2 DEF PaintInv, PixelsDone
        <3>5. Painted(Left, 0)' = Painted(Left, 0)
            BY <1>2 DEF Painted, Left
        <3>6. QED
            BY <2>1, <3>3, <3>4, <3>5 DEF Painted
    <2>3. QED
        BY <1>5, <2>1, <2>2 DEF PaintInv, InRect
<1>6. QED
    BY <1>3, <1>4, <1>5 DEF OnSent, OnRemoteClose, vars

LEMMA PaintStep == IInv /\ PaintInv /\ [Next]_vars => PaintInv'
<1> SUFFICES ASSUME IInv, PaintInv, [Next]_vars PROVE PaintInv'
    OBVIOUS
<1>1. CASE OnBody
    <2>1. currentDataCount \in Nat
        BY DEF IInv, TypeOK
    <2>2. Taken' = Taken
        BY <1>1, <2>1 DEF OnBody, Taken
    <2>3. QED
        BY <1>1, <2>2, PaintQuietStep DEF OnBody
<1>2. CASE BodyDone
    <2>1. currentDataCount \in Nat /\ len \in Nat
        BY DEF IInv, TypeOK
    <2>2. pc = "loop" /\ pc' \in {"wait", "deleted"}
        BY <1>2 DEF BodyDone, Respond
    <2>3. Taken' = Taken
        BY <1>2, <2>1, <2>2 DEF BodyDone, Taken, Total
    <2>4. UNCHANGED <<head, dataCount, currentColor, currentX, currentY, fb>>
        BY <1>2 DEF BodyDone
    <2>5. QED
        BY <2>2, <2>3, <2>4, PaintQuietStep
<1>3. QED
    BY <1>1, <1>2, PaintHeaderStep, PaintDrawStep, PaintPrepareStep, PaintLowStep,
       PaintHighStep, PaintEndStep DEF Next

(* The rectangle of onBody (main.cpp:248-287) is painted row by row from   *)
(* the column and at the size that were asked for, for any coordinates,    *)
(* any size and any way to cut the body, and no other cell is touched.     *)
THEOREM PaintsTheRectangle == Spec => []PaintedRowByRow
<1>1. Init => PaintInv
    <2>1. SUFFICES ASSUME Init PROVE PaintInv
        OBVIOUS
    <2>2. sent = [k \in Keys |-> Unset] /\ pc = "header" /\ currentDataCount = 0 /\ fb = Untouched
        BY <2>1 DEF Init, Untouched
    <2>3. "X" \in Keys /\ "Width" \in Keys /\ "Height" \in Keys
        BY DEF Keys
    <2>4. Left = Unset /\ Across = Unset /\ Down = Unset
        BY <2>2, <2>3 DEF Left, Across, Down
    <2>5. QED
        BY <2>2, <2>4 DEF PaintInv, Heads, InRect, PaintedRowByRow, Sized
<1>2. PaintInv => PaintedRowByRow
    BY DEF PaintInv
<1>3. QED
    BY Invariance, PaintStep, <1>1, <1>2, PTL DEF Spec
=============================================================================

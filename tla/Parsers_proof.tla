--------------------------- MODULE Parsers_proof ---------------------------
(***************************************************************************)
(* The two parsers of bytes from the network, each on its own.             *)
(*                                                                         *)
(* The HTTP parser, for any number of header lines, any body and any way   *)
(* to cut the request.  At is where in the stream the parser is.  The      *)
(* invariant says of every call how far the parser must have come to make  *)
(* it: the text of a header line occurs once in the request.               *)
(*                                                                         *)
(* The JSON parser, for documents of any length and depth.  The invariant  *)
(* sets the stack of states beside the symbols the grammar has left: every *)
(* open structure is a symbol and two or three entries, and what is above  *)
(* the last of them is one of eleven situations.                           *)
(***************************************************************************)
EXTENDS HttpParser, JsonParser, FiniteSetTheorems, WellFoundedInduction, TLAPS

(* A set of naturals has a least one: the form of induction used here.     *)
LEMMA Least ==
    ASSUME NEW T, T \subseteq Nat, T # {}
    PROVE  \E m \in T : \A k \in T : m <= k
<1> DEFINE R == OpToRel(<, Nat)
<1>1. IsWellFoundedOn(R, Nat)
    BY NatLessThanWellFounded
<1>2. \A x \in Nat, y \in Nat : x < y => <<x, y>> \in R
    BY DEF OpToRel
<1> HIDE DEF R
<1>3. PICK x \in T : \A y \in T : ~ (<<y, x>> \in R)
    BY <1>1, WFMin
<1>4. \A y \in T : ~(y < x)
    BY <1>2, <1>3
<1>5. \A y \in T : x <= y
    BY <1>4
<1> QED
    BY <1>5

(* Induction up to a bound, on the set of the numbers for which it holds.  *)
LEMMA UpTo ==
    ASSUME NEW N \in Nat, NEW P, 0 \in P, \A n \in 1 .. N : n - 1 \in P => n \in P
    PROVE  \A n \in 0 .. N : n \in P
<1> DEFINE T == {n \in 0 .. N : n \notin P}
<1> SUFFICES ASSUME T # {} PROVE FALSE
    OBVIOUS
<1>1. T \subseteq Nat
    OBVIOUS
<1> HIDE DEF T
<1>2. PICK m \in T : \A k \in T : m <= k
    BY <1>1, Least
<1> USE DEF T
<1>3. m \in 1 .. N
    BY <1>2
<1>4. m - 1 \in P
    BY <1>2, <1>3
<1> QED
    BY <1>3, <1>4

(* What is defined by its predecessor exists: G[n] makes number n of the   *)
(* one before.                                                             *)
LEMMA Recursion ==
    ASSUME NEW S, NEW b \in S, NEW N \in Nat, NEW G \in [1 .. N -> [S -> S]]
    PROVE  \E f \in [0 .. N -> S] : f[0] = b /\ \A n \in 1 .. N : f[n] = G[n][f[n - 1]]
<1> DEFINE Part(k, f) ==
               f \in [0 .. k -> S] /\ f[0] = b /\ \A n \in 1 .. k : f[n] = G[n][f[n - 1]]
           P == {k \in 0 .. N : \E f : Part(k, f)}
<1>1. 0 \in P
    <2>1. \E f : Part(0, f)
        <3>1. Part(0, [n \in 0 .. 0 |-> b])
            OBVIOUS
        <3> QED
            BY <3>1
    <2> HIDE DEF Part
    <2> QED
        BY <2>1
<1>2. ASSUME NEW n \in 1 .. N, n - 1 \in P PROVE n \in P
    <2>1. PICK f : Part(n - 1, f)
        BY <1>2
    <2> DEFINE g == [k \in 0 .. n |-> IF k < n THEN f[k] ELSE G[n][f[n - 1]]]
    <2>2. Part(n, g)
        <3>1. n \in Nat /\ n - 1 \in 0 .. n - 1 /\ f[n - 1] \in S
            BY <2>1
        <3>2. g \in [0 .. n -> S] /\ g[0] = b
            BY <2>1, <3>1
        <3>3. ASSUME NEW k \in 1 .. n PROVE g[k] = G[k][g[k - 1]]
            <4>1. CASE k < n
                <5>1. k \in 1 .. n - 1 /\ g[k] = f[k] /\ g[k - 1] = f[k - 1]
                    BY <3>1, <4>1
                <5> QED
                    BY <5>1, <2>1
            <4>2. CASE k = n
                <5>1. g[n] = G[n][f[n - 1]] /\ g[n - 1] = f[n - 1]
                    BY <3>1
                <5> QED
                    BY <5>1, <4>2
            <4> QED
                BY <4>1, <4>2, <3>1
        <3> QED
            BY <3>2, <3>3
    <2>3. \E h : Part(n, h)
        BY <2>2
    <2> HIDE DEF Part
    <2> QED
        BY <2>3
<1> HIDE DEF P
<1>3. N \in P
    <2>1. \A n \in 0 .. N : n \in P
        BY <1>1, <1>2, UpTo
    <2> QED
        BY <2>1
<1> QED
    BY <1>3 DEF P

-----------------------------------------------------------------------------
Kinds == {"text", "cr", "lf"}
Tokens == Kinds \X Nat \X Nat

BlankAt == 4 * Blank            \* where the empty line starts

LEMMA BlankIs == Blank \in Nat /\ Blank = NHeaders + 1 /\ BlankAt \in Nat /\ BlankAt = 4 * Blank
BY NHeadersAssumption DEF Blank, BlankAt

(* Line l is four tokens long, the empty one two.                          *)
LEMMA PreambleIs ==
    /\ Preamble \in Seq(Tokens) /\ Len(Preamble) = BlankAt + 2
    /\ \A l \in 0 .. NHeaders :
        /\ Preamble[4 * l + 1] = <<"text", l, 1>> /\ Preamble[4 * l + 2] = <<"text", l, 2>>
        /\ Preamble[4 * l + 3] = <<"cr", l, 0>> /\ Preamble[4 * l + 4] = <<"lf", l, 0>>
    /\ Preamble[BlankAt + 1] = <<"cr", Blank, 0>> /\ Preamble[BlankAt + 2] = <<"lf", Blank, 0>>
<1>1. \A l \in Nat, j \in 1 .. 4 : ((4 * l + j) - 1) \div 4 = l
    OBVIOUS
<1>2. ASSUME NEW l \in 0 .. Blank, NEW j \in 1 .. 4, 4 * l + j <= BlankAt + 2
      PROVE  Preamble[4 * l + j] = Line(l)[j]
    <2>1. l \in Nat /\ j \in Nat /\ 4 * l + j \in 1 .. 4 * Blank + 2 /\ (4 * l + j) - 4 * l = j
        BY <1>2, BlankIs
    <2>2. ((4 * l + j) - 1) \div 4 = l
        BY <1>1, <2>1
    <2> QED
        BY <2>1, <2>2 DEF Preamble
<1>3. \A l \in 0 .. NHeaders : l \in 0 .. Blank /\ l # Blank /\ 4 * l + 4 <= BlankAt
    BY BlankIs, NHeadersAssumption
<1>4. ASSUME NEW l \in 0 .. NHeaders
      PROVE  /\ Preamble[4 * l + 1] = <<"text", l, 1>> /\ Preamble[4 * l + 2] = <<"text", l, 2>>
             /\ Preamble[4 * l + 3] = <<"cr", l, 0>> /\ Preamble[4 * l + 4] = <<"lf", l, 0>>
    <2>1. l \in 0 .. Blank /\ l # Blank /\ l \in Nat /\ BlankAt \in Nat /\ 4 * l + 4 <= BlankAt
        BY <1>3, BlankIs
    <2>2. Line(l)[1] = <<"text", l, 1>> /\ Line(l)[2] = <<"text", l, 2>>
          /\ Line(l)[3] = <<"cr", l, 0>> /\ Line(l)[4] = <<"lf", l, 0>>
        BY <2>1 DEF Line
    <2>3. 4 * l + 1 <= BlankAt + 2 /\ 4 * l + 2 <= BlankAt + 2
          /\ 4 * l + 3 <= BlankAt + 2 /\ 4 * l + 4 <= BlankAt + 2
        BY <2>1
    <2> QED
        BY <1>2, <2>1, <2>2, <2>3
<1>5. Preamble[BlankAt + 1] = <<"cr", Blank, 0>> /\ Preamble[BlankAt + 2] = <<"lf", Blank, 0>>
    <2>1. Line(Blank)[1] = <<"cr", Blank, 0>> /\ Line(Blank)[2] = <<"lf", Blank, 0>>
        BY DEF Line
    <2> QED
        BY <1>2, <2>1, BlankIs
<1>6. Preamble \in Seq(Tokens) /\ Len(Preamble) = BlankAt + 2
    <2>1. ASSUME NEW n \in 1 .. BlankAt + 2 PROVE Preamble[n] \in Tokens
        <3> DEFINE l == (n - 1) \div 4
        <3>1. l \in Nat /\ n \in Nat /\ n - 4 * l \in 1 .. 4
            BY BlankIs
        <3>2. l <= NHeaders \/ (l = Blank /\ n - 4 * l \in 1 .. 2)
            BY BlankIs, NHeadersAssumption
        <3> HIDE DEF l
        <3>3. l \in 0 .. Blank /\ Preamble[n] = Line(l)[n - 4 * l]
            BY <1>2, <3>1, <3>2, BlankIs, NHeadersAssumption
        <3>4. \A i \in 1 .. 4 : l # Blank => Line(l)[i] \in Tokens
            BY <3>1 DEF Line, Tokens, Kinds
        <3>5. \A i \in 1 .. 2 : Line(Blank)[i] \in Tokens
            BY BlankIs DEF Line, Tokens, Kinds
        <3>6. CASE l <= NHeaders
            <4>1. l # Blank
                BY <3>1, <3>6, BlankIs, NHeadersAssumption
            <4> QED
                BY <3>1, <3>3, <3>4, <4>1
        <3>7. CASE l = Blank /\ n - 4 * l \in 1 .. 2
            BY <3>3, <3>5, <3>7
        <3> QED
            BY <3>2, <3>6, <3>7
    <2>2. BlankAt + 2 \in Nat
        BY BlankIs
    <2>3. Preamble = [n \in 1 .. BlankAt + 2 |-> Preamble[n]]
        BY DEF Preamble, BlankAt
    <2> QED
        BY <2>1, <2>2, <2>3
<1> QED
    BY <1>4, <1>5, <1>6

(* What a client sends: the lines, then bytes that belong to none.         *)
LEMMA RequestIs ==
    ASSUME NEW s \in Requests
    PROVE  /\ s \in Seq(Tokens) /\ Len(s) \in Nat /\ Len(s) >= BlankAt + 2
           /\ \A n \in 1 .. BlankAt + 2 : s[n] = Preamble[n]
           /\ \A n \in 1 .. Len(s) : n > BlankAt + 2 => s[n][2] = Blank + 1
<1>1. PICK kinds \in UNION {[1 .. n -> Kinds] : n \in 0 .. NBody} : s = Preamble \o Body(kinds)
    BY DEF Requests, Kinds
<1>2. PICK m \in 0 .. NBody : kinds \in [1 .. m -> Kinds]
    BY <1>1
<1>3. m \in Nat /\ kinds \in Seq(Kinds) /\ Len(kinds) = m
    BY <1>2, NBodyAssumption
<1>4. \A n \in 1 .. m : Body(kinds)[n] \in Tokens /\ Body(kinds)[n][2] = Blank + 1
    BY <1>2, <1>3, BlankIs DEF Body, Tokens
<1>5. Body(kinds) \in Seq(Tokens) /\ Len(Body(kinds)) = m
    BY <1>3, <1>4 DEF Body
<1> DEFINE b == Body(kinds)
<1> HIDE DEF b
<1>6. s = Preamble \o b /\ b \in Seq(Tokens) /\ Len(b) = m /\ \A n \in 1 .. m : b[n][2] = Blank + 1
    BY <1>1, <1>4, <1>5 DEF b
<1>7. BlankAt + 2 \in Nat /\ Preamble \in Seq(Tokens) /\ Len(Preamble) = BlankAt + 2
    BY BlankIs, PreambleIs
<1>8. s \in Seq(Tokens) /\ Len(s) = BlankAt + 2 + m
    <2> DEFINE q == Preamble
    <2>1. q \in Seq(Tokens) /\ Len(q) = BlankAt + 2 /\ s = q \o b
        BY <1>6, <1>7
    <2> HIDE DEF q
    <2>2. s \in Seq(Tokens)
        BY <1>6, <2>1
    <2>3. Len(q \o b) = Len(q) + Len(b)
        <3>1. \A x, y \in Seq(Tokens) : Len(x \o y) = Len(x) + Len(y)
            OBVIOUS
        <3> QED
            BY <1>6, <2>1, <3>1
    <2> QED
        BY <1>6, <2>1, <2>2, <2>3
<1>9. \A n \in 1 .. BlankAt + 2 : s[n] = Preamble[n]
    BY <1>3, <1>6, <1>7
<1>10. ASSUME NEW n \in 1 .. Len(s), n > BlankAt + 2 PROVE s[n][2] = Blank + 1
    <2>1. s[n] = b[n - (BlankAt + 2)] /\ n - (BlankAt + 2) \in 1 .. m
        BY <1>3, <1>6, <1>7, <1>8, <1>10
    <2> QED
        BY <1>6, <2>1
<1> QED
    BY <1>3, <1>7, <1>8, <1>9, <1>10

LEMMA LinesOf ==
    ASSUME NEW s \in Requests
    PROVE  /\ \A l \in 0 .. NHeaders :
                /\ s[4 * l + 1] = <<"text", l, 1>> /\ s[4 * l + 2] = <<"text", l, 2>>
                /\ s[4 * l + 3] = <<"cr", l, 0>> /\ s[4 * l + 4] = <<"lf", l, 0>>
           /\ s[BlankAt + 1] = <<"cr", Blank, 0>> /\ s[BlankAt + 2] = <<"lf", Blank, 0>>
<1>1. \A n \in 1 .. BlankAt + 2 : s[n] = Preamble[n]
    BY RequestIs
<1>2. \A l \in 0 .. NHeaders : \A j \in 1 .. 4 : 4 * l + j \in 1 .. BlankAt + 2
    BY BlankIs, NHeadersAssumption
<1>3. BlankAt + 1 \in 1 .. BlankAt + 2 /\ BlankAt + 2 \in 1 .. BlankAt + 2
    BY BlankIs
<1>4. 1 \in 1 .. 4 /\ 2 \in 1 .. 4 /\ 3 \in 1 .. 4 /\ 4 \in 1 .. 4
    OBVIOUS
<1> QED
    BY <1>1, <1>2, <1>3, <1>4, PreambleIs

(* Any token of a request is in a line, at one of four places, in the      *)
(* empty line or in the body.                                              *)
LEMMA Places ==
    ASSUME NEW s \in Requests, NEW n \in 1 .. Len(s)
    PROVE  \/ \E l \in 0 .. NHeaders, j \in 1 .. 4 : n = 4 * l + j
           \/ n = BlankAt + 1 \/ n = BlankAt + 2 \/ n > BlankAt + 2
<1>1. n \in Nat
    BY RequestIs
<1> DEFINE l == (n - 1) \div 4
<1>2. l \in Nat /\ n - 4 * l \in 1 .. 4 /\ n = 4 * l + (n - 4 * l)
    BY <1>1
<1>3. l <= NHeaders \/ n >= BlankAt + 1
    BY <1>1, BlankIs, NHeadersAssumption
<1> HIDE DEF l
<1>4. CASE l <= NHeaders
    <2>1. l \in 0 .. NHeaders
        BY <1>2, <1>4, NHeadersAssumption
    <2> QED
        BY <1>2, <2>1
<1>5. CASE n >= BlankAt + 1
    BY <1>1, <1>5, BlankIs
<1> QED
    BY <1>3, <1>4, <1>5

(* The text of a line is found in one place only.                          *)
LEMMA TextOnce ==
    ASSUME NEW s \in Requests, NEW n \in 1 .. Len(s), NEW l \in 0 .. NHeaders,
           s[n] = <<"text", l, 1>>
    PROVE  n = 4 * l + 1
<1>1. l \in Nat /\ l < Blank /\ n \in Nat /\ BlankAt \in Nat
    BY BlankIs, NHeadersAssumption
<1>2. CASE \E k \in 0 .. NHeaders, j \in 1 .. 4 : n = 4 * k + j
    <2>1. PICK k \in 0 .. NHeaders, j \in 1 .. 4 : n = 4 * k + j
        BY <1>2
    <2>2. /\ s[4 * k + 1] = <<"text", k, 1>> /\ s[4 * k + 2] = <<"text", k, 2>>
          /\ s[4 * k + 3] = <<"cr", k, 0>> /\ s[4 * k + 4] = <<"lf", k, 0>>
        BY LinesOf
    <2>3. s[n][1] = "text" /\ s[n][2] = l /\ s[n][3] = 1
        OBVIOUS
    <2>4. j = 1 \/ j = 2 \/ j = 3 \/ j = 4
        OBVIOUS
    <2>5. j = 1 /\ k = l
        BY <2>1, <2>2, <2>3, <2>4
    <2> QED
        BY <2>1, <2>5
<1>3. CASE n = BlankAt + 1 \/ n = BlankAt + 2
    BY <1>1, <1>3, LinesOf
<1>4. CASE n > BlankAt + 2
    BY <1>1, <1>4, RequestIs, BlankIs
<1> QED
    BY <1>2, <1>3, <1>4, Places

(* A line ends where its number says, and nowhere else.                    *)
LEMMA LfOnce ==
    ASSUME NEW s \in Requests, NEW n \in 1 .. Len(s), NEW l \in 0 .. Blank,
           s[n] = <<"lf", l, 0>>
    PROVE  n = IF l = Blank THEN BlankAt + 2 ELSE 4 * l + 4
<1>1. l \in Nat /\ l <= Blank /\ n \in Nat /\ BlankAt \in Nat /\ Blank = NHeaders + 1 /\ NHeaders \in Nat
    BY BlankIs, NHeadersAssumption
<1>2. CASE \E k \in 0 .. NHeaders, j \in 1 .. 4 : n = 4 * k + j
    <2>1. PICK k \in 0 .. NHeaders, j \in 1 .. 4 : n = 4 * k + j
        BY <1>2
    <2>2. /\ s[4 * k + 1] = <<"text", k, 1>> /\ s[4 * k + 2] = <<"text", k, 2>>
          /\ s[4 * k + 3] = <<"cr", k, 0>> /\ s[4 * k + 4] = <<"lf", k, 0>>
        BY LinesOf
    <2>3. s[n][1] = "lf" /\ s[n][2] = l /\ s[n][3] = 0
        OBVIOUS
    <2>4. j = 1 \/ j = 2 \/ j = 3 \/ j = 4
        OBVIOUS
    <2>5. j = 4 /\ k = l
        BY <2>1, <2>2, <2>3, <2>4
    <2> QED
        BY <1>1, <2>1, <2>5
<1>3. CASE n = BlankAt + 1 \/ n = BlankAt + 2
    <2>1. s[n][1] = "lf" /\ s[n][2] = l
        OBVIOUS
    <2>2. s[BlankAt + 1][1] = "cr" /\ s[BlankAt + 2][2] = Blank
        BY LinesOf
    <2>3. n = BlankAt + 2 /\ l = Blank
        BY <1>3, <2>1, <2>2
    <2> QED
        BY <2>3
<1>4. CASE n > BlankAt + 2
    BY <1>1, <1>4, RequestIs, BlankIs
<1> QED
    BY <1>2, <1>3, <1>4, Places

-----------------------------------------------------------------------------
Crlf == <<"cr", "lf">>
Found == [match : 0 .. 1, found : Nat]

LEMMA ComparedType ==
    ASSUME NEW s \in Found, NEW c, NEW n \in Nat \ {0}
    PROVE  Compared(s, c, Crlf, n) \in Found
<1>1. Len(Crlf) = 2 /\ (n - 2) + 1 \in Nat
    BY DEF Crlf
<1> QED
    BY <1>1 DEF Compared, Found

Turns(run, data) ==
    /\ run \in [0 .. Len(data) -> Found]
    /\ run[0] = [match |-> 0, found |-> 0]
    /\ \A n \in 1 .. Len(data) : run[n] = Compared(run[n - 1], data[n][1], Crlf, n)

(* The loop of findLineEnd runs: the function it is defined by exists.     *)
LEMMA LoopRuns ==
    ASSUME NEW data \in Seq(Tokens)
    PROVE  \E run : Turns(run, data) /\ LineEnd(data) = run[Len(data)].found
<1> DEFINE N == Len(data)
           start == [match |-> 0, found |-> 0]
           G == [n \in 1 .. N |-> [s \in Found |-> Compared(s, data[n][1], Crlf, n)]]
           Comes(run) == run = [n \in 0 .. N |->
                          IF n = 0 THEN start ELSE Compared(run[n - 1], data[n][1], Crlf, n)]
<1>1. N \in Nat /\ start \in Found /\ G \in [1 .. N -> [Found -> Found]]
    <2>1. N \in Nat /\ start \in Found
        <3>1. N \in Nat
            OBVIOUS
        <3>2. start \in Found
            BY DEF Found
        <3> QED
            BY <3>1, <3>2
    <2>2. ASSUME NEW n \in 1 .. N, NEW s \in Found
          PROVE  Compared(s, data[n][1], Crlf, n) \in Found
        <3>1. n \in Nat \ {0}
            BY <2>1
        <3> QED
            BY <3>1, ComparedType
    <2> HIDE DEF N, start
    <2> QED
        BY <2>1, <2>2
<1>2. \E run : Comes(run)
    <2> HIDE DEF G, N, start
    <2>1. PICK run \in [0 .. N -> Found] :
              run[0] = start /\ \A n \in 1 .. N : run[n] = G[n][run[n - 1]]
        BY <1>1, Recursion
    <2>2. ASSUME NEW n \in 1 .. N PROVE run[n] = Compared(run[n - 1], data[n][1], Crlf, n)
        <3>1. n - 1 \in 0 .. N /\ run[n - 1] \in Found
            BY <1>1, <2>1
        <3>2. G[n][run[n - 1]] = Compared(run[n - 1], data[n][1], Crlf, n)
            BY <3>1 DEF G
        <3> QED
            BY <2>1, <3>2
    <2>3. Comes(run)
        BY <2>1, <2>2
    <2> QED
        BY <2>3
<1>3. LineEnd(data) = (CHOOSE run : Comes(run))[N].found
    BY DEF LineEnd, FindSubStr, Crlf
<1>4. PICK run : Comes(run) /\ LineEnd(data) = run[N].found
    BY <1>2, <1>3
<1> HIDE DEF G, N, start
<1>5. run[0] = start /\ \A n \in 1 .. N : run[n] = Compared(run[n - 1], data[n][1], Crlf, n)
    BY <1>1, <1>4
<1>6. \A n \in 0 .. N : run[n] \in Found
    <2> DEFINE P == {n \in 0 .. N : run[n] \in Found}
    <2>1. 0 \in P
        BY <1>1, <1>5
    <2>2. ASSUME NEW n \in 1 .. N, n - 1 \in P PROVE n \in P
        <3>1. run[n - 1] \in Found /\ n \in Nat \ {0}
            BY <1>1, <2>2
        <3>2. Compared(run[n - 1], data[n][1], Crlf, n) \in Found
            BY <3>1, ComparedType
        <3> QED
            BY <1>1, <1>5, <3>2
    <2> HIDE DEF P
    <2>3. \A n \in 0 .. N : n \in P
        BY <1>1, <2>1, <2>2, UpTo
    <2> QED
        BY <2>3 DEF P
<1>7. Turns(run, data)
    BY <1>1, <1>4, <1>5, <1>6 DEF Turns, N, start
<1> QED
    BY <1>4, <1>7 DEF N

(* An end of line is found within the data, LF and all.                    *)
LEMMA EndWithin ==
    ASSUME NEW data \in Seq(Tokens)
    PROVE  LineEnd(data) \in Nat /\ (LineEnd(data) > 0 => LineEnd(data) + 1 <= Len(data))
<1>1. PICK run : Turns(run, data) /\ LineEnd(data) = run[Len(data)].found
    BY LoopRuns
<1> DEFINE P == {n \in 0 .. Len(data) :
                    /\ run[n].match = 1 => n >= 1
                    /\ run[n].found > 0 => run[n].found + 1 <= n}
<1>2. Len(data) \in Nat /\ Len(Crlf) = 2
    BY DEF Crlf
<1>3. 0 \in P
    BY <1>1, <1>2 DEF Turns
<1>4. ASSUME NEW n \in 1 .. Len(data), n - 1 \in P PROVE n \in P
    <2>1. run[n] = Compared(run[n - 1], data[n][1], Crlf, n) /\ run[n - 1] \in Found
        BY <1>1, <1>2 DEF Turns
    <2>2. (n - 2) + 1 = n - 1 /\ n >= 1 /\ n \in Nat
        BY <1>2
    <2>3. run[n - 1].found \in Nat
        BY <2>1 DEF Found
    <2> QED
        BY <1>2, <1>4, <2>1, <2>2, <2>3 DEF Compared
<1> HIDE DEF P
<1>5. \A n \in 0 .. Len(data) : n \in P
    BY <1>2, <1>3, <1>4, UpTo
<1>6. Len(data) \in P /\ run[Len(data)] \in Found
    BY <1>1, <1>2, <1>5 DEF Turns
<1> QED
    BY <1>1, <1>2, <1>6 DEF P, Found

(* The end of line found is the first CR, when an LF follows it.           *)
LEMMA EndFound ==
    ASSUME NEW data \in Seq(Tokens), NEW e \in Nat \ {0}, e + 1 <= Len(data),
           data[e][1] = "cr", data[e + 1][1] = "lf",
           \A k \in 1 .. e - 1 : data[k][1] # "cr"
    PROVE  LineEnd(data) = e
<1>1. PICK run : Turns(run, data) /\ LineEnd(data) = run[Len(data)].found
    BY LoopRuns
<1> DEFINE Due(n) == IF n < e THEN [match |-> 0, found |-> 0]
                     ELSE IF n = e THEN [match |-> 1, found |-> 0]
                     ELSE [match |-> 0, found |-> e]
           P == {n \in 0 .. Len(data) : run[n] = Due(n)}
<1>2. Len(data) \in Nat /\ Len(Crlf) = 2 /\ Crlf[1] = "cr" /\ Crlf[2] = "lf"
    BY DEF Crlf
<1>3. 0 \in P
    BY <1>1, <1>2 DEF Turns
<1>4. ASSUME NEW n \in 1 .. Len(data), n - 1 \in P PROVE n \in P
    <2>1. run[n] = Compared(Due(n - 1), data[n][1], Crlf, n)
        BY <1>1, <1>4 DEF Turns
    <2>2. n \in Nat /\ n >= 1 /\ n <= Len(data)
        BY <1>2
    <2>3. CASE n < e
        <3>1. Due(n - 1) = [match |-> 0, found |-> 0] /\ n \in 1 .. e - 1
            BY <2>2, <2>3
        <3>2. data[n][1] # "cr" /\ Due(n) = [match |-> 0, found |-> 0]
            BY <2>3, <3>1
        <3> HIDE DEF Due
        <3>3. run[n] = Due(n)
            BY <1>2, <2>1, <3>1, <3>2 DEF Compared
        <3> QED
            BY <3>3
    <2>4. CASE n = e
        <3>1. Due(n - 1) = [match |-> 0, found |-> 0] /\ Due(n) = [match |-> 1, found |-> 0]
            BY <2>2, <2>4
        <3> HIDE DEF Due
        <3>2. run[n] = Due(n)
            BY <1>2, <2>1, <2>4, <3>1 DEF Compared
        <3> QED
            BY <3>2
    <2>5. CASE n = e + 1
        <3>1. Due(n - 1) = [match |-> 1, found |-> 0] /\ Due(n) = [match |-> 0, found |-> e]
              /\ (n - 2) + 1 = e
            BY <2>2, <2>5
        <3> HIDE DEF Due
        <3>2. run[n] = Due(n)
            BY <1>2, <2>1, <2>5, <3>1 DEF Compared
        <3> QED
            BY <3>2
    <2>6. CASE n > e + 1
        <3>1. Due(n - 1) = [match |-> 0, found |-> e] /\ Due(n) = [match |-> 0, found |-> e]
            BY <2>2, <2>6
        <3> HIDE DEF Due
        <3>2. run[n] = Due(n)
            BY <2>1, <3>1 DEF Compared
        <3> QED
            BY <3>2
    <2> QED
        BY <2>2, <2>3, <2>4, <2>5, <2>6
<1> HIDE DEF P
<1>5. \A n \in 0 .. Len(data) : n \in P
    BY <1>2, <1>3, <1>4, UpTo
<1>6. run[Len(data)] = Due(Len(data))
    BY <1>2, <1>5 DEF P
<1> QED
    BY <1>1, <1>2, <1>6

(* What is found at the start of a line that is there as a whole.          *)
LEMMA LineThere ==
    ASSUME NEW s \in Requests, NEW l \in 0 .. NHeaders, NEW p \in Nat,
           p >= 4 * l + 4, p <= Len(s)
    PROVE  LET data == SubSeq(s, 4 * l + 1, p)
           IN  LineEnd(data) = 3 /\ Content(data) = Text(l)
<1> DEFINE data == SubSeq(s, 4 * l + 1, p)
<1>1. s \in Seq(Tokens) /\ Len(s) \in Nat /\ l \in Nat
    BY RequestIs, NHeadersAssumption
<1>2. data \in Seq(Tokens) /\ Len(data) = p - 4 * l
      /\ \A i \in 1 .. p - 4 * l : data[i] = s[4 * l + i]
    BY <1>1
<1>3. /\ s[4 * l + 1] = <<"text", l, 1>> /\ s[4 * l + 2] = <<"text", l, 2>>
      /\ s[4 * l + 3] = <<"cr", l, 0>> /\ s[4 * l + 4] = <<"lf", l, 0>>
    BY LinesOf
<1> HIDE DEF data
<1>4. data[1] = <<"text", l, 1>> /\ data[2] = <<"text", l, 2>>
      /\ data[3] = <<"cr", l, 0>> /\ data[4] = <<"lf", l, 0>>
    BY <1>1, <1>2, <1>3
<1>5. LineEnd(data) = 3
    <2>1. \A k \in 1 .. 3 - 1 : k = 1 \/ k = 2
        OBVIOUS
    <2>2. \A k \in 1 .. 3 - 1 : data[k][1] # "cr"
        BY <1>4, <2>1
    <2>3. 3 \in Nat \ {0} /\ 3 + 1 <= Len(data) /\ data[3][1] = "cr" /\ data[3 + 1][1] = "lf"
        BY <1>1, <1>2, <1>4
    <2> QED
        BY <1>2, <2>2, <2>3, EndFound
<1>6. Content(data) = Text(l)
    <2>1. Content(data) = SubSeq(data, 1, 2)
        BY <1>5 DEF Content
    <2>2. SubSeq(data, 1, 2) = <<data[1], data[2]>>
        <3>1. SubSeq(data, 1, 2) \in Seq(Tokens) /\ Len(SubSeq(data, 1, 2)) = 2
              /\ SubSeq(data, 1, 2)[1] = data[1] /\ SubSeq(data, 1, 2)[2] = data[2]
            BY <1>1, <1>2
        <3>2. \A q \in Seq(Tokens) : Len(q) = 2 => q = <<q[1], q[2]>>
            OBVIOUS
        <3> QED
            BY <3>1, <3>2
    <2> QED
        BY <1>4, <2>1, <2>2 DEF Text
<1> QED
    BY <1>5, <1>6 DEF data

LEMMA BlankThere ==
    ASSUME NEW s \in Requests, NEW p \in Nat, p >= BlankAt + 2, p <= Len(s)
    PROVE  LineEnd(SubSeq(s, BlankAt + 1, p)) = 1
<1> DEFINE data == SubSeq(s, BlankAt + 1, p)
<1>1. s \in Seq(Tokens) /\ Len(s) \in Nat /\ BlankAt \in Nat
    BY RequestIs, BlankIs
<1>2. data \in Seq(Tokens) /\ Len(data) = p - BlankAt
      /\ \A i \in 1 .. p - BlankAt : data[i] = s[BlankAt + i]
    BY <1>1
<1>3. s[BlankAt + 1] = <<"cr", Blank, 0>> /\ s[BlankAt + 2] = <<"lf", Blank, 0>>
    BY LinesOf
<1> HIDE DEF data
<1>4. data[1] = <<"cr", Blank, 0>> /\ data[2] = <<"lf", Blank, 0>>
    BY <1>1, <1>2, <1>3
<1>5. 1 \in Nat \ {0} /\ 1 + 1 <= Len(data) /\ data[1][1] = "cr" /\ data[1 + 1][1] = "lf"
      /\ 1 .. 1 - 1 = {}
    BY <1>1, <1>2, <1>4
<1>6. LineEnd(data) = 1
    BY <1>2, <1>5, EndFound
<1> QED
    BY <1>6 DEF data

-----------------------------------------------------------------------------
At == pos - Len(chunk)

CutInv ==
    /\ stream \in Requests
    /\ pos \in 0 .. Len(stream)
    /\ At \in 0 .. pos /\ chunk = SubSeq(stream, At + 1, pos)
    /\ state \in {"Connected", "ParsingRequest", "ParsingHeader", "Body"}
    /\ IF pc = "wait" THEN chunk = <<>> ELSE state # "Connected" /\ pc = Entry(state)
    /\ calls \in Seq(0 .. Garbled)
    /\ whole \in BOOLEAN

OrderInv ==
    /\ state \in {"Connected", "ParsingRequest"} => calls = <<>>
    /\ \A n \in 1 .. Len(calls) :
        /\ calls[n] = 0 => n = 1
        /\ calls[n] \in 1 .. NHeaders => 4 * (calls[n] + 1) <= At
        /\ calls[n] = Done => n = Len(calls) /\ state = "Body"
    /\ HeadersInOrder

BodyInv ==
    IF state = "Body" THEN bodyAt \in 0 .. At /\ body = SubSeq(stream, bodyAt + 1, At)
    ELSE body = <<>>

WholeInv ==
    /\ state = "Connected" => pos = 0
    /\ state = "ParsingRequest" => At = 0 /\ pos > 0 /\ pc = "request"
    /\ state = "ParsingHeader" => Len(calls) \in 1 .. Blank /\ At = 4 * Len(calls)
    /\ state = "Body" => Len(calls) = Blank + 1 /\ bodyAt = 4 * Blank + 2
    /\ \A n \in 1 .. Len(calls) : calls[n] = n - 1
    /\ pos < 4 * Blank + 2 => \E k \in 0 .. Blank : pos = 4 * k

HttpInv == CutInv /\ OrderInv /\ BodyInv /\ (whole => WholeInv)

LEMMA CutFacts ==
    ASSUME CutInv
    PROVE  /\ stream \in Seq(Tokens) /\ Len(stream) \in Nat /\ Len(stream) >= BlankAt + 2
           /\ pos \in Nat /\ pos <= Len(stream)
           /\ chunk \in Seq(Tokens) /\ Len(chunk) \in Nat /\ At \in Nat /\ At + Len(chunk) = pos
           /\ \A i \in 1 .. Len(chunk) : chunk[i] = stream[At + i]
           /\ LineEnd(chunk) \in Nat /\ (LineEnd(chunk) > 0 => LineEnd(chunk) + 1 <= Len(chunk))
<1>1. stream \in Seq(Tokens) /\ Len(stream) \in Nat /\ Len(stream) >= BlankAt + 2
    BY RequestIs DEF CutInv
<1>2. pos \in 0 .. Len(stream) /\ At \in 0 .. pos /\ chunk = SubSeq(stream, At + 1, pos)
    BY DEF CutInv
<1>3. pos \in Nat /\ pos <= Len(stream) /\ At \in Nat /\ At <= pos
    BY <1>1, <1>2
<1>4. chunk \in Seq(Tokens) /\ Len(chunk) = pos - At
      /\ \A i \in 1 .. pos - At : chunk[i] = stream[At + i]
    BY <1>1, <1>2, <1>3
<1>5. Len(chunk) \in Nat /\ At + Len(chunk) = pos
    BY <1>3, <1>4
<1> QED
    BY <1>1, <1>3, <1>4, <1>5, EndWithin

LEMMA StateOf ==
    ASSUME CutInv
    PROVE  /\ pc \in {"wait", "request", "header", "body"}
           /\ pc = "wait" => At = pos /\ chunk = <<>>
           /\ pc = "request" => state = "ParsingRequest"
           /\ pc = "header" => state = "ParsingHeader"
           /\ pc = "body" => state = "Body"
<1>1. pc # "wait" => /\ pc = Entry(state)
                     /\ state \in {"ParsingRequest", "ParsingHeader", "Body"}
    BY DEF CutInv
<1>2. /\ state = "ParsingRequest" => Entry(state) = "request"
      /\ state = "ParsingHeader" => Entry(state) = "header"
      /\ state = "Body" => Entry(state) = "body"
    BY DEF Entry
<1>3. pc = "wait" => At = pos /\ chunk = <<>>
    <2>1. pc = "wait" => chunk = <<>>
        BY DEF CutInv
    <2>2. Len(<<>>) = 0
        OBVIOUS
    <2>3. chunk = <<>> => At = pos
        BY <2>2, CutFacts
    <2> QED
        BY <2>1, <2>3
<1> QED
    BY <1>1, <1>2, <1>3

(* Behind a line the chunk goes on where the line ended.                   *)
LEMMA RestCut ==
    ASSUME CutInv, LineEnd(chunk) > 0, chunk' = Rest(chunk), UNCHANGED <<stream, pos>>
    PROVE  /\ At' = At + LineEnd(chunk) + 1 /\ At' <= pos
           /\ At' \in 0 .. pos' /\ chunk' = SubSeq(stream', At' + 1, pos')
<1> DEFINE e == LineEnd(chunk)
           m == Len(chunk)
<1>1. e \in Nat /\ m \in Nat /\ e > 0 /\ e + 1 <= m /\ At \in Nat /\ At + m = pos /\ pos \in Nat
      /\ stream \in Seq(Tokens) /\ pos <= Len(stream) /\ Len(stream) \in Nat /\ chunk \in Seq(Tokens)
    BY CutFacts
<1>2. chunk = SubSeq(stream, At + 1, pos)
    BY DEF CutInv
<1>3. chunk' = SubSeq(chunk, e + 2, m)
    BY DEF Rest
<1> HIDE DEF e, m
<1>4. SubSeq(SubSeq(stream, At + 1, pos), e + 2, m) = SubSeq(stream, At + e + 2, pos)
    BY <1>1
<1>5. chunk' = SubSeq(stream, At + e + 2, pos)
    BY <1>2, <1>3, <1>4
<1>6. At + e + 2 \in Nat \ {0} /\ At + e + 2 <= pos + 1
    BY <1>1
<1>7. Len(SubSeq(stream, At + e + 2, pos)) = m - e - 1
    BY <1>1, <1>6
<1>8. At' = pos - Len(chunk')
    BY DEF At
<1>9. At' = At + e + 1
    BY <1>1, <1>5, <1>7, <1>8
<1>10. At' + 1 = At + e + 2 /\ At' \in 0 .. pos
    BY <1>1, <1>9
<1> QED
    <2>1. chunk' = SubSeq(stream', At' + 1, pos') /\ pos' = pos
        BY <1>5, <1>10
    <2>2. At' \in 0 .. pos' /\ At' <= pos
        BY <1>1, <1>10, <2>1
    <2> QED
        BY <1>9, <2>1, <2>2 DEF e

(* A header line is understood only where it was sent.                     *)
LEMMA HeaderAt ==
    ASSUME CutInv, LineEnd(chunk) > 0
    PROVE  /\ Header(chunk) \in 1 .. NHeaders \cup {Garbled}
           /\ Header(chunk) \in 1 .. NHeaders => At = 4 * Header(chunk) /\ LineEnd(chunk) = 3
<1>1. CASE ~ \E l \in 1 .. NHeaders : Content(chunk) = Text(l)
    BY <1>1, BlankIs, NHeadersAssumption DEF Header, Garbled
<1>2. CASE \E l \in 1 .. NHeaders : Content(chunk) = Text(l)
    <2> DEFINE h == Header(chunk)
    <2>1. h \in 1 .. NHeaders /\ Content(chunk) = Text(h)
        BY <1>2 DEF Header
    <2> HIDE DEF h
    <2> DEFINE e == LineEnd(chunk)
    <2>2. e \in Nat /\ e > 0 /\ e + 1 <= Len(chunk) /\ Len(chunk) \in Nat /\ chunk \in Seq(Tokens)
        BY CutFacts
    <2> HIDE DEF e
    <2>3. Len(SubSeq(chunk, 1, e - 1)) = e - 1 /\ (e > 1 => SubSeq(chunk, 1, e - 1)[1] = chunk[1])
        BY <2>2
    <2>4. Len(Text(h)) = 2 /\ Text(h)[1] = <<"text", h, 1>>
        BY DEF Text
    <2>5. Content(chunk) = SubSeq(chunk, 1, e - 1)
        BY DEF Content, e
    <2>6. e = 3 /\ chunk[1] = <<"text", h, 1>>
        BY <2>1, <2>2, <2>3, <2>4, <2>5
    <2>7. stream[At + 1] = <<"text", h, 1>> /\ At + 1 \in 1 .. Len(stream) /\ At \in Nat
        BY <2>2, <2>6, CutFacts
    <2>8. At + 1 = 4 * h + 1
        <3>1. h \in 0 .. NHeaders /\ stream \in Requests
            BY <2>1, NHeadersAssumption DEF CutInv
        <3> QED
            BY <2>7, <3>1, TextOnce
    <2>9. At = 4 * h
        BY <2>1, <2>7, <2>8, NHeadersAssumption
    <2> QED
        BY <2>1, <2>6, <2>9 DEF e, h
<1> QED
    BY <1>1, <1>2

(* As long as no chunk ended inside a line, a chunk at line k holds it as  *)
(* a whole or nothing of it.                                               *)
LEMMA LineWhole ==
    ASSUME CutInv, WholeInv, NEW k \in 0 .. Blank, At = 4 * k, pos > At
    PROVE  /\ k # Blank => LineEnd(chunk) = 3 /\ Content(chunk) = Text(k)
           /\ k = Blank => LineEnd(chunk) = 1
<1>1. /\ stream \in Requests /\ pos \in Nat /\ pos <= Len(stream) /\ k \in Nat
      /\ chunk = SubSeq(stream, 4 * k + 1, pos)
    BY CutFacts, BlankIs DEF CutInv
<1>2. CASE k # Blank
    <2>1. k \in 0 .. NHeaders
        BY <1>2, BlankIs, NHeadersAssumption
    <2>2. pos >= 4 * k + 4
        <3>1. CASE pos < 4 * Blank + 2
            <4>1. PICK j \in 0 .. Blank : pos = 4 * j
                BY <3>1 DEF WholeInv
            <4>2. j \in Nat /\ j > k
                BY <1>1, <4>1, BlankIs
            <4> QED
                BY <1>1, <4>1, <4>2
        <3>2. CASE pos >= 4 * Blank + 2
            BY <1>1, <2>1, <3>2, BlankIs, NHeadersAssumption
        <3> QED
            BY <1>1, <3>1, <3>2, BlankIs
    <2>3. LineEnd(chunk) = 3 /\ Content(chunk) = Text(k)
        BY <1>1, <2>1, <2>2, LineThere
    <2> QED
        BY <1>2, <2>3
<1>3. CASE k = Blank
    <2>1. pos >= BlankAt + 2
        <3>1. CASE pos < 4 * Blank + 2
            <4>1. PICK j \in 0 .. Blank : pos = 4 * j
                BY <3>1 DEF WholeInv
            <4> QED
                BY <1>1, <1>3, <4>1, BlankIs
        <3> QED
            BY <1>1, <3>1, BlankIs
    <2>2. LineEnd(chunk) = 1
        BY <1>1, <1>3, <2>1, BlankThere, BlankIs
    <2> QED
        BY <1>3, <2>2
<1> QED
    BY <1>2, <1>3

-----------------------------------------------------------------------------
LEMMA HttpInit == Init => HttpInv
<1> SUFFICES ASSUME Init PROVE HttpInv
    OBVIOUS
<1>1. Len(stream) \in Nat /\ stream \in Seq(Tokens) /\ stream \in Requests
    BY RequestIs DEF Init
<1>2. At = 0 /\ SubSeq(stream, 1, 0) = <<>>
    <2>1. Len(<<>>) = 0 /\ SubSeq(stream, 1, 0) = <<>>
        BY <1>1
    <2>2. pos = 0 /\ chunk = <<>>
        BY DEF Init
    <2>3. Len(chunk) = 0
        BY <2>2
    <2>4. At = pos - Len(chunk)
        BY DEF At
    <2>5. At = 0
        BY <2>2, <2>3, <2>4
    <2> QED
        BY <2>1, <2>5
<1>3. CutInv
    BY <1>1, <1>2 DEF Init, CutInv
<1>4. OrderInv
    BY <1>2 DEF Init, OrderInv, HeadersInOrder
<1>5. BodyInv
    BY DEF Init, BodyInv
<1>6. WholeInv
    <2>1. 0 \in 0 .. Blank /\ 0 = 4 * 0
        BY BlankIs
    <2> QED
        BY <1>2, <2>1 DEF Init, WholeInv
<1> QED
    BY <1>3, <1>4, <1>5, <1>6 DEF HttpInv

LEMMA AcceptStep == Accept => HttpInv'
<1> SUFFICES ASSUME Accept PROVE HttpInv'
    OBVIOUS
<1>1. /\ stream' \in Requests /\ pos' = 0 /\ chunk' = <<>> /\ state' = "Connected" /\ pc' = "wait"
      /\ calls' = <<>> /\ body' = <<>> /\ bodyAt' = 0 /\ whole' = TRUE
    BY DEF Accept, Fresh
<1>2. Len(stream') \in Nat /\ SubSeq(stream', 1, 0) = <<>>
    <2> DEFINE s == stream'
    <2>1. s \in Requests
        BY <1>1
    <2> HIDE DEF s
    <2>2. s \in Seq(Tokens) /\ Len(s) \in Nat
        BY <2>1, RequestIs
    <2>3. SubSeq(s, 1, 0) = <<>>
        BY <2>2
    <2> QED
        BY <2>2, <2>3 DEF s
<1>3. At' = 0
    <2>1. Len(chunk') = 0
        BY <1>1
    <2>2. At' = pos' - Len(chunk') /\ pos' = 0
        BY <1>1 DEF At
    <2> QED
        BY <2>1, <2>2
<1>4. CutInv'
    BY <1>1, <1>2, <1>3 DEF CutInv
<1>5. OrderInv'
    BY <1>1, <1>3 DEF OrderInv, HeadersInOrder
<1>6. BodyInv'
    BY <1>1 DEF BodyInv
<1>7. WholeInv'
    <2>1. 0 \in 0 .. Blank /\ 0 = 4 * 0
        BY BlankIs
    <2> QED
        BY <1>1, <1>3, <2>1 DEF WholeInv
<1> QED
    BY <1>4, <1>5, <1>6, <1>7 DEF HttpInv

(* A chunk ends after a line or in the body.                               *)
LEMMA LineBoundary ==
    ASSUME NEW s \in Requests, NEW n \in 1 .. Len(s), n < 4 * Blank + 2, s[n][1] = "lf"
    PROVE  \E k \in 0 .. Blank : n = 4 * k
<1>1. n \in Nat /\ BlankAt = 4 * Blank /\ Blank = NHeaders + 1 /\ Blank \in Nat
    BY RequestIs, BlankIs
<1>2. n # BlankAt + 1
    BY LinesOf
<1>3. PICK l \in 0 .. NHeaders, j \in 1 .. 4 : n = 4 * l + j
    BY <1>1, <1>2, Places
<1>4. /\ s[4 * l + 1] = <<"text", l, 1>> /\ s[4 * l + 2] = <<"text", l, 2>>
      /\ s[4 * l + 3] = <<"cr", l, 0>>
    BY LinesOf
<1>5. j = 1 \/ j = 2 \/ j = 3 \/ j = 4
    OBVIOUS
<1>6. j = 4
    BY <1>3, <1>4, <1>5
<1>7. l + 1 \in 0 .. Blank /\ n = 4 * (l + 1)
    BY <1>1, <1>3, <1>6, NHeadersAssumption
<1> QED
    BY <1>7

LEMMA ReceiveStep == HttpInv /\ OnReceive => HttpInv'
<1> SUFFICES ASSUME HttpInv, OnReceive PROVE HttpInv'
    OBVIOUS
<1>1. CutInv /\ OrderInv /\ BodyInv /\ (whole => WholeInv) /\ whole \in BOOLEAN
    BY DEF HttpInv, CutInv
<1>2. PICK n \in 1 .. Len(stream) - pos :
          /\ chunk' = SubSeq(stream, pos + 1, pos + n)
          /\ pos' = pos + n
          /\ whole' = (whole /\ (pos + n >= Len(Preamble) \/ stream[pos + n][1] = "lf"))
    BY DEF OnReceive
<1>3. /\ stream \in Seq(Tokens) /\ Len(stream) \in Nat /\ pos \in Nat /\ pos <= Len(stream)
      /\ stream \in Requests /\ n \in Nat /\ n > 0 /\ pos + n <= Len(stream) /\ At = pos
      /\ pc = "wait"
    <2>1. pc = "wait" /\ stream \in Requests /\ At = pos
        BY <1>1, StateOf DEF CutInv, OnReceive
    <2> QED
        BY <1>1, <2>1, CutFacts
<1>4. Len(chunk') = n /\ At' = pos /\ At' = At /\ UNCHANGED <<stream, calls, body, bodyAt>>
    <2>1. Len(chunk') = n
        BY <1>2, <1>3
    <2>2. At' = pos' - Len(chunk')
        BY DEF At
    <2> QED
        BY <1>2, <1>3, <2>1, <2>2 DEF OnReceive
<1>5. /\ state' = IF state = "Connected" THEN "ParsingRequest" ELSE state
      /\ state' # "Connected" /\ pc' = Entry(state') /\ pc' # "wait"
      /\ state' \in {"Connected", "ParsingRequest", "ParsingHeader", "Body"}
      /\ pc' = "request" <=> state' = "ParsingRequest"
    <2>1. state \in {"Connected", "ParsingRequest", "ParsingHeader", "Body"}
        BY <1>1 DEF CutInv
    <2> QED
        BY <2>1 DEF OnReceive, Entry
<1>6. CutInv'
    <2>1. whole' \in BOOLEAN
        BY <1>1, <1>2
    <2>2. pos' \in 0 .. Len(stream') /\ At' \in 0 .. pos' /\ chunk' = SubSeq(stream', At' + 1, pos')
        BY <1>2, <1>3, <1>4
    <2> QED
        BY <1>1, <1>4, <1>5, <2>1, <2>2 DEF CutInv
<1>7. OrderInv'
    BY <1>1, <1>4, <1>5 DEF OrderInv, HeadersInOrder
<1>8. BodyInv'
    BY <1>1, <1>4, <1>5 DEF BodyInv
<1>9. ASSUME whole' PROVE WholeInv'
    <2>1. WholeInv /\ (pos + n >= Len(Preamble) \/ stream[pos + n][1] = "lf")
        BY <1>1, <1>2, <1>9
    <2>2. pos' < 4 * Blank + 2 => \E k \in 0 .. Blank : pos' = 4 * k
        <3>1. Len(Preamble) = 4 * Blank + 2 /\ 4 * Blank + 2 \in Nat
            BY PreambleIs, BlankIs
        <3>2. pos + n \in 1 .. Len(stream)
            BY <1>3
        <3> QED
            BY <1>2, <1>3, <2>1, <3>1, <3>2, LineBoundary
    <2>3. state' = "ParsingRequest" => At' = 0 /\ pos' > 0 /\ pc' = "request"
        BY <1>2, <1>3, <1>4, <1>5, <2>1 DEF WholeInv
    <2> QED
        BY <1>3, <1>4, <1>5, <2>1, <2>2, <2>3 DEF WholeInv
<1> QED
    BY <1>6, <1>7, <1>8, <1>9 DEF HttpInv

LEMMA OrderMoves ==
    ASSUME CutInv, OrderInv, At' \in Nat, At' >= At, UNCHANGED <<calls, state>>
    PROVE  OrderInv'
<1>1. At \in Nat /\ calls \in Seq(0 .. Garbled)
    BY CutFacts DEF CutInv
<1>2. ASSUME NEW n \in 1 .. Len(calls), calls[n] \in 1 .. NHeaders PROVE 4 * (calls[n] + 1) <= At'
    <2>1. 4 * (calls[n] + 1) <= At
        BY <1>2 DEF OrderInv
    <2>2. 4 * (calls[n] + 1) \in Nat
        BY <1>2, NHeadersAssumption
    <2> QED
        BY <1>1, <2>1, <2>2
<1> QED
    BY <1>2 DEF OrderInv, HeadersInOrder

LEMMA ElementOf ==
    ASSUME NEW S, NEW q \in Seq(S), NEW i \in 1 .. Len(q)
    PROVE  q[i] \in S
OBVIOUS

LEMMA NoLineEndStep == HttpInv /\ NoLineEnd => HttpInv'
<1> SUFFICES ASSUME HttpInv, NoLineEnd PROVE HttpInv'
    OBVIOUS
<1>1. CutInv /\ OrderInv /\ BodyInv /\ (whole => WholeInv)
    BY DEF HttpInv
<1>2. /\ pc \in {"request", "header"} /\ LineEnd(chunk) = 0 /\ chunk' = <<>> /\ pc' = "wait"
      /\ UNCHANGED <<stream, pos, state, calls, body, bodyAt, whole>>
    BY DEF NoLineEnd
<1>3. state # "Body" /\ (pc = "request" => state = "ParsingRequest")
      /\ (pc = "header" => state = "ParsingHeader")
    BY <1>1, <1>2, StateOf
<1>4. At \in Nat /\ pos \in Nat /\ At <= pos /\ stream \in Seq(Tokens)
    BY <1>1, CutFacts
<1>5. At' = pos
    <2>1. Len(chunk') = 0
        BY <1>2
    <2>2. At' = pos' - Len(chunk') /\ pos' = pos
        BY <1>2 DEF At
    <2> QED
        BY <1>4, <2>1, <2>2
<1>6. CutInv'
    <2>1. SubSeq(stream, pos + 1, pos) = <<>>
        BY <1>4
    <2>2. chunk' = SubSeq(stream', At' + 1, pos') /\ At' \in 0 .. pos'
        BY <1>2, <1>4, <1>5, <2>1
    <2> QED
        BY <1>1, <1>2, <2>2 DEF CutInv
<1>7. OrderInv'
    BY <1>1, <1>2, <1>4, <1>5, OrderMoves
<1>8. BodyInv'
    BY <1>1, <1>2, <1>3 DEF BodyInv
<1>9. ASSUME whole' PROVE WholeInv'
    <2>1. WholeInv
        BY <1>1, <1>2, <1>9
    <2>2. pc = "header" /\ state = "ParsingHeader"
        <3>1. ASSUME pc = "request" PROVE FALSE
            <4>1. At = 4 * 0 /\ pos > At /\ 0 \in 0 .. Blank /\ 0 # Blank
                BY <1>3, <2>1, <3>1, BlankIs, NHeadersAssumption DEF WholeInv
            <4> QED
                BY <1>1, <1>2, <2>1, <4>1, LineWhole
        <3> QED
            BY <1>2, <1>3, <3>1
    <2>3. pos = At
        <3>1. ASSUME pos > At PROVE FALSE
            <4>1. Len(calls) \in 0 .. Blank /\ At = 4 * Len(calls)
                BY <2>1, <2>2, BlankIs DEF WholeInv
            <4> QED
                BY <1>1, <1>2, <2>1, <3>1, <4>1, LineWhole
        <3> QED
            BY <1>4, <3>1
    <2> QED
        BY <1>2, <1>5, <2>1, <2>2, <2>3 DEF WholeInv
<1> QED
    BY <1>6, <1>7, <1>8, <1>9 DEF HttpInv

LEMMA RequestStep == HttpInv /\ ParseRequest => HttpInv'
<1> SUFFICES ASSUME HttpInv, ParseRequest PROVE HttpInv'
    OBVIOUS
<1>1. CutInv /\ OrderInv /\ BodyInv /\ (whole => WholeInv)
    BY DEF HttpInv
<1>2. /\ pc = "request" /\ LineEnd(chunk) > 0 /\ chunk' = Rest(chunk)
      /\ state' = "ParsingHeader" /\ pc' = "header"
      /\ UNCHANGED <<stream, pos, body, bodyAt, whole>>
    BY DEF ParseRequest
<1>3. state = "ParsingRequest"
    BY <1>1, <1>2, StateOf
<1>4. /\ At' = At + LineEnd(chunk) + 1 /\ At' \in 0 .. pos'
      /\ chunk' = SubSeq(stream', At' + 1, pos')
    BY <1>1, <1>2, RestCut
<1>5. /\ calls' \in {<<>>, <<0>>, <<Garbled>>}
      /\ Content(chunk) = Text(0) => calls' = <<0>>
    BY DEF ParseRequest
<1>6. 0 \in 0 .. Garbled /\ Garbled \in 0 .. Garbled /\ Garbled # 0 /\ Garbled # Done
      /\ Garbled \notin 1 .. NHeaders /\ Done # 0
    BY BlankIs, NHeadersAssumption DEF Garbled, Done
<1>7. CutInv'
    <2>1. calls' \in Seq(0 .. Garbled)
        <3>1. <<>> \in Seq(0 .. Garbled) /\ <<0>> \in Seq(0 .. Garbled) /\ <<Garbled>> \in Seq(0 .. Garbled)
            BY <1>6
        <3> QED
            BY <1>5, <3>1
    <2>2. pc' = Entry(state')
        BY <1>2 DEF Entry
    <2> QED
        BY <1>1, <1>2, <1>4, <2>1, <2>2 DEF CutInv
<1>8. OrderInv'
    <2> DEFINE c == calls'
    <2>1. c = <<>> \/ c = <<0>> \/ c = <<Garbled>>
        BY <1>5
    <2> HIDE DEF c
    <2>2. \A n \in 1 .. Len(c) : n = 1 /\ (c[n] = 0 \/ c[n] = Garbled)
        <3>1. CASE c = <<>>
            BY <3>1
        <3>2. CASE c = <<0>>
            BY <3>2
        <3>3. CASE c = <<Garbled>>
            BY <3>3
        <3> QED
            BY <2>1, <3>1, <3>2, <3>3
    <2> USE DEF c
    <2>3. HeadersInOrder'
        BY <2>2 DEF HeadersInOrder
    <2>4. ASSUME NEW n \in 1 .. Len(calls')
          PROVE  n = 1 /\ calls'[n] \notin 1 .. NHeaders /\ calls'[n] # Done
        BY <1>6, <2>2
    <2> QED
        BY <1>2, <2>3, <2>4 DEF OrderInv
<1>9. BodyInv'
    BY <1>1, <1>2, <1>3 DEF BodyInv
<1>10. ASSUME whole' PROVE WholeInv'
    <2>1. WholeInv
        BY <1>1, <1>2, <1>10
    <2>2. At = 0 /\ At = 4 * 0 /\ pos > At /\ 0 \in 0 .. Blank /\ 0 # Blank
        BY <1>3, <2>1, BlankIs, NHeadersAssumption DEF WholeInv
    <2>3. LineEnd(chunk) = 3 /\ Content(chunk) = Text(0)
        BY <1>1, <2>1, <2>2, LineWhole
    <2>4. calls' = <<0>>
        BY <1>5, <2>3
    <2>5. Len(calls') = 1 /\ \A n \in 1 .. Len(calls') : calls'[n] = n - 1
        BY <2>4
    <2>6. At' = 4 * Len(calls') /\ Len(calls') \in 1 .. Blank
        BY <1>4, <2>2, <2>3, <2>5, BlankIs, NHeadersAssumption
    <2> QED
        BY <1>2, <2>1, <2>5, <2>6 DEF WholeInv
<1> QED
    BY <1>7, <1>8, <1>9, <1>10 DEF HttpInv

LEMMA HeaderStep == HttpInv /\ ParseHeader => HttpInv'
<1> SUFFICES ASSUME HttpInv, ParseHeader PROVE HttpInv'
    OBVIOUS
<1> DEFINE h == Header(chunk)
           m == Len(calls)
<1>1. CutInv /\ OrderInv /\ BodyInv /\ (whole => WholeInv)
    BY DEF HttpInv
<1>2. /\ pc = "header" /\ LineEnd(chunk) > 1 /\ chunk' = Rest(chunk) /\ calls' = Append(calls, h)
      /\ UNCHANGED <<stream, pos, state, pc, body, bodyAt, whole>>
    BY DEF ParseHeader
<1>3. state = "ParsingHeader"
    BY <1>1, <1>2, StateOf
<1>4. LineEnd(chunk) \in Nat /\ LineEnd(chunk) > 0 /\ At \in Nat /\ pos \in Nat
    BY <1>1, <1>2, CutFacts
<1>5. /\ At' = At + LineEnd(chunk) + 1 /\ At' \in 0 .. pos' /\ At' \in Nat
      /\ chunk' = SubSeq(stream', At' + 1, pos')
    BY <1>1, <1>2, <1>4, RestCut
<1>6. /\ h \in 1 .. NHeaders \cup {Garbled}
      /\ h \in 1 .. NHeaders => At = 4 * h /\ LineEnd(chunk) = 3
    BY <1>1, <1>4, HeaderAt
<1>7. Garbled \notin 1 .. NHeaders /\ Garbled # 0 /\ Garbled # Done /\ Done \notin 1 .. NHeaders
      /\ h \in 0 .. Garbled /\ NHeaders \in Nat /\ Garbled \in Nat /\ Done \in Nat /\ h # 0 /\ h # Done
    BY <1>6, BlankIs, NHeadersAssumption DEF Garbled, Done
<1>8. calls \in Seq(0 .. Garbled) /\ m \in Nat
    BY <1>1 DEF CutInv
<1> HIDE DEF h, m
<1>9. /\ calls' \in Seq(0 .. Garbled) /\ Len(calls') = m + 1 /\ calls'[m + 1] = h
      /\ \A n \in 1 .. m : calls'[n] = calls[n]
    BY <1>2, <1>7, <1>8 DEF m
<1>10. CutInv'
    BY <1>1, <1>2, <1>5, <1>9 DEF CutInv
<1>11. ASSUME NEW n \in 1 .. m
       PROVE  /\ calls[n] = 0 => n = 1
              /\ calls[n] \in 1 .. NHeaders => 4 * (calls[n] + 1) <= At
              /\ calls[n] # Done /\ calls[n] \in 0 .. Garbled
    <2>1. n \in 1 .. Len(calls) /\ state # "Body"
        BY <1>3, <1>11 DEF m
    <2>2. calls[n] \in 0 .. Garbled
        BY <1>8, <2>1, ElementOf
    <2> QED
        BY <1>1, <2>1, <2>2 DEF OrderInv
<1>12. HeadersInOrder'
    <2>1. ASSUME NEW i \in 1 .. m + 1, NEW j \in 1 .. m + 1,
                 i < j, calls'[i] # Garbled, calls'[j] # Garbled
          PROVE  calls'[i] < calls'[j]
        <3>1. CASE j = m + 1
            <4>1. i \in 1 .. m /\ calls'[i] = calls[i] /\ calls'[j] = h
                BY <1>8, <1>9, <2>1, <3>1
            <4>2. h \in 1 .. NHeaders /\ At = 4 * h
                BY <1>6, <2>1, <4>1
            <4>3. calls[i] = 0 \/ calls[i] \in 1 .. NHeaders
                BY <1>11, <2>1, <4>1, BlankIs, NHeadersAssumption DEF Garbled, Done
            <4>4. calls[i] < h
                BY <1>11, <4>1, <4>2, <4>3, NHeadersAssumption
            <4> QED
                BY <4>1, <4>4
        <3>2. CASE j # m + 1
            <4>1. i \in 1 .. m /\ j \in 1 .. m
                BY <1>8, <2>1, <3>2
            <4>2. calls'[i] = calls[i] /\ calls'[j] = calls[j]
                BY <1>9, <4>1
            <4> QED
                BY <1>1, <2>1, <4>1, <4>2 DEF OrderInv, HeadersInOrder, m
        <3> QED
            BY <3>1, <3>2
    <2> QED
        BY <1>9, <2>1 DEF HeadersInOrder
<1>13. ASSUME NEW n \in 1 .. m + 1
       PROVE  /\ calls'[n] = 0 => n = 1
              /\ calls'[n] \in 1 .. NHeaders => 4 * (calls'[n] + 1) <= At'
              /\ calls'[n] # Done
    <2>1. CASE n = m + 1
        BY <1>4, <1>5, <1>6, <1>7, <1>9, <2>1
    <2>2. CASE n # m + 1
        <3>1. n \in 1 .. m /\ calls'[n] = calls[n]
            BY <1>8, <1>9, <2>2
        <3>2. At <= At'
            BY <1>4, <1>5
        <3> QED
            BY <1>4, <1>5, <1>7, <1>11, <3>1, <3>2
    <2> QED
        BY <2>1, <2>2
<1>14. OrderInv'
    BY <1>2, <1>3, <1>9, <1>12, <1>13 DEF OrderInv
<1>15. BodyInv'
    BY <1>1, <1>2, <1>3 DEF BodyInv
<1>16. ASSUME whole' PROVE WholeInv'
    <2>1. WholeInv
        BY <1>1, <1>2, <1>16
    <2>2. m \in 1 .. Blank /\ m \in 0 .. Blank /\ At = 4 * m
        BY <1>3, <1>8, <2>1 DEF WholeInv, m
    <2>3. pos > At
        BY <1>1, <1>4, CutFacts
    <2>4. m # Blank /\ LineEnd(chunk) = 3 /\ Content(chunk) = Text(m)
        BY <1>1, <1>2, <2>1, <2>2, <2>3, LineWhole
    <2>5. m \in 1 .. NHeaders
        BY <2>2, <2>4, BlankIs, NHeadersAssumption
    <2>6. h = m
        <3>1. h \in 1 .. NHeaders
            BY <2>4, <2>5 DEF h, Header
        <3> QED
            BY <1>6, <1>8, <2>2, <3>1
    <2>7. \A n \in 1 .. Len(calls') : calls'[n] = n - 1
        <3>1. \A n \in 1 .. m : calls'[n] = n - 1
            BY <1>9, <2>1 DEF WholeInv, m
        <3>2. calls'[m + 1] = (m + 1) - 1
            BY <1>8, <1>9, <2>6
        <3>3. \A n \in 1 .. m + 1 : n \in 1 .. m \/ n = m + 1
            BY <1>8
        <3>4. \A n \in 1 .. m + 1 : calls'[n] = n - 1
            BY <3>1, <3>2, <3>3
        <3> QED
            BY <1>9, <3>4
    <2>8. Len(calls') \in 1 .. Blank /\ At' = 4 * Len(calls')
        BY <1>4, <1>5, <1>8, <1>9, <2>2, <2>4, <2>5, BlankIs, NHeadersAssumption
    <2> QED
        BY <1>2, <1>3, <2>1, <2>7, <2>8 DEF WholeInv
<1> QED
    BY <1>10, <1>14, <1>15, <1>16 DEF HttpInv

LEMMA DoneStep == HttpInv /\ HeaderDone => HttpInv'
<1> SUFFICES ASSUME HttpInv, HeaderDone PROVE HttpInv'
    OBVIOUS
<1> DEFINE m == Len(calls)
<1>1. CutInv /\ OrderInv /\ BodyInv /\ (whole => WholeInv)
    BY DEF HttpInv
<1>2. /\ pc = "header" /\ LineEnd(chunk) = 1 /\ chunk' = Rest(chunk) /\ calls' = Append(calls, Done)
      /\ state' = "Body" /\ bodyAt' = At + 2 /\ pc' = "body"
      /\ UNCHANGED <<stream, pos, body, whole>>
    BY DEF HeaderDone, At
<1>3. state = "ParsingHeader"
    BY <1>1, <1>2, StateOf
<1>4. LineEnd(chunk) > 0 /\ At \in Nat /\ pos \in Nat /\ stream \in Seq(Tokens)
    BY <1>1, <1>2, CutFacts
<1>5. /\ At' = At + 2 /\ At' \in 0 .. pos' /\ At' \in Nat
      /\ chunk' = SubSeq(stream', At' + 1, pos')
    BY <1>1, <1>2, <1>4, RestCut
<1>6. Done \notin 1 .. NHeaders /\ Done # 0 /\ Done \in 0 .. Garbled /\ Garbled = Done + 1 /\ Done \in Nat
    BY BlankIs, NHeadersAssumption DEF Garbled, Done
<1>7. calls \in Seq(0 .. Garbled) /\ m \in Nat
    BY <1>1 DEF CutInv
<1> HIDE DEF m
<1>8. /\ calls' \in Seq(0 .. Garbled) /\ Len(calls') = m + 1 /\ calls'[m + 1] = Done
      /\ \A n \in 1 .. m : calls'[n] = calls[n]
    BY <1>2, <1>6, <1>7 DEF m
<1>9. CutInv'
    <2>1. pc' = Entry(state')
        BY <1>2 DEF Entry
    <2> QED
        BY <1>1, <1>2, <1>5, <1>8, <2>1 DEF CutInv
<1>10. ASSUME NEW n \in 1 .. m
       PROVE  /\ calls[n] = 0 => n = 1
              /\ calls[n] \in 1 .. NHeaders => 4 * (calls[n] + 1) <= At
              /\ calls[n] # Done /\ calls[n] \in 0 .. Garbled
    <2>1. n \in 1 .. Len(calls) /\ state # "Body"
        BY <1>3, <1>10 DEF m
    <2>2. calls[n] \in 0 .. Garbled
        BY <1>7, <2>1, ElementOf
    <2> QED
        BY <1>1, <2>1, <2>2 DEF OrderInv
<1>11. HeadersInOrder'
    <2>1. ASSUME NEW i \in 1 .. m + 1, NEW j \in 1 .. m + 1,
                 i < j, calls'[i] # Garbled, calls'[j] # Garbled
          PROVE  calls'[i] < calls'[j]
        <3>1. CASE j = m + 1
            <4>1. i \in 1 .. m /\ calls'[i] = calls[i] /\ calls'[j] = Done
                BY <1>7, <1>8, <2>1, <3>1
            <4> QED
                BY <1>6, <1>10, <2>1, <4>1
        <3>2. CASE j # m + 1
            <4>1. i \in 1 .. m /\ j \in 1 .. m
                BY <1>7, <2>1, <3>2
            <4>2. calls'[i] = calls[i] /\ calls'[j] = calls[j]
                BY <1>8, <4>1
            <4> QED
                BY <1>1, <2>1, <4>1, <4>2 DEF OrderInv, HeadersInOrder, m
        <3> QED
            BY <3>1, <3>2
    <2> QED
        BY <1>8, <2>1 DEF HeadersInOrder
<1>12. ASSUME NEW n \in 1 .. m + 1
       PROVE  /\ calls'[n] = 0 => n = 1
              /\ calls'[n] \in 1 .. NHeaders => 4 * (calls'[n] + 1) <= At'
              /\ calls'[n] = Done => n = m + 1
    <2>1. CASE n = m + 1
        BY <1>6, <1>8, <2>1
    <2>2. CASE n # m + 1
        <3>1. n \in 1 .. m /\ calls'[n] = calls[n]
            BY <1>7, <1>8, <2>2
        <3> QED
            BY <1>4, <1>5, <1>10, <3>1, NHeadersAssumption
    <2> QED
        BY <2>1, <2>2
<1>13. OrderInv'
    BY <1>2, <1>8, <1>11, <1>12 DEF OrderInv
<1>14. BodyInv'
    <2>1. body' = <<>>
        BY <1>1, <1>2, <1>3 DEF BodyInv
    <2>2. SubSeq(stream, (At + 2) + 1, At + 2) = <<>>
        BY <1>4
    <2>3. bodyAt' = At' /\ bodyAt' \in 0 .. At' /\ stream' = stream
        BY <1>2, <1>4, <1>5
    <2>4. body' = SubSeq(stream', bodyAt' + 1, At')
        BY <1>2, <1>5, <2>1, <2>2
    <2> QED
        BY <1>2, <2>3, <2>4 DEF BodyInv
<1>15. ASSUME whole' PROVE WholeInv'
    <2>1. WholeInv
        BY <1>1, <1>2, <1>15
    <2>2. m \in 0 .. Blank /\ At = 4 * m
        BY <1>3, <1>7, <2>1 DEF WholeInv, m
    <2>3. pos > At
        BY <1>1, <1>4, CutFacts
    <2>4. m = Blank
        BY <1>1, <1>2, <2>1, <2>2, <2>3, LineWhole
    <2>5. \A n \in 1 .. Len(calls') : calls'[n] = n - 1
        <3>1. \A n \in 1 .. m : calls'[n] = n - 1
            BY <1>8, <2>1 DEF WholeInv, m
        <3>2. calls'[m + 1] = (m + 1) - 1
            BY <1>7, <1>8, <2>4 DEF Done
        <3>3. \A n \in 1 .. m + 1 : n \in 1 .. m \/ n = m + 1
            BY <1>7
        <3>4. \A n \in 1 .. m + 1 : calls'[n] = n - 1
            BY <3>1, <3>2, <3>3
        <3> QED
            BY <1>8, <3>4
    <2> QED
        BY <1>2, <1>8, <2>1, <2>2, <2>4, <2>5 DEF WholeInv
<1> QED
    BY <1>9, <1>13, <1>14, <1>15 DEF HttpInv

LEMMA BodyStep == HttpInv /\ ParseBody => HttpInv'
<1> SUFFICES ASSUME HttpInv, ParseBody PROVE HttpInv'
    OBVIOUS
<1>1. CutInv /\ OrderInv /\ BodyInv /\ (whole => WholeInv)
    BY DEF HttpInv
<1>2. /\ pc = "body" /\ body' = body \o chunk /\ chunk' = <<>> /\ pc' = "wait"
      /\ UNCHANGED <<stream, pos, state, calls, bodyAt, whole>>
    BY DEF ParseBody
<1>3. state = "Body"
    BY <1>1, <1>2, StateOf
<1>4. At \in Nat /\ pos \in Nat /\ At <= pos /\ pos <= Len(stream) /\ Len(stream) \in Nat
      /\ stream \in Seq(Tokens)
    BY <1>1, CutFacts
<1>5. At' = pos
    <2>1. Len(chunk') = 0
        BY <1>2
    <2>2. At' = pos' - Len(chunk') /\ pos' = pos
        BY <1>2 DEF At
    <2> QED
        BY <1>4, <2>1, <2>2
<1>6. CutInv'
    <2>1. SubSeq(stream, pos + 1, pos) = <<>>
        BY <1>4
    <2>2. chunk' = SubSeq(stream', At' + 1, pos') /\ At' \in 0 .. pos'
        BY <1>2, <1>4, <1>5, <2>1
    <2> QED
        BY <1>1, <1>2, <2>2 DEF CutInv
<1>7. OrderInv'
    BY <1>1, <1>2, <1>4, <1>5, OrderMoves
<1>8. BodyInv'
    <2>1. bodyAt \in 0 .. At /\ body = SubSeq(stream, bodyAt + 1, At) /\ chunk = SubSeq(stream, At + 1, pos)
        BY <1>1, <1>3 DEF BodyInv, CutInv
    <2>2. SubSeq(stream, bodyAt + 1, At) \o SubSeq(stream, At + 1, pos) = SubSeq(stream, bodyAt + 1, pos)
        BY <1>4, <2>1
    <2>3. body' = SubSeq(stream', bodyAt' + 1, At') /\ bodyAt' \in 0 .. At'
        BY <1>2, <1>4, <1>5, <2>1, <2>2
    <2> QED
        BY <1>2, <1>3, <2>3 DEF BodyInv
<1>9. ASSUME whole' PROVE WholeInv'
    BY <1>1, <1>2, <1>3, <1>9 DEF WholeInv
<1> QED
    BY <1>6, <1>7, <1>8, <1>9 DEF HttpInv

LEMMA HttpKept == HttpInv /\ UNCHANGED vars => HttpInv'
BY DEF HttpInv, CutInv, OrderInv, BodyInv, WholeInv, HeadersInOrder, At, vars

LEMMA HttpStep == HttpInv /\ [Next]_vars => HttpInv'
BY AcceptStep, ReceiveStep, NoLineEndStep, RequestStep, HeaderStep, DoneStep, BodyStep, HttpKept DEF Next

LEMMA HttpAlways == Spec => []HttpInv
BY HttpInit, HttpStep, PTL DEF Spec

(* However a request is cut, no header is reported twice or before one     *)
(* that was sent ahead of it (parseHeader).                                *)
THEOREM HeadersKeepOrder == Spec => []HeadersInOrder
<1>1. HttpInv => HeadersInOrder
    BY DEF HttpInv, OrderInv
<1> QED
    BY HttpAlways, <1>1, PTL

(* However a request is cut, onHeaderDone is called once and last, and     *)
(* every byte behind the empty line found goes to onBody, in order.        *)
THEOREM BodyComplete == Spec => []BodyGapless
<1>1. ASSUME HttpInv PROVE BodyGapless
    <2>1. CutInv /\ OrderInv /\ BodyInv
        BY <1>1 DEF HttpInv
    <2>2. \A n \in 1 .. Len(calls) : calls[n] = Done => n = Len(calls) /\ state = "Body"
        BY <2>1 DEF OrderInv
    <2>3. ASSUME state = "Body" PROVE body \o chunk = SubSeq(stream, bodyAt + 1, pos)
        <3>1. bodyAt \in 0 .. At /\ body = SubSeq(stream, bodyAt + 1, At) /\ chunk = SubSeq(stream, At + 1, pos)
            BY <2>1, <2>3 DEF BodyInv, CutInv
        <3>2. At \in Nat /\ pos \in Nat /\ At <= pos /\ pos <= Len(stream) /\ Len(stream) \in Nat
              /\ stream \in Seq(Tokens)
            BY <2>1, CutFacts
        <3>3. SubSeq(stream, bodyAt + 1, At) \o SubSeq(stream, At + 1, pos) = SubSeq(stream, bodyAt + 1, pos)
            BY <3>1, <3>2
        <3> QED
            BY <3>1, <3>3
    <2>4. state # "Body" => body = <<>>
        BY <2>1 DEF BodyInv
    <2> QED
        BY <2>2, <2>3, <2>4 DEF BodyGapless
<1> QED
    BY HttpAlways, <1>1, PTL

LEMMA LinesCounted ==
    ASSUME CutInv
    PROVE  /\ \A k \in 0 .. Blank : pos = 4 * k => Cardinality(LinesIn(pos)) = k
           /\ pos >= BlankAt + 2 => Cardinality(LinesIn(pos)) = Blank + 1
<1>1. stream \in Requests /\ pos \in Nat /\ pos <= Len(stream) /\ Len(stream) \in Nat
    BY CutFacts DEF CutInv
<1>2. Blank \in Nat /\ Blank = NHeaders + 1 /\ NHeaders \in Nat /\ BlankAt = 4 * Blank
    BY BlankIs, NHeadersAssumption
<1> DEFINE End(l) == IF l = Blank THEN BlankAt + 2 ELSE 4 * l + 4
<1>3. ASSUME NEW l \in 0 .. Blank PROVE l \in LinesIn(pos) <=> End(l) <= pos
    <2>1. ASSUME NEW i \in 1 .. pos, stream[i] = <<"lf", l, 0>> PROVE End(l) <= pos
        <3>1. i \in 1 .. Len(stream) /\ i \in Nat /\ i <= pos
            BY <1>1
        <3>2. i = End(l)
            BY <1>1, <2>1, <3>1, LfOnce
        <3> QED
            BY <3>1, <3>2
    <2>2. ASSUME End(l) <= pos PROVE \E i \in 1 .. pos : stream[i] = <<"lf", l, 0>>
        <3>1. stream[End(l)] = <<"lf", l, 0>>
            <4>1. CASE l = Blank
                BY <1>1, <4>1, LinesOf
            <4>2. CASE l # Blank
                <5>1. l \in 0 .. NHeaders
                    BY <1>2, <4>2
                <5> QED
                    BY <1>1, <4>2, <5>1, LinesOf
            <4> QED
                BY <4>1, <4>2
        <3>2. End(l) \in 1 .. pos
            BY <1>1, <1>2, <2>2
        <3> QED
            BY <3>1, <3>2
    <2> QED
        BY <2>1, <2>2 DEF LinesIn
<1>4. LinesIn(pos) \subseteq 0 .. Blank
    BY DEF LinesIn
<1>5. ASSUME NEW k \in 0 .. Blank, pos = 4 * k PROVE Cardinality(LinesIn(pos)) = k
    <2>1. ASSUME NEW l \in 0 .. Blank PROVE End(l) <= pos <=> l <= k - 1
        BY <1>1, <1>2, <1>5
    <2> HIDE DEF End
    <2>2. LinesIn(pos) = 0 .. k - 1
        <3>1. k \in Nat /\ \A l : l \in 0 .. k - 1 <=> l \in 0 .. Blank /\ l <= k - 1
            BY <1>2
        <3> QED
            BY <1>3, <1>4, <2>1, <3>1
    <2>3. Cardinality(0 .. k - 1) = k
        BY <1>2, FS_Interval
    <2> QED
        BY <2>2, <2>3
<1>6. ASSUME pos >= BlankAt + 2 PROVE Cardinality(LinesIn(pos)) = Blank + 1
    <2>1. ASSUME NEW l \in 0 .. Blank PROVE End(l) <= pos
        BY <1>1, <1>2, <1>6
    <2> HIDE DEF End
    <2>2. LinesIn(pos) = 0 .. Blank
        BY <1>3, <1>4, <2>1
    <2>3. Cardinality(0 .. Blank) = Blank + 1
        BY <1>2, FS_Interval
    <2> QED
        BY <2>2, <2>3
<1> QED
    BY <1>5, <1>6

(* As long as every chunk of the header ends after a line, the handlers    *)
(* are called with what the client sent, for any number of lines in each.  *)
THEOREM SentIsCalled == Spec => []CallsAsSent
<1>1. ASSUME HttpInv PROVE CallsAsSent
    <2> SUFFICES ASSUME whole, pc = "wait"
                 PROVE  /\ calls = [l \in 1 .. Cardinality(LinesIn(pos)) |-> l - 1]
                        /\ body = SubSeq(stream, Len(Preamble) + 1, pos)
        BY DEF CallsAsSent
    <2>1. CutInv /\ BodyInv /\ WholeInv /\ OrderInv
        BY <1>1 DEF HttpInv
    <2>2. At = pos /\ pos \in Nat /\ pos <= Len(stream) /\ stream \in Seq(Tokens) /\ Len(stream) \in Nat
        BY <2>1, CutFacts, StateOf
    <2>3. Len(Preamble) = BlankAt + 2 /\ BlankAt \in Nat /\ BlankAt = 4 * Blank /\ Blank \in Nat
        BY PreambleIs, BlankIs
    <2>4. calls \in Seq(0 .. Garbled)
        BY <2>1 DEF CutInv
    <2>5. Cardinality(LinesIn(pos)) = Len(calls) /\ body = SubSeq(stream, Len(Preamble) + 1, pos)
        <3>1. CASE state = "Connected"
            <4>1. pos = 0 /\ calls = <<>> /\ body = <<>>
                BY <2>1, <3>1 DEF WholeInv, OrderInv, BodyInv
            <4>2. 0 \in 0 .. Blank /\ pos = 4 * 0 /\ Len(calls) = 0
                BY <2>3, <4>1
            <4>3. Cardinality(LinesIn(pos)) = 0
                BY <2>1, <4>2, LinesCounted
            <4>4. SubSeq(stream, Len(Preamble) + 1, pos) = <<>>
                BY <2>2, <2>3, <4>1
            <4> QED
                BY <4>1, <4>2, <4>3, <4>4
        <3>2. CASE state = "ParsingRequest"
            BY <2>1, <3>2 DEF WholeInv
        <3>3. CASE state = "ParsingHeader"
            <4>1. Len(calls) \in 0 .. Blank /\ pos = 4 * Len(calls) /\ body = <<>>
                BY <2>1, <2>2, <2>3, <3>3 DEF WholeInv, BodyInv
            <4>2. Cardinality(LinesIn(pos)) = Len(calls)
                BY <2>1, <4>1, LinesCounted
            <4>3. SubSeq(stream, Len(Preamble) + 1, pos) = <<>>
                BY <2>2, <2>3, <4>1
            <4> QED
                BY <4>1, <4>2, <4>3
        <3>4. CASE state = "Body"
            <4>1. Len(calls) = Blank + 1 /\ bodyAt = BlankAt + 2 /\ bodyAt \in 0 .. pos
                  /\ body = SubSeq(stream, bodyAt + 1, pos)
                BY <2>1, <2>2, <2>3, <3>4 DEF WholeInv, BodyInv
            <4>2. pos >= BlankAt + 2
                BY <2>2, <2>3, <4>1
            <4>3. Cardinality(LinesIn(pos)) = Blank + 1
                BY <2>1, <4>2, LinesCounted
            <4> QED
                BY <2>3, <4>1, <4>3
        <3> QED
            BY <2>1, <3>1, <3>2, <3>3, <3>4 DEF CutInv
    <2>6. calls = [l \in 1 .. Len(calls) |-> calls[l]]
        BY <2>4
    <2>7. \A l \in 1 .. Len(calls) : calls[l] = l - 1
        BY <2>1 DEF WholeInv
    <2>8. calls = [l \in 1 .. Len(calls) |-> l - 1]
        BY <2>6, <2>7
    <2> QED
        BY <2>5, <2>8
<1> QED
    BY HttpAlways, <1>1, PTL
-----------------------------------------------------------------------------
(* The JSON parser.                                                        *)
Symbol == {"object", "key", ":", "more", "elements", "space", "key chars", "chars", "broken"}
Kind == {"STRUCT_START", "STRUCT_END", "ARRAY_START", "ARRAY_END", "KEY", "STRING"}
Report == Kind \X Seq(Chars)

State == {"OBJECT", "ARRAY", "ARRAY_1", "OBJ", "OBJ_1", "OBJ_2", "OBJ_3", "STRING", "DSTRING", "INVALID"}

JsonTypes ==
    /\ stack \in [0 .. MaxLen + 2 -> State]
    /\ top \in Int
    /\ string_val \in Seq(Chars)
    /\ buf \in Chars \cup {NoChar}
    /\ events \in Seq(Report)
    /\ todo \in Seq(Symbol) /\ text \in Seq(Chars) /\ expected \in Seq(Report)
    /\ written \in 0 .. MaxLen /\ (buf # NoChar => written > 0)

(* What the grammar allows the next character to be where T is left to be  *)
(* produced: a rule replaces the first symbol.                             *)
Rule(symbols, event, T, X, T2, X2) == T2 = symbols \o Tail(T) /\ X2 = X \o event

Follows(c, T, X, t, T2, X2, t2) ==
    /\ T # <<>>
    /\ \/ c = "ws" /\ T[1] \notin {"key chars", "chars", "space", "broken"}
          /\ T2 = T /\ X2 = X /\ t2 = t
       \/ /\ T[1] = "object" /\ t2 = <<>>
          /\ \/ /\ c = "{"
                /\ Rule(<<"key", ":", "object", "more">>, <<<<"STRUCT_START", <<>>>>>>, T, X, T2, X2)
             \/ c = "[" /\ Rule(<<"space", "elements">>, <<<<"ARRAY_START", <<>>>>>>, T, X, T2, X2)
             \/ c = "quote" /\ Rule(<<"chars">>, <<>>, T, X, T2, X2)
       \/ /\ T[1] \in {"key chars", "chars"} /\ c # "quote" /\ t2 = Append(t, c)
          /\ Rule(<<T[1]>>, <<>>, T, X, T2, X2)
       \/ T[1] = "key chars" /\ c = "quote" /\ Rule(<<>>, <<<<"KEY", t>>>>, T, X, T2, X2)
       \/ T[1] = "chars" /\ c = "quote" /\ Rule(<<>>, <<<<"STRING", t>>>>, T, X, T2, X2)
       \/ T[1] = "key" /\ c = "quote" /\ t2 = <<>> /\ Rule(<<"key chars">>, <<>>, T, X, T2, X2)
       \/ T[1] = "space" /\ c = "ws" /\ Rule(<<"object">>, <<>>, T, X, T2, X2)
       \/ T[1] = ":" /\ c = ":" /\ Rule(<<>>, <<>>, T, X, T2, X2)
       \/ T[1] = "more" /\ c = "," /\ Rule(<<"key", ":", "object", "more">>, <<>>, T, X, T2, X2)
       \/ T[1] = "more" /\ c = "}" /\ Rule(<<>>, <<<<"STRUCT_END", <<>>>>>>, T, X, T2, X2)
       \/ T[1] = "elements" /\ c = "," /\ Rule(<<"space", "elements">>, <<>>, T, X, T2, X2)
       \/ T[1] = "elements" /\ c = "]" /\ Rule(<<>>, <<<<"ARRAY_END", <<>>>>>>, T, X, T2, X2)

(* The last d symbols are structures that are open; the value in the n-th  *)
(* has its OBJECT at at[n] of the stack.                                   *)
Level(S, symbol, p, q) ==
    \/ /\ symbol = "more" /\ q = p + 3
       /\ S[p + 1] = "OBJ" /\ S[p + 2] = "OBJ_1"
    \/ /\ symbol = "elements" /\ q = p + 2
       /\ S[p + 1] = "ARRAY"

FromEnd(T, n) == T[Len(T) + 1 - n]
ValueAt(S, p) == S[p] = "OBJECT"

Open(S, T, d, at) ==
    /\ d <= Len(T)
    /\ at[0] = 0
    /\ \A n \in 1 .. d : Level(S, FromEnd(T, n), at[n - 1], at[n])
    /\ \A n \in 0 .. d : ValueAt(S, at[n]) /\ at[n] <= 3 * n
    /\ \A n \in 0 .. d : \A m \in 0 .. n : at[m] <= at[n]

\* Characters the parser is done with.
used == IF buf = NoChar THEN written ELSE written - 1

(* T is what the grammar had left, X what was to be reported and t the     *)
(* current string before the character being parsed; the parser's state is *)
(* compared to these.                                                      *)
Fed(T, X, t) ==
    IF buf = NoChar THEN T = todo /\ X = expected /\ t = text
                    ELSE Follows(buf, T, X, t, todo, expected, text)

Here(T, X, t, d, at) ==
    /\ T \in Seq(Symbol) /\ X \in Seq(Report) /\ t \in Seq(Chars)
    /\ d \in Nat /\ at \in [Nat -> Nat]
    /\ Fed(T, X, t)
    /\ Open(stack, T, d, at)
    /\ at[d] <= used

(* The eleven situations the parser may be in: p is the entry of the       *)
(* innermost open value, above which the parser has as much on its stack   *)
(* as the grammar has symbols before the last d.                           *)
ValueDue(T, X, d, p) ==
    /\ Len(T) = d + 1 /\ T[1] = "object" /\ X = events
    /\ lastOperation # "pop"
    /\ \/ top = p
       \/ top = p + 1 /\ stack[p + 1] = "STRING" /\ buf = "quote"

InText(T, X, t, d, p) ==
    /\ Len(T) = d + 1 /\ T[1] = "chars" /\ X = events
    /\ top = p + 2 /\ stack[p + 1] = "STRING" /\ stack[p + 2] = "DSTRING"
    /\ string_val = t

TextDone(T, X, d, p) ==
    /\ Len(T) = d /\ X = Append(events, <<"STRING", string_val>>)
    /\ lastOperation = "pop"
    /\ stack[p + 1] = "STRING"
    /\ \/ top = p + 1 /\ stack[p + 2] = "DSTRING"
       \/ top = p /\ buf # NoChar

StructureDone(T, X, d, p) ==
    /\ Len(T) = d /\ X = events
    /\ lastOperation = "pop"
    /\ \/ top = p /\ stack[p + 1] \in {"OBJ_3", "ARRAY_1"}
       \/ top = p - 1 /\ d > 0 /\ buf # NoChar

MoreDue(T, X, d, p) ==
    /\ Len(T) = d + 1 /\ T[1] = "more" /\ X = events
    /\ top = p + 1
    /\ \/ stack[p + 1] = "OBJ" /\ stack[p + 2] = "OBJ_1" /\ lastOperation = "pop" /\ buf # NoChar
       \/ stack[p + 1] = "OBJ_2" /\ lastOperation # "pop"
       \/ stack[p + 1] = "OBJ_3" /\ lastOperation # "pop" /\ buf \notin {",", "ws", NoChar}

ElementsDue(T, X, d, p) ==
    /\ Len(T) = d + 1 /\ T[1] = "elements" /\ X = events
    /\ top = p + 1 /\ stack[p + 1] = "ARRAY_1" /\ lastOperation # "pop"

SpaceDue(T, X, d, p) ==
    /\ Len(T) = d + 2 /\ T[1] = "space" /\ T[2] = "elements" /\ X = events
    /\ top = p + 1 /\ stack[p + 1] = "ARRAY" /\ lastOperation # "pop"
    /\ p + 1 <= used

Pair(T, d) == Len(T) = d + 4 /\ T[2] = ":" /\ T[3] = "object" /\ T[4] = "more"
KeyDue(T, X, d, p) ==
    /\ Pair(T, d) /\ T[1] = "key" /\ X = events
    /\ stack[p + 1] = "OBJ" /\ lastOperation # "pop"
    /\ \/ top = p + 1
       \/ top = p + 2 /\ stack[p + 2] = "STRING" /\ buf = "quote"
    /\ p + 1 <= used

InKey(T, X, t, d, p) ==
    /\ Pair(T, d) /\ T[1] = "key chars" /\ X = events
    /\ stack[p + 1] = "OBJ" /\ stack[p + 2] = "STRING" /\ stack[p + 3] = "DSTRING"
    /\ top = p + 3 /\ string_val = t
    /\ p + 2 <= used

Named(T, d) == Len(T) = d + 3 /\ T[1] = ":" /\ T[2] = "object" /\ T[3] = "more"
KeyDone(T, X, d, p) ==
    /\ Named(T, d) /\ X = Append(events, <<"KEY", string_val>>)
    /\ stack[p + 1] = "OBJ" /\ stack[p + 2] = "STRING" /\ lastOperation = "pop"
    /\ \/ top = p + 2 /\ stack[p + 3] = "DSTRING"
       \/ top = p + 1 /\ buf # NoChar
    /\ p + 2 <= used

ColonDue(T, X, d, p) ==
    /\ Named(T, d) /\ X = events
    /\ top = p + 2 /\ stack[p + 1] = "OBJ" /\ stack[p + 2] = "OBJ_1" /\ lastOperation # "pop"
    /\ p + 2 <= used

Local(T, X, t, d, p) ==
    \/ ValueDue(T, X, d, p) \/ InText(T, X, t, d, p) \/ TextDone(T, X, d, p)
    \/ StructureDone(T, X, d, p) \/ MoreDue(T, X, d, p) \/ ElementsDue(T, X, d, p)
    \/ SpaceDue(T, X, d, p) \/ KeyDue(T, X, d, p) \/ InKey(T, X, t, d, p)
    \/ KeyDone(T, X, d, p) \/ ColonDue(T, X, d, p)

Agreement == \E T, X, t, d, at : Here(T, X, t, d, at) /\ Local(T, X, t, d, at[d])

\* An illegal document may leave the parser anywhere.
JsonInv == JsonTypes /\ (Legal => Agreement)
-----------------------------------------------------------------------------
\* What is in a report, and what sequences of symbols are made of.
LEMMA ReportIs ==
    /\ \A t \in Seq(Chars) : \A k \in Kind : <<k, t>> \in Report
    /\ <<>> \in Seq(Chars)
BY DEF Report

LEMMA Concatenated ==
    ASSUME NEW S, NEW s \in Seq(S), NEW t \in Seq(S)
    PROVE  /\ s \o t \in Seq(S) /\ Len(s \o t) = Len(s) + Len(t)
           /\ \A i \in 1 .. Len(s) : (s \o t)[i] = s[i]
           /\ \A i \in 1 .. Len(t) : (s \o t)[Len(s) + i] = t[i]
OBVIOUS

LEMMA Tailed ==
    ASSUME NEW S, NEW T \in Seq(S), T # <<>>
    PROVE  /\ Tail(T) \in Seq(S) /\ Len(Tail(T)) = Len(T) - 1
           /\ \A n \in 1 .. Len(T) - 1 : Tail(T)[n] = T[n + 1]
OBVIOUS

\* What becomes of T when s replaces its first element.
LEMMA Ends ==
    ASSUME NEW S, NEW T \in Seq(S), T # <<>>, NEW s \in Seq(S)
    PROVE  /\ s \o Tail(T) \in Seq(S)
           /\ Len(s \o Tail(T)) = Len(s) + Len(T) - 1
           /\ \A n \in 1 .. Len(s) : (s \o Tail(T))[n] = s[n]
           /\ \A n \in 1 .. Len(T) - 1 : (s \o Tail(T))[Len(s) + n] = T[n + 1]
           /\ \A n \in 1 .. Len(T) - 1 : (s \o Tail(T))[Len(s) + Len(T) - n] = T[Len(T) + 1 - n]
<1> DEFINE R == Tail(T)
           U == s \o R
<1>1. R \in Seq(S) /\ Len(R) = Len(T) - 1 /\ \A n \in 1 .. Len(T) - 1 : R[n] = T[n + 1]
    BY Tailed
<1>2. Len(T) \in Nat /\ Len(T) > 0 /\ Len(s) \in Nat
    OBVIOUS
<1> HIDE DEF R
<1>3. /\ U \in Seq(S) /\ Len(U) = Len(s) + Len(R)
      /\ \A i \in 1 .. Len(s) : U[i] = s[i]
      /\ \A i \in 1 .. Len(R) : U[Len(s) + i] = R[i]
    <2>1. R \in Seq(S)
        BY <1>1
    <2> QED
        BY <2>1, Concatenated
<1> HIDE DEF U
<1>4. ASSUME NEW n \in 1 .. Len(T) - 1
      PROVE  U[Len(s) + Len(T) - n] = T[Len(T) + 1 - n]
    <2>1. Len(T) - n \in 1 .. Len(T) - 1 /\ Len(T) - n \in 1 .. Len(R)
        BY <1>1, <1>2
    <2>2. U[Len(s) + (Len(T) - n)] = R[Len(T) - n] /\ R[Len(T) - n] = T[Len(T) - n + 1]
        BY <2>1, <1>1, <1>3
    <2>3. Len(s) + (Len(T) - n) = Len(s) + Len(T) - n /\ Len(T) - n + 1 = Len(T) + 1 - n
        BY <1>2
    <2> QED
        BY <2>2, <2>3
<1>5. Len(U) = Len(s) + Len(T) - 1
    BY <1>1, <1>2, <1>3
<1>6. \A n \in 1 .. Len(T) - 1 : U[Len(s) + n] = T[n + 1]
    BY <1>1, <1>3
<1> QED
    BY <1>3, <1>4, <1>5, <1>6 DEF R, U

\* A level takes two or three entries and stays while those do.
LEMMA LevelWidth ==
    ASSUME NEW S, NEW symbol, NEW p \in Nat, NEW q \in Nat, Level(S, symbol, p, q)
    PROVE  p + 2 <= q /\ q <= p + 3
BY DEF Level

LEMMA LevelKept ==
    ASSUME NEW S \in [0 .. MaxLen + 2 -> State], NEW S2 \in [0 .. MaxLen + 2 -> State],
           NEW symbol, NEW p \in Nat, NEW q \in Nat,
           Level(S, symbol, p, q), q <= MaxLen, \A n \in 0 .. q : S2[n] = S[n]
    PROVE  Level(S2, symbol, p, q) /\ q >= p + 2
<1>1. p + 1 \in 0 .. MaxLen + 2 /\ p + 2 \in 0 .. MaxLen + 2
    BY MaxLenAssumption DEF Level
<1>2. q >= p + 2
    BY DEF Level
<1>3. S2[p + 1] = S[p + 1] /\ S2[p + 2] = S[p + 2]
    BY <1>1, <1>2
<1> QED
    BY <1>1, <1>2, <1>3 DEF Level

Stacks == [0 .. MaxLen + 2 -> State]

Unchanged(S, S2, p) == p <= MaxLen /\ \A n \in 0 .. p : S2[n] = S[n]
SameEnd(T, T2, d) == Len(T2) >= d /\ \A n \in 1 .. d : FromEnd(T2, n) = FromEnd(T, n)

\* Only the last d symbols and the entries below them matter.
LEMMA OpenKept ==
    ASSUME NEW S \in Stacks, NEW S2 \in Stacks, NEW T \in Seq(Symbol), NEW T2 \in Seq(Symbol),
           NEW d \in Nat, NEW at \in [Nat -> Nat],
           Open(S, T, d, at), Unchanged(S, S2, at[d]), SameEnd(T, T2, d)
    PROVE  Open(S2, T2, d, at)
<1>1. \A n \in 0 .. d : \A m \in 0 .. n : at[m] <= at[n]
    BY DEF Open
<1>2. \A n \in 0 .. d : at[n] \in Nat /\ at[n] <= at[d]
    <2>1. d \in 0 .. d /\ \A n \in 0 .. d : n \in Nat
        OBVIOUS
    <2> QED
        BY <1>1, <2>1
<1>3. ASSUME NEW n \in 0 .. d
       PROVE  ValueAt(S2, at[n])
    <2>1. ValueAt(S, at[n])
        BY DEF Open
    <2>2. at[n] \in 0 .. at[d]
        BY <1>2
    <2> QED
        BY <2>1, <2>2 DEF ValueAt, Unchanged
<1>4. ASSUME NEW n \in 1 .. d
      PROVE  Level(S2, FromEnd(T2, n), at[n - 1], at[n])
    <2>1. n - 1 \in Nat /\ n \in 0 .. d
        OBVIOUS
    <2>2. at[n - 1] \in Nat /\ at[n] \in Nat
        BY <2>1
    <2>3. at[n] <= at[d] /\ at[d] \in Nat
        BY <2>1, <1>2
    <2>4. at[n] <= MaxLen /\ \A m \in 0 .. at[n] : S2[m] = S[m]
        <3>1. at[d] <= MaxLen /\ \A m \in 0 .. at[d] : S2[m] = S[m]
            BY DEF Unchanged
        <3>2. at[n] <= MaxLen
            BY <2>2, <2>3, <3>1, MaxLenAssumption
        <3>3. 0 .. at[n] \subseteq 0 .. at[d]
            BY <2>2, <2>3
        <3> QED
            BY <3>1, <3>2, <3>3
    <2>5. Level(S, FromEnd(T, n), at[n - 1], at[n])
        BY DEF Open
    <2>6. Level(S2, FromEnd(T, n), at[n - 1], at[n])
        BY <2>2, <2>4, <2>5, LevelKept DEF Stacks
    <2> QED
        BY <2>6 DEF SameEnd
<1>5. d <= Len(T2)
    BY DEF SameEnd
<1> QED
    <2> USE <1>3, <1>4, <1>5
    <2> QED
        BY DEF Open

\* One structure less.
LEMMA OpenDown ==
    ASSUME NEW S, NEW T \in Seq(Symbol), NEW d \in Nat, d > 0, NEW at \in [Nat -> Nat],
           Open(S, T, d, at)
    PROVE  /\ d - 1 \in Nat /\ Open(S, T, d - 1, at)
           /\ Level(S, FromEnd(T, d), at[d - 1], at[d])
           /\ ValueAt(S, at[d])
<1>1. 1 .. d - 1 \subseteq 1 .. d /\ 0 .. d - 1 \subseteq 0 .. d
    OBVIOUS
<1>2. d \in 1 .. d /\ d \in 0 .. d /\ d - 1 \in Nat
    OBVIOUS
<1>3. Len(T) \in Nat
    OBVIOUS
<1>4. d - 1 <= Len(T)
    BY <1>3 DEF Open
<1>5. Open(S, T, d - 1, at)
    BY <1>1, <1>2, <1>4 DEF Open
<1> QED
    BY <1>2, <1>5 DEF Open

\* One structure more, with the OBJECT of its value at q.
Up(S, T, d, at, q) ==
    Open(S, T, d, at) /\ Len(T) > d /\ Level(S, FromEnd(T, d + 1), at[d], q) /\ ValueAt(S, q)

Higher(S, T, d, q) == \E at2 \in [Nat -> Nat] : Open(S, T, d + 1, at2) /\ at2[d + 1] = q

LEMMA Extended ==
    ASSUME NEW d \in Nat, NEW at \in [Nat -> Nat], NEW q \in Nat,
           NEW at2, at2 = [n \in Nat |-> IF n = d + 1 THEN q ELSE at[n]]
    PROVE  at2 \in [Nat -> Nat] /\ at2[d + 1] = q /\ \A n \in 0 .. d : at2[n] = at[n]
<1>1. \A n \in 0 .. d : n \in Nat /\ n # d + 1
    OBVIOUS
<1>2. d + 1 \in Nat
    OBVIOUS
<1> QED
    BY <1>1, <1>2

LEMMA OpenUp ==
    ASSUME NEW S, NEW T \in Seq(Symbol), NEW d \in Nat, NEW at \in [Nat -> Nat], NEW q \in Nat,
           Up(S, T, d, at, q)
    PROVE  Higher(S, T, d, q)
<1> DEFINE at2 == [n \in Nat |-> IF n = d + 1 THEN q ELSE at[n]]
<1>1. at2 \in [Nat -> Nat] /\ at2[d + 1] = q /\ \A n \in 0 .. d : at2[n] = at[n]
    BY Extended
<1> HIDE DEF at2
<1>2. d + 1 <= Len(T)
    BY DEF Up
<1>3. ASSUME NEW n \in 1 .. d + 1
      PROVE  Level(S, FromEnd(T, n), at2[n - 1], at2[n])
    <2>1. CASE n = d + 1
        <3>1. n - 1 = d /\ at2[n - 1] = at[d] /\ at2[n] = q
            BY <2>1, <1>1
        <3> QED
            BY <3>1, <2>1 DEF Up
    <2>2. CASE n # d + 1
        <3>1. n \in 1 .. d /\ n \in 0 .. d /\ n - 1 \in 0 .. d
            BY <2>2
        <3>2. at2[n] = at[n] /\ at2[n - 1] = at[n - 1]
            BY <3>1, <1>1
        <3>3. Level(S, FromEnd(T, n), at[n - 1], at[n])
            BY <3>1 DEF Up, Open
        <3> QED
            BY <3>3, <3>2
    <2> QED
        BY <2>1, <2>2
<1>4. \A n \in 0 .. d + 1 : n = d + 1 \/ n \in 0 .. d
    OBVIOUS
<1>5. at[d] \in Nat
    OBVIOUS
<1>6. q <= at[d] + 3 /\ at[d] <= q
    <2>1. Level(S, FromEnd(T, d + 1), at[d], q)
        BY DEF Up
    <2>2. at[d] + 2 <= q /\ q <= at[d] + 3
        BY <2>1, <1>5, LevelWidth
    <2> QED
        BY <1>5, <2>2
<1>7. \A n \in 0 .. d : at[n] <= 3 * n
    BY DEF Up, Open
<1>8. \A n \in 0 .. d : at[n] <= at[d]
    <2>1. d \in 0 .. d
        OBVIOUS
    <2> QED
        BY <2>1 DEF Up, Open
<1>9. ASSUME NEW n \in 0 .. d + 1
      PROVE  ValueAt(S, at2[n]) /\ at2[n] <= 3 * n
    <2>1. CASE n = d + 1
        <3>1. at[d] <= 3 * d
            BY <1>7
        <3>2. q <= 3 * (d + 1)
            BY <3>1, <1>5, <1>6
        <3> QED
            BY <1>1, <2>1, <3>2 DEF Up
    <2>2. CASE n \in 0 .. d
        BY <1>1, <2>2 DEF Up, Open
    <2> QED
        BY <2>1, <2>2, <1>4
<1>10. ASSUME NEW n \in 0 .. d + 1, NEW m \in 0 .. n
      PROVE  at2[m] <= at2[n]
    <2>1. CASE n \in 0 .. d
        <3>1. m \in 0 .. d
            BY <2>1
        <3>2. at[m] <= at[n]
            BY <2>1 DEF Up, Open
        <3> QED
            BY <3>1, <3>2, <2>1, <1>1
    <2>2. CASE n = d + 1 /\ m = d + 1
        BY <2>2, <1>1
    <2>3. CASE n = d + 1 /\ m # d + 1
        <3>1. m \in 0 .. d
            BY <2>3
        <3>2. at[m] <= at[d] /\ at[m] \in Nat
            BY <3>1, <1>8
        <3>3. at[m] <= q
            BY <3>2, <1>5, <1>6
        <3> QED
            BY <3>1, <3>3, <2>3, <1>1
    <2> QED
        BY <2>1, <2>2, <2>3, <1>4
<1>11. at2[0] = 0
    BY <1>1 DEF Up, Open
<1>12. Open(S, T, d + 1, at2)
    BY <1>2, <1>3, <1>9, <1>10, <1>11 DEF Open
<1> QED
    BY <1>1, <1>12 DEF Higher
-----------------------------------------------------------------------------
\* The first symbol of T makes way for none, one, two or four.
Replaced(s, T, T2) ==
    /\ Len(T2) = Len(s) + Len(T) - 1
    /\ \A n \in 1 .. Len(s) : T2[n] = s[n]
    /\ \A n \in 1 .. Len(T) - 1 : T2[Len(s) + n] = T[n + 1]
    /\ SameEnd(T, T2, Len(T) - 1)

Gone(T, T2) ==
    /\ Len(T2) = Len(T) - 1 /\ SameEnd(T, T2, Len(T) - 1)
    /\ \A n \in 1 .. Len(T) - 1 : T2[n] = T[n + 1]
Now(a, T, T2) ==
    /\ Len(T2) = Len(T) /\ SameEnd(T, T2, Len(T) - 1)
    /\ T2[1] = a /\ \A n \in 2 .. Len(T) : T2[n] = T[n]
NowTwo(a, b, T, T2) ==
    /\ Len(T2) = Len(T) + 1 /\ SameEnd(T, T2, Len(T) - 1)
    /\ T2[1] = a /\ T2[2] = b
NowPair(a, T, T2) ==
    /\ Len(T2) = Len(T) + 3 /\ SameEnd(T, T2, Len(T) - 1)
    /\ T2[1] = a /\ T2[2] = ":" /\ T2[3] = "object" /\ T2[4] = "more"

\* What a rule of the grammar makes of the symbols and the reports.
LEMMA RuleEnds ==
    ASSUME NEW T \in Seq(Symbol), T # <<>>, NEW T2, NEW X, NEW X2, NEW s \in Seq(Symbol), NEW e,
           Rule(s, e, T, X, T2, X2)
    PROVE  Replaced(s, T, T2)
<1>1. T2 = s \o Tail(T)
    BY DEF Rule
<1>2. /\ T2 \in Seq(Symbol)
      /\ Len(T2) = Len(s) + Len(T) - 1
      /\ \A n \in 1 .. Len(s) : T2[n] = s[n]
      /\ \A n \in 1 .. Len(T) - 1 : T2[Len(s) + n] = T[n + 1]
      /\ \A n \in 1 .. Len(T) - 1 : T2[Len(s) + Len(T) - n] = T[Len(T) + 1 - n]
    BY <1>1, Ends
<1>3. Len(s) \in Nat /\ Len(T) \in Nat
    OBVIOUS
<1>4. Len(T2) >= Len(T) - 1
    BY <1>2, <1>3
<1>5. \A n \in 1 .. Len(T) - 1 : Len(T2) + 1 - n = Len(s) + Len(T) - n
    BY <1>2, <1>3
<1>6. \A n \in 1 .. Len(T) - 1 : FromEnd(T2, n) = FromEnd(T, n)
    BY <1>2, <1>5 DEF FromEnd
<1> QED
    BY <1>2, <1>4, <1>6 DEF SameEnd, Replaced

LEMMA Rule0 ==
    ASSUME NEW T \in Seq(Symbol), T # <<>>, NEW T2, NEW X, NEW X2, NEW e,
           Rule(<<>>, e, T, X, T2, X2)
    PROVE  Gone(T, T2)
<1> DEFINE s == <<>>
<1>1. Len(s) = 0 /\ Len(T) \in Nat
    OBVIOUS
<1>2. s \in Seq(Symbol)
    OBVIOUS
<1>3. Rule(s, e, T, X, T2, X2)
    OBVIOUS
<1> HIDE DEF s
<1>4. Replaced(s, T, T2)
    BY <1>2, <1>3, RuleEnds
<1>5. /\ Len(T2) = Len(s) + Len(T) - 1 /\ SameEnd(T, T2, Len(T) - 1)
      /\ \A n \in 1 .. Len(s) : T2[n] = s[n]
      /\ \A n \in 1 .. Len(T) - 1 : T2[Len(s) + n] = T[n + 1]
    BY <1>4 DEF Replaced
<1> QED
    BY <1>1, <1>5 DEF Gone

LEMMA Rule1 ==
    ASSUME NEW T \in Seq(Symbol), T # <<>>, NEW T2, NEW X, NEW X2, NEW e,
           NEW a \in Symbol,
           Rule(<<a>>, e, T, X, T2, X2)
    PROVE  Now(a, T, T2)
<1> DEFINE s == <<a>>
<1>1. Len(s) = 1 /\ Len(T) \in Nat /\ s[1] = a
    OBVIOUS
<1>2. s \in Seq(Symbol)
    OBVIOUS
<1>3. Rule(s, e, T, X, T2, X2)
    OBVIOUS
<1> HIDE DEF s
<1>4. Replaced(s, T, T2)
    BY <1>2, <1>3, RuleEnds
<1>5. /\ Len(T2) = Len(s) + Len(T) - 1 /\ SameEnd(T, T2, Len(T) - 1)
      /\ \A n \in 1 .. Len(s) : T2[n] = s[n]
      /\ \A n \in 1 .. Len(T) - 1 : T2[Len(s) + n] = T[n + 1]
    BY <1>4 DEF Replaced
<1>6. ASSUME NEW n \in 2 .. Len(T)
      PROVE  T2[n] = T[n]
    <2>1. n - 1 \in 1 .. Len(T) - 1
        BY <1>1
    <2>2. T2[1 + (n - 1)] = T[n - 1 + 1]
        BY <2>1, <1>1, <1>5
    <2> QED
        BY <2>2
<1> QED
    BY <1>1, <1>5, <1>6 DEF Now

LEMMA Rule2 ==
    ASSUME NEW T \in Seq(Symbol), T # <<>>, NEW T2, NEW X, NEW X2, NEW e,
           NEW a \in Symbol, NEW b \in Symbol,
           Rule(<<a, b>>, e, T, X, T2, X2)
    PROVE  NowTwo(a, b, T, T2)
<1> DEFINE s == <<a, b>>
<1>1. Len(s) = 2 /\ Len(T) \in Nat /\ s[1] = a /\ s[2] = b
    OBVIOUS
<1>2. s \in Seq(Symbol)
    OBVIOUS
<1>3. Rule(s, e, T, X, T2, X2)
    OBVIOUS
<1> HIDE DEF s
<1>4. Replaced(s, T, T2)
    BY <1>2, <1>3, RuleEnds
<1>5. /\ Len(T2) = Len(s) + Len(T) - 1 /\ SameEnd(T, T2, Len(T) - 1)
      /\ \A n \in 1 .. Len(s) : T2[n] = s[n]
      /\ \A n \in 1 .. Len(T) - 1 : T2[Len(s) + n] = T[n + 1]
    BY <1>4 DEF Replaced
<1> QED
    BY <1>1, <1>5 DEF NowTwo

LEMMA Rule4 ==
    ASSUME NEW T \in Seq(Symbol), T # <<>>, NEW T2, NEW X, NEW X2, NEW e,
           NEW a \in Symbol,
           Rule(<<a, ":", "object", "more">>, e, T, X, T2, X2)
    PROVE  NowPair(a, T, T2)
<1> DEFINE s == <<a, ":", "object", "more">>
<1>1. Len(s) = 4 /\ Len(T) \in Nat /\ s[1] = a /\ s[2] = ":" /\ s[3] = "object" /\ s[4] = "more"
    OBVIOUS
<1>2. ":" \in Symbol /\ "object" \in Symbol /\ "more" \in Symbol
    BY DEF Symbol
<1>3. s \in Seq(Symbol)
    BY <1>2
<1>4. Rule(s, e, T, X, T2, X2)
    OBVIOUS
<1> HIDE DEF s
<1>5. Replaced(s, T, T2)
    BY <1>3, <1>4, RuleEnds
<1>6. /\ Len(T2) = Len(s) + Len(T) - 1 /\ SameEnd(T, T2, Len(T) - 1)
      /\ \A n \in 1 .. Len(s) : T2[n] = s[n]
      /\ \A n \in 1 .. Len(T) - 1 : T2[Len(s) + n] = T[n + 1]
    BY <1>5 DEF Replaced
<1> QED
    BY <1>1, <1>6 DEF NowPair

LEMMA RuleReports ==
    ASSUME NEW T, NEW T2, NEW X \in Seq(Report), NEW X2, NEW s
    PROVE  /\ Rule(s, <<>>, T, X, T2, X2) => X2 = X
           /\ \A r \in Report : Rule(s, <<r>>, T, X, T2, X2) => X2 = Append(X, r)
<1>1. X \o <<>> = X
    OBVIOUS
<1>2. ASSUME NEW r \in Report
      PROVE  X \o <<r>> = Append(X, r)
    OBVIOUS
<1> QED
    BY <1>1, <1>2 DEF Rule
ReportOf(k) == <<k, <<>>>>

(* What may follow, by the first symbol that is left.                      *)
LEMMA FromObject ==
    ASSUME NEW T \in Seq(Symbol), NEW X \in Seq(Report), NEW t \in Seq(Chars), NEW c,
           NEW T2, NEW X2, NEW t2, Follows(c, T, X, t, T2, X2, t2), T[1] = "object"
    PROVE  \/ c = "ws" /\ T2 = T /\ X2 = X /\ t2 = t
           \/ c = "{" /\ NowPair("key", T, T2) /\ X2 = Append(X, ReportOf("STRUCT_START"))
           \/ c = "[" /\ NowTwo("space", "elements", T, T2) /\ X2 = Append(X, ReportOf("ARRAY_START"))
           \/ c = "quote" /\ Now("chars", T, T2) /\ X2 = X /\ t2 = <<>>
<1>1. T # <<>> /\ "key" \in Symbol /\ "space" \in Symbol /\ "elements" \in Symbol /\ "chars" \in Symbol
    BY DEF Follows, Symbol
<1>2. <<>> \in Seq(Chars) /\ "STRUCT_START" \in Kind /\ "ARRAY_START" \in Kind
    BY ReportIs DEF Kind
<1>3. ReportOf("STRUCT_START") \in Report /\ ReportOf("ARRAY_START") \in Report
    BY <1>2, ReportIs DEF ReportOf
<1>4. \/ c = "ws" /\ T2 = T /\ X2 = X /\ t2 = t
      \/ c = "{" /\ Rule(<<"key", ":", "object", "more">>, <<ReportOf("STRUCT_START")>>, T, X, T2, X2)
      \/ c = "[" /\ Rule(<<"space", "elements">>, <<ReportOf("ARRAY_START")>>, T, X, T2, X2)
      \/ c = "quote" /\ Rule(<<"chars">>, <<>>, T, X, T2, X2) /\ t2 = <<>>
    BY DEF Follows, ReportOf
<1>5. CASE c = "{" /\ Rule(<<"key", ":", "object", "more">>, <<ReportOf("STRUCT_START")>>, T, X, T2, X2)
    BY <1>1, <1>3, <1>5, Rule4, RuleReports
<1>6. CASE c = "[" /\ Rule(<<"space", "elements">>, <<ReportOf("ARRAY_START")>>, T, X, T2, X2)
    BY <1>1, <1>3, <1>6, Rule2, RuleReports
<1>7. CASE c = "quote" /\ Rule(<<"chars">>, <<>>, T, X, T2, X2) /\ t2 = <<>>
    BY <1>1, <1>7, Rule1, RuleReports
<1> QED
    BY <1>4, <1>5, <1>6, <1>7

LEMMA FromChars ==
    ASSUME NEW T \in Seq(Symbol), NEW X \in Seq(Report), NEW t \in Seq(Chars), NEW c,
           NEW T2, NEW X2, NEW t2, Follows(c, T, X, t, T2, X2, t2), T[1] \in {"key chars", "chars"}
    PROVE  \/ c # "quote" /\ Now(T[1], T, T2) /\ X2 = X /\ t2 = Append(t, c)
           \/ c = "quote" /\ Gone(T, T2) /\ T[1] = "key chars" /\ X2 = Append(X, <<"KEY", t>>)
           \/ c = "quote" /\ Gone(T, T2) /\ T[1] = "chars" /\ X2 = Append(X, <<"STRING", t>>)
<1>1. T # <<>> /\ T[1] \in Symbol
    BY DEF Follows, Symbol
<1>2. "KEY" \in Kind /\ "STRING" \in Kind
    BY DEF Kind
<1>3. <<"KEY", t>> \in Report /\ <<"STRING", t>> \in Report
    BY <1>2, ReportIs
<1>4. \/ c # "quote" /\ Rule(<<T[1]>>, <<>>, T, X, T2, X2) /\ t2 = Append(t, c)
      \/ c = "quote" /\ T[1] = "key chars" /\ Rule(<<>>, <<<<"KEY", t>>>>, T, X, T2, X2)
      \/ c = "quote" /\ T[1] = "chars" /\ Rule(<<>>, <<<<"STRING", t>>>>, T, X, T2, X2)
    BY DEF Follows
<1>5. CASE c # "quote" /\ Rule(<<T[1]>>, <<>>, T, X, T2, X2) /\ t2 = Append(t, c)
    BY <1>1, <1>5, Rule1, RuleReports
<1>6. CASE c = "quote" /\ T[1] = "key chars" /\ Rule(<<>>, <<<<"KEY", t>>>>, T, X, T2, X2)
    BY <1>1, <1>3, <1>6, Rule0, RuleReports
<1>7. CASE c = "quote" /\ T[1] = "chars" /\ Rule(<<>>, <<<<"STRING", t>>>>, T, X, T2, X2)
    BY <1>1, <1>3, <1>7, Rule0, RuleReports
<1> QED
    BY <1>4, <1>5, <1>6, <1>7

LEMMA FromKey ==
    ASSUME NEW T \in Seq(Symbol), NEW X \in Seq(Report), NEW t \in Seq(Chars), NEW c,
           NEW T2, NEW X2, NEW t2, Follows(c, T, X, t, T2, X2, t2), T[1] = "key"
    PROVE  \/ c = "ws" /\ T2 = T /\ X2 = X /\ t2 = t
           \/ c = "quote" /\ Now("key chars", T, T2) /\ X2 = X /\ t2 = <<>>
<1>1. T # <<>> /\ "key chars" \in Symbol
    BY DEF Follows, Symbol
<1>2. \/ c = "ws" /\ T2 = T /\ X2 = X /\ t2 = t
      \/ c = "quote" /\ Rule(<<"key chars">>, <<>>, T, X, T2, X2) /\ t2 = <<>>
    BY DEF Follows
<1>3. CASE c = "quote" /\ Rule(<<"key chars">>, <<>>, T, X, T2, X2) /\ t2 = <<>>
    BY <1>1, <1>3, Rule1, RuleReports
<1> QED
    BY <1>2, <1>3

LEMMA FromSpace ==
    ASSUME NEW T \in Seq(Symbol), NEW X \in Seq(Report), NEW t \in Seq(Chars), NEW c,
           NEW T2, NEW X2, NEW t2, Follows(c, T, X, t, T2, X2, t2), T[1] = "space"
    PROVE  c = "ws" /\ Now("object", T, T2) /\ X2 = X
<1>1. T # <<>> /\ "object" \in Symbol
    BY DEF Follows, Symbol
<1>2. c = "ws" /\ Rule(<<"object">>, <<>>, T, X, T2, X2)
    BY DEF Follows
<1> QED
    BY <1>1, <1>2, Rule1, RuleReports

LEMMA FromColon ==
    ASSUME NEW T \in Seq(Symbol), NEW X \in Seq(Report), NEW t \in Seq(Chars), NEW c,
           NEW T2, NEW X2, NEW t2, Follows(c, T, X, t, T2, X2, t2), T[1] = ":"
    PROVE  \/ c = "ws" /\ T2 = T /\ X2 = X /\ t2 = t
           \/ c = ":" /\ Gone(T, T2) /\ X2 = X
<1>1. T # <<>>
    BY DEF Follows
<1>2. \/ c = "ws" /\ T2 = T /\ X2 = X /\ t2 = t
      \/ c = ":" /\ Rule(<<>>, <<>>, T, X, T2, X2)
    BY DEF Follows
<1>3. CASE c = ":" /\ Rule(<<>>, <<>>, T, X, T2, X2)
    BY <1>1, <1>3, Rule0, RuleReports
<1> QED
    BY <1>2, <1>3

LEMMA FromMore ==
    ASSUME NEW T \in Seq(Symbol), NEW X \in Seq(Report), NEW t \in Seq(Chars), NEW c,
           NEW T2, NEW X2, NEW t2, Follows(c, T, X, t, T2, X2, t2), T[1] = "more"
    PROVE  \/ c = "ws" /\ T2 = T /\ X2 = X /\ t2 = t
           \/ c = "," /\ NowPair("key", T, T2) /\ X2 = X
           \/ c = "}" /\ Gone(T, T2) /\ X2 = Append(X, ReportOf("STRUCT_END"))
<1>1. T # <<>> /\ "key" \in Symbol
    BY DEF Follows, Symbol
<1>2. <<>> \in Seq(Chars) /\ "STRUCT_END" \in Kind
    BY ReportIs DEF Kind
<1>3. ReportOf("STRUCT_END") \in Report
    BY <1>2, ReportIs DEF ReportOf
<1>4. \/ c = "ws" /\ T2 = T /\ X2 = X /\ t2 = t
      \/ c = "," /\ Rule(<<"key", ":", "object", "more">>, <<>>, T, X, T2, X2)
      \/ c = "}" /\ Rule(<<>>, <<ReportOf("STRUCT_END")>>, T, X, T2, X2)
    BY DEF Follows, ReportOf
<1>5. CASE c = "," /\ Rule(<<"key", ":", "object", "more">>, <<>>, T, X, T2, X2)
    BY <1>1, <1>5, Rule4, RuleReports
<1>6. CASE c = "}" /\ Rule(<<>>, <<ReportOf("STRUCT_END")>>, T, X, T2, X2)
    BY <1>1, <1>3, <1>6, Rule0, RuleReports
<1> QED
    BY <1>4, <1>5, <1>6

LEMMA FromElements ==
    ASSUME NEW T \in Seq(Symbol), NEW X \in Seq(Report), NEW t \in Seq(Chars), NEW c,
           NEW T2, NEW X2, NEW t2, Follows(c, T, X, t, T2, X2, t2), T[1] = "elements"
    PROVE  \/ c = "ws" /\ T2 = T /\ X2 = X /\ t2 = t
           \/ c = "," /\ NowTwo("space", "elements", T, T2) /\ X2 = X
           \/ c = "]" /\ Gone(T, T2) /\ X2 = Append(X, ReportOf("ARRAY_END"))
<1>1. T # <<>> /\ "space" \in Symbol /\ "elements" \in Symbol
    BY DEF Follows, Symbol
<1>2. <<>> \in Seq(Chars) /\ "ARRAY_END" \in Kind
    BY ReportIs DEF Kind
<1>3. ReportOf("ARRAY_END") \in Report
    BY <1>2, ReportIs DEF ReportOf
<1>4. \/ c = "ws" /\ T2 = T /\ X2 = X /\ t2 = t
      \/ c = "," /\ Rule(<<"space", "elements">>, <<>>, T, X, T2, X2)
      \/ c = "]" /\ Rule(<<>>, <<ReportOf("ARRAY_END")>>, T, X, T2, X2)
    BY DEF Follows, ReportOf
<1>5. CASE c = "," /\ Rule(<<"space", "elements">>, <<>>, T, X, T2, X2)
    BY <1>1, <1>5, Rule2, RuleReports
<1>6. CASE c = "]" /\ Rule(<<>>, <<ReportOf("ARRAY_END")>>, T, X, T2, X2)
    BY <1>1, <1>3, <1>6, Rule0, RuleReports
<1> QED
    BY <1>4, <1>5, <1>6
-----------------------------------------------------------------------------
(* The parser's steps.  A turn of its loop keeps the character or consumes *)
(* it; it leaves the entries up to p as they were.                         *)
Kept(p) == buf' = buf /\ Unchanged(stack, stack', p)
Consumed(p) == buf' = NoChar /\ Unchanged(stack, stack', p)

\* The entry on top decides which state it is.
LEMMA ParseCases ==
    ASSUME Parse
    PROVE  /\ Current = "OBJECT" => Object
           /\ Current = "ARRAY" => Array
           /\ Current = "ARRAY_1" => Array1
           /\ Current = "OBJ" => Obj
           /\ Current = "OBJ_1" => Obj1
           /\ Current = "OBJ_2" => Obj2
           /\ Current = "OBJ_3" => Obj3
           /\ Current = "STRING" => String
           /\ Current = "DSTRING" => DString
BY DEF Parse, Object, Array, Array1, Obj, Obj1, Obj2, Obj3, String, DString

\* A turn has a character, takes nothing from the document, and counts.
LEMMA Turn ==
    ASSUME JsonTypes, Parse
    PROVE  /\ buf \in Chars /\ buf # NoChar
           /\ used \in Nat /\ used + 1 <= MaxLen /\ MaxLen \in Nat
           /\ todo' = todo /\ expected' = expected /\ text' = text /\ written' = written
           /\ buf' = NoChar => used' = used + 1
           /\ buf' = buf => used' = used
<1>1. /\ buf \in Chars /\ buf # NoChar /\ written \in 0 .. MaxLen /\ written > 0
      /\ todo' = todo /\ expected' = expected /\ text' = text /\ written' = written
    BY DEF JsonTypes, Parse, doc
<1>2. used = written - 1 /\ MaxLen \in Nat
    BY <1>1, MaxLenAssumption DEF used
<1>3. used \in Nat /\ used + 1 <= MaxLen
    BY <1>1, <1>2
<1>4. (buf' = NoChar => used' = written) /\ (buf' = buf => used' = written - 1)
    BY <1>1 DEF used
<1>5. written = used + 1
    BY <1>1, <1>2
<1> QED
    BY <1>1, <1>2, <1>3, <1>4, <1>5

\* The stack after parser_push_state and parser_replace_state.
LEMMA Pushed ==
    ASSUME JsonTypes, NEW n \in Nat, top = n, n <= MaxLen + 1, NEW s, Push(s)
    PROVE  /\ top' = n + 1 /\ stack'[n + 1] = s /\ lastOperation' = "push"
           /\ \A m \in 0 .. n : stack'[m] = stack[m]
<1>1. n + 1 \in 0 .. MaxLen + 2 /\ 0 .. n \subseteq 0 .. MaxLen + 2 /\ \A m \in 0 .. n : m # n + 1
    BY MaxLenAssumption
<1> QED
    BY <1>1 DEF JsonTypes, Push

LEMMA ReplacedOnTop ==
    ASSUME JsonTypes, NEW n \in Nat, top = n + 1, n <= MaxLen + 1, NEW s, NEW o, Replace(s, o)
    PROVE  /\ top' = n + 1 /\ stack'[n + 1] = s /\ lastOperation' = o
           /\ \A m \in 0 .. n : stack'[m] = stack[m]
<1>1. n + 1 \in 0 .. MaxLen + 2 /\ 0 .. n \subseteq 0 .. MaxLen + 2 /\ \A m \in 0 .. n : m # n + 1
    BY MaxLenAssumption
<1> QED
    BY <1>1 DEF JsonTypes, Replace

\* What is assumed of a turn with d structures open below entry p.
Turning(T, X, t, d, p) ==
    /\ JsonTypes /\ Parse
    /\ Follows(buf, T, X, t, todo, expected, text)
    /\ stack[p] = "OBJECT" /\ p <= used

\* The above in one, for the eleven situations that follow.
LEMMA TurnFacts ==
    ASSUME NEW T, NEW X, NEW t, NEW d, NEW p \in Nat, Turning(T, X, t, d, p)
    PROVE  /\ JsonTypes /\ Parse /\ stack[p] = "OBJECT" /\ p <= used
           /\ Follows(buf, T, X, t, todo, expected, text) /\ T # <<>>
           /\ used \in Nat /\ used + 1 <= MaxLen /\ MaxLen \in Nat
           /\ todo' = todo /\ expected' = expected /\ text' = text
           /\ buf' = NoChar => used' = used + 1
           /\ buf' = buf => used' = used
           /\ buf # NoChar /\ buf \in Chars
           /\ p <= MaxLen /\ p + 1 <= MaxLen
           /\ Unchanged(stack, stack, p)
<1>1. /\ JsonTypes /\ Parse /\ stack[p] = "OBJECT" /\ p <= used
      /\ Follows(buf, T, X, t, todo, expected, text) /\ T # <<>>
    BY DEF Turning, Follows
<1>2. /\ used \in Nat /\ used + 1 <= MaxLen /\ MaxLen \in Nat
      /\ todo' = todo /\ expected' = expected /\ text' = text
      /\ buf' = NoChar => used' = used + 1
      /\ buf' = buf => used' = used
      /\ buf # NoChar /\ buf \in Chars
    BY <1>1, Turn
<1>3. p <= MaxLen /\ p + 1 <= MaxLen
    BY <1>1, <1>2
<1>4. Unchanged(stack, stack, p)
    BY <1>3 DEF Unchanged
<1> QED
    BY <1>1, <1>2, <1>3, <1>4

\* case ST_OBJECT before a value, and ST_STRING at its quote.
LEMMA ValueStep ==
    ASSUME NEW T \in Seq(Symbol), NEW X \in Seq(Report), NEW t \in Seq(Chars),
           NEW d \in Nat, NEW p \in Nat, Turning(T, X, t, d, p), ValueDue(T, X, d, p)
    PROVE  \/ Kept(p) /\ ValueDue(T, X, d, p)'
           \/ /\ Consumed(p) /\ SameEnd(T, todo, d)
              /\ \/ ValueDue(todo, expected, d, p)'
                 \/ KeyDue(todo, expected, d, p)'
                 \/ SpaceDue(todo, expected, d, p)'
                 \/ InText(todo, expected, text, d, p)'
<1>1. /\ JsonTypes /\ Parse /\ Follows(buf, T, X, t, todo, expected, text)
      /\ stack[p] = "OBJECT" /\ p <= used
    BY DEF Turning
<1>2. /\ Len(T) = d + 1 /\ T[1] = "object" /\ X = events /\ lastOperation # "pop"
      /\ top = p \/ (top = p + 1 /\ stack[p + 1] = "STRING" /\ buf = "quote")
    BY DEF ValueDue
<1>3. /\ used \in Nat /\ used + 1 <= MaxLen /\ MaxLen \in Nat
      /\ todo' = todo /\ expected' = expected /\ text' = text
      /\ buf' = NoChar => used' = used + 1
      /\ buf # NoChar
    BY <1>1, Turn
<1>4. \/ buf = "ws" /\ todo = T /\ expected = X /\ text = t
      \/ buf = "{" /\ NowPair("key", T, todo) /\ expected = Append(X, ReportOf("STRUCT_START"))
      \/ buf = "[" /\ NowTwo("space", "elements", T, todo) /\ expected = Append(X, ReportOf("ARRAY_START"))
      \/ buf = "quote" /\ Now("chars", T, todo) /\ expected = X /\ text = <<>>
    <2>1. Follows(buf, T, X, t, todo, expected, text) /\ T[1] = "object"
        BY <1>1, <1>2
    <2> QED
        BY <2>1, FromObject
<1>5. PrevPop = "INVALID" /\ Looked = lastOperation
    BY <1>2 DEF PrevPop, Looked
<1>6. Unchanged(stack, stack, p) /\ p <= MaxLen /\ p <= MaxLen + 1 /\ p + 1 <= MaxLen + 1
    BY <1>1, <1>3 DEF Unchanged
<1>7. CASE top = p /\ buf = "ws"
    <2>1. Object
        BY <1>1, <1>7, ParseCases DEF Current
    <2>2. events' = events /\ buf' = NoChar /\ stack' = stack /\ top' = top /\ lastOperation' = lastOperation
        BY <1>5, <1>7, <2>1 DEF Object, SpaceOrInvalid, Silent, Consume, Stay
    <2>3. todo = T /\ expected = X
        BY <1>4, <1>7
    <2>4. Consumed(p) /\ SameEnd(T, todo, d)
        BY <1>6, <2>2, <2>3, <1>2 DEF Consumed, SameEnd
    <2>5. ValueDue(todo, expected, d, p)'
        BY <1>2, <1>3, <1>7, <2>2, <2>3 DEF ValueDue
    <2> QED
        BY <2>4, <2>5
<1>8. CASE top = p /\ buf = "{"
    <2>1. Object
        BY <1>1, <1>8, ParseCases DEF Current
    <2>2. events' = Append(events, ReportOf("STRUCT_START")) /\ buf' = NoChar /\ Push("OBJ")
        BY <1>5, <1>8, <2>1 DEF Object, Event, Consume, ReportOf, SpaceOrInvalid
    <2>3. NowPair("key", T, todo) /\ expected = Append(X, ReportOf("STRUCT_START"))
        BY <1>4, <1>8
    <2>4. top' = p + 1 /\ stack'[p + 1] = "OBJ" /\ lastOperation' = "push" /\ \A m \in 0 .. p : stack'[m] = stack[m]
        BY <1>1, <1>6, <1>8, <2>2, Pushed
    <2>5. Consumed(p) /\ SameEnd(T, todo, d)
        BY <1>2, <1>6, <2>2, <2>3, <2>4 DEF Consumed, NowPair, Unchanged
    <2>6. KeyDue(todo, expected, d, p)'
        BY <1>1, <1>2, <1>3, <2>2, <2>3, <2>4 DEF KeyDue, Pair, NowPair
    <2> QED
        BY <2>5, <2>6
<1>9. CASE top = p /\ buf = "["
    <2>1. Object
        BY <1>1, <1>9, ParseCases DEF Current
    <2>2. events' = Append(events, ReportOf("ARRAY_START")) /\ buf' = NoChar /\ Push("ARRAY")
        BY <1>5, <1>9, <2>1 DEF Object, Event, Consume, ReportOf, SpaceOrInvalid
    <2>3. NowTwo("space", "elements", T, todo) /\ expected = Append(X, ReportOf("ARRAY_START"))
        BY <1>4, <1>9
    <2>4. top' = p + 1 /\ stack'[p + 1] = "ARRAY" /\ lastOperation' = "push" /\ \A m \in 0 .. p : stack'[m] = stack[m]
        BY <1>1, <1>6, <1>9, <2>2, Pushed
    <2>5. Consumed(p) /\ SameEnd(T, todo, d)
        BY <1>2, <1>6, <2>2, <2>3, <2>4 DEF Consumed, NowTwo, Unchanged
    <2>6. SpaceDue(todo, expected, d, p)'
        BY <1>1, <1>2, <1>3, <2>2, <2>3, <2>4 DEF SpaceDue, NowTwo
    <2> QED
        BY <2>5, <2>6
<1>10. CASE top = p /\ buf = "quote"
    <2>1. Object
        BY <1>1, <1>10, ParseCases DEF Current
    <2>2. events' = events /\ buf' = buf /\ Push("STRING")
        BY <1>5, <1>10, <2>1 DEF Object, Silent, Keep, SpaceOrInvalid
    <2>3. top' = p + 1 /\ stack'[p + 1] = "STRING" /\ lastOperation' = "push" /\ \A m \in 0 .. p : stack'[m] = stack[m]
        BY <1>1, <1>6, <1>10, <2>2, Pushed
    <2>4. Kept(p)
        BY <1>6, <2>2, <2>3 DEF Kept, Unchanged
    <2>5. ValueDue(T, X, d, p)'
        BY <1>2, <1>10, <2>2, <2>3 DEF ValueDue
    <2> QED
        BY <2>4, <2>5
<1>11. CASE top = p + 1 /\ stack[p + 1] = "STRING" /\ buf = "quote"
    <2>1. String
        BY <1>1, <1>11, ParseCases DEF Current
    <2>2. events' = events /\ buf' = NoChar /\ Push("DSTRING") /\ string_val' = <<>>
        BY <1>5, <1>11, <2>1 DEF String, Silent, Consume
    <2>3. Now("chars", T, todo) /\ expected = X /\ text = <<>>
        BY <1>4, <1>11
    <2>4. top' = p + 2 /\ stack'[p + 2] = "DSTRING" /\ \A m \in 0 .. p + 1 : stack'[m] = stack[m]
        BY <1>1, <1>6, <1>11, <2>2, Pushed
    <2>5. Consumed(p) /\ SameEnd(T, todo, d)
        BY <1>2, <1>6, <2>2, <2>3, <2>4 DEF Consumed, Now, Unchanged
    <2>6. InText(todo, expected, text, d, p)'
        BY <1>2, <1>3, <1>11, <2>2, <2>3, <2>4 DEF InText, Now
    <2> QED
        BY <2>5, <2>6
<1> QED
    BY <1>2, <1>4, <1>7, <1>8, <1>9, <1>10, <1>11

\* case ST_DSTRING in a value.
LEMMA TextStep ==
    ASSUME NEW T \in Seq(Symbol), NEW X \in Seq(Report), NEW t \in Seq(Chars),
           NEW d \in Nat, NEW p \in Nat, Turning(T, X, t, d, p), InText(T, X, t, d, p)
    PROVE  /\ Consumed(p) /\ SameEnd(T, todo, d)
           /\ (InText(todo, expected, text, d, p)' \/ TextDone(todo, expected, d, p)')
<1>1. /\ JsonTypes /\ Parse /\ stack[p] = "OBJECT" /\ p <= used
      /\ Follows(buf, T, X, t, todo, expected, text) /\ T # <<>>
      /\ used \in Nat /\ used + 1 <= MaxLen /\ MaxLen \in Nat
      /\ todo' = todo /\ expected' = expected /\ text' = text
      /\ buf' = NoChar => used' = used + 1
      /\ buf' = buf => used' = used
      /\ buf # NoChar /\ buf \in Chars
      /\ p <= MaxLen /\ p + 1 <= MaxLen
      /\ Unchanged(stack, stack, p)
    BY TurnFacts
<1>2. /\ Len(T) = d + 1 /\ T[1] = "chars" /\ X = events /\ string_val = t
      /\ top = p + 2 /\ stack[p + 1] = "STRING" /\ stack[p + 2] = "DSTRING"
    BY DEF InText
<1>3. \/ buf # "quote" /\ Now("chars", T, todo) /\ expected = X /\ text = Append(t, buf)
      \/ buf = "quote" /\ Gone(T, todo) /\ expected = Append(X, <<"STRING", t>>)
    <2>1. Follows(buf, T, X, t, todo, expected, text) /\ T[1] = "chars"
        BY <1>1, <1>2
    <2> QED
        BY <2>1, FromChars
<1>4. DString
    BY <1>1, <1>2, ParseCases DEF Current
<1>5. events' = events /\ buf' = NoChar
    BY <1>4 DEF DString, Silent, Consume
<1>6. CASE buf # "quote"
    <2>1. string_val' = Append(t, buf) /\ stack' = stack /\ top' = top
        BY <1>2, <1>4, <1>6 DEF DString, Stay
    <2>2. Now("chars", T, todo) /\ expected = X /\ text = Append(t, buf)
        BY <1>3, <1>6
    <2>3. Consumed(p) /\ SameEnd(T, todo, d)
        BY <1>1, <1>2, <1>5, <2>1, <2>2 DEF Consumed, Now
    <2>4. InText(todo, expected, text, d, p)'
        BY <1>1, <1>2, <1>5, <2>1, <2>2 DEF InText, Now
    <2> QED
        BY <2>3, <2>4
<1>7. CASE buf = "quote"
    <2>1. string_val' = t /\ stack' = stack /\ top' = p + 1 /\ lastOperation' = "pop"
        BY <1>2, <1>4, <1>7 DEF DString, Pop
    <2>2. Gone(T, todo) /\ expected = Append(X, <<"STRING", t>>)
        BY <1>3, <1>7
    <2>3. Consumed(p) /\ SameEnd(T, todo, d)
        BY <1>1, <1>2, <1>5, <2>1, <2>2 DEF Consumed, Gone
    <2>4. TextDone(todo, expected, d, p)'
        BY <1>1, <1>2, <1>5, <2>1, <2>2 DEF TextDone, Gone
    <2> QED
        BY <2>3, <2>4
<1> QED
    BY <1>6, <1>7

\* case ST_STRING and ST_OBJECT after the last quote: the string is reported.
LEMMA TextDoneStep ==
    ASSUME NEW T \in Seq(Symbol), NEW X \in Seq(Report), NEW t \in Seq(Chars),
           NEW d \in Nat, NEW p \in Nat, Turning(T, X, t, d, p), TextDone(T, X, d, p)
    PROVE  Kept(p) /\ (TextDone(T, X, d, p)' \/ StructureDone(T, X, d, p)')
<1>1. /\ JsonTypes /\ Parse /\ stack[p] = "OBJECT" /\ p <= used
      /\ Follows(buf, T, X, t, todo, expected, text) /\ T # <<>>
      /\ used \in Nat /\ used + 1 <= MaxLen /\ MaxLen \in Nat
      /\ todo' = todo /\ expected' = expected /\ text' = text
      /\ buf' = NoChar => used' = used + 1
      /\ buf' = buf => used' = used
      /\ buf # NoChar /\ buf \in Chars
      /\ p <= MaxLen /\ p + 1 <= MaxLen
      /\ Unchanged(stack, stack, p)
    BY TurnFacts
<1>2. /\ Len(T) = d /\ X = Append(events, <<"STRING", string_val>>) /\ lastOperation = "pop"
      /\ stack[p + 1] = "STRING"
      /\ \/ top = p + 1 /\ stack[p + 2] = "DSTRING"
         \/ top = p
    BY DEF TextDone
<1>3. d > 0
    BY <1>1, <1>2
<1>4. CASE top = p + 1 /\ stack[p + 2] = "DSTRING"
    <2>1. String
        BY <1>1, <1>2, <1>4, ParseCases DEF Current
    <2>2. PrevPop = "DSTRING"
        BY <1>2, <1>4 DEF PrevPop
    <2>3. /\ events' = events /\ buf' = buf /\ string_val' = string_val
          /\ stack' = stack /\ top' = p /\ lastOperation' = "pop"
        BY <1>4, <2>1, <2>2 DEF String, Silent, Keep, Pop
    <2>4. Kept(p)
        BY <1>1, <2>3 DEF Kept
    <2>5. TextDone(T, X, d, p)'
        BY <1>1, <1>2, <2>3 DEF TextDone
    <2> QED
        BY <2>4, <2>5
<1>5. CASE top = p
    <2>1. Object
        BY <1>1, <1>5, ParseCases DEF Current
    <2>2. PrevPop = "STRING"
        BY <1>2, <1>5 DEF PrevPop
    <2>3. /\ events' = X /\ buf' = buf
          /\ stack' = stack /\ top' = p - 1 /\ lastOperation' = "pop"
        BY <1>2, <1>5, <2>1, <2>2 DEF Object, Event, Keep, Pop
    <2>4. Kept(p)
        BY <1>1, <2>3 DEF Kept
    <2>5. StructureDone(T, X, d, p)'
        BY <1>1, <1>2, <1>3, <2>3 DEF StructureDone
    <2> QED
        BY <2>4, <2>5
<1> QED
    BY <1>2, <1>4, <1>5

\* case ST_OBJECT after a structure.
LEMMA StructureDoneStep ==
    ASSUME NEW T \in Seq(Symbol), NEW X \in Seq(Report), NEW t \in Seq(Chars),
           NEW d \in Nat, NEW p \in Nat, Turning(T, X, t, d, p), StructureDone(T, X, d, p), top = p
    PROVE  Kept(p) /\ StructureDone(T, X, d, p)'
<1>1. /\ JsonTypes /\ Parse /\ stack[p] = "OBJECT" /\ p <= used
      /\ Follows(buf, T, X, t, todo, expected, text) /\ T # <<>>
      /\ used \in Nat /\ used + 1 <= MaxLen /\ MaxLen \in Nat
      /\ todo' = todo /\ expected' = expected /\ text' = text
      /\ buf' = NoChar => used' = used + 1
      /\ buf' = buf => used' = used
      /\ buf # NoChar /\ buf \in Chars
      /\ p <= MaxLen /\ p + 1 <= MaxLen
      /\ Unchanged(stack, stack, p)
    BY TurnFacts
<1>2. /\ Len(T) = d /\ X = events /\ lastOperation = "pop"
      /\ stack[p + 1] \in {"OBJ_3", "ARRAY_1"}
    BY DEF StructureDone
<1>3. d > 0
    BY <1>1, <1>2
<1>4. Object
    BY <1>1, ParseCases DEF Current
<1>5. PrevPop \in {"OBJ_3", "ARRAY_1"}
    BY <1>2 DEF PrevPop
<1>6. events' = events /\ buf' = buf /\ stack' = stack /\ top' = p - 1 /\ lastOperation' = "pop"
    BY <1>4, <1>5 DEF Object, Silent, Keep, Pop
<1>7. Kept(p)
    BY <1>1, <1>6 DEF Kept
<1>8. StructureDone(T, X, d, p)'
    BY <1>1, <1>2, <1>3, <1>6 DEF StructureDone
<1> QED
    BY <1>7, <1>8

\* The value is done; the structure it is in starts at entry q + 1.
LEMMA LeaveStep ==
    ASSUME NEW T \in Seq(Symbol), NEW X \in Seq(Report), NEW t \in Seq(Chars),
           NEW d \in Nat, NEW p \in Nat, Turning(T, X, t, d, p), StructureDone(T, X, d, p), top = p - 1,
           d > 0, NEW q \in Nat, Level(stack, T[1], q, p)
    PROVE  Kept(q) /\ (ElementsDue(T, X, d - 1, q)' \/ MoreDue(T, X, d - 1, q)')
<1>1. /\ JsonTypes /\ Parse /\ stack[p] = "OBJECT" /\ p <= used
      /\ Follows(buf, T, X, t, todo, expected, text) /\ T # <<>>
      /\ used \in Nat /\ used + 1 <= MaxLen /\ MaxLen \in Nat
      /\ todo' = todo /\ expected' = expected /\ text' = text
      /\ buf' = NoChar => used' = used + 1
      /\ buf' = buf => used' = used
      /\ buf # NoChar /\ buf \in Chars
      /\ p <= MaxLen /\ p + 1 <= MaxLen
      /\ Unchanged(stack, stack, p)
    BY TurnFacts
<1>2. Len(T) = d /\ X = events /\ lastOperation = "pop"
    BY DEF StructureDone
<1>3. p + 1 - 1 = p /\ Len(T) = d - 1 + 1
    BY <1>2
<1>4. PrevPop = "OBJECT" /\ Looked = "none"
    BY <1>1, <1>2, <1>3 DEF PrevPop, Looked
<1>5. q <= MaxLen /\ q <= MaxLen + 1 /\ q + 2 <= p
    BY <1>1, LevelWidth
<1>6. CASE T[1] = "elements"
    <2>1. p = q + 2 /\ top = q + 1 /\ stack[q + 1] = "ARRAY"
        BY <1>6 DEF Level
    <2>2. Array
        BY <1>1, <2>1, ParseCases DEF Current
    <2>3. events' = events /\ buf' = buf /\ Replace("ARRAY_1", "none")
        BY <1>4, <2>2 DEF Array, Silent, Keep
    <2>4. top' = q + 1 /\ stack'[q + 1] = "ARRAY_1" /\ lastOperation' = "none" /\ \A m \in 0 .. q : stack'[m] = stack[m]
        BY <1>1, <1>5, <2>1, <2>3, ReplacedOnTop
    <2>5. Kept(q)
        BY <1>5, <2>3, <2>4 DEF Kept, Unchanged
    <2>6. ElementsDue(T, X, d - 1, q)'
        BY <1>2, <1>3, <1>6, <2>3, <2>4 DEF ElementsDue
    <2> QED
        BY <2>5, <2>6
<1>7. CASE T[1] = "more"
    <2>1. p = q + 3 /\ top = q + 2 /\ stack[q + 1] = "OBJ" /\ stack[q + 2] = "OBJ_1"
        BY <1>7 DEF Level
    <2>2. Obj1
        BY <1>1, <2>1, ParseCases DEF Current
    <2>3. events' = events /\ buf' = buf /\ stack' = stack /\ top' = q + 1 /\ lastOperation' = "pop"
        BY <1>4, <2>1, <2>2 DEF Obj1, Silent, Keep, Pop
    <2>4. Kept(q)
        BY <1>5, <2>3 DEF Kept, Unchanged
    <2>5. MoreDue(T, X, d - 1, q)'
        BY <1>1, <1>2, <1>3, <1>7, <2>1, <2>3 DEF MoreDue
    <2> QED
        BY <2>4, <2>5
<1> QED
    BY <1>6, <1>7 DEF Level

\* How many symbols are left of a pair, and that those below it stay.
LEMMA SameEndLess ==
    ASSUME NEW T \in Seq(Symbol), NEW T2 \in Seq(Symbol), NEW e \in Nat, NEW d \in Nat, d <= e, SameEnd(T, T2, e)
    PROVE  SameEnd(T, T2, d)
<1>1. Len(T2) \in Nat /\ Len(T2) >= e
    BY DEF SameEnd
<1>2. Len(T2) >= d
    BY <1>1
<1>3. 1 .. d \subseteq 1 .. e
    OBVIOUS
<1> QED
    BY <1>2, <1>3 DEF SameEnd

LEMMA PairPlaced ==
    ASSUME NEW T \in Seq(Symbol), NEW T2 \in Seq(Symbol), NEW d \in Nat, NEW a, Len(T) = d + 1, NowPair(a, T, T2)
    PROVE  Pair(T2, d) /\ T2[1] = a /\ SameEnd(T, T2, d)
<1>1. Len(T) - 1 = d /\ Len(T2) = d + 4
    BY DEF NowPair
<1> QED
    BY <1>1 DEF NowPair, Pair

LEMMA PairKept ==
    ASSUME NEW T \in Seq(Symbol), NEW T2 \in Seq(Symbol), NEW d \in Nat, NEW a, Pair(T, d), Now(a, T, T2)
    PROVE  Pair(T2, d) /\ T2[1] = a /\ SameEnd(T, T2, d)
<1>1. Len(T) = d + 4 /\ Len(T) - 1 = d + 3 /\ Len(T2) = d + 4
    BY DEF Now, Pair
<1>2. 2 \in 2 .. Len(T) /\ 3 \in 2 .. Len(T) /\ 4 \in 2 .. Len(T)
    BY <1>1
<1>3. T2[2] = ":" /\ T2[3] = "object" /\ T2[4] = "more"
    BY <1>2 DEF Now, Pair
<1>4. SameEnd(T, T2, d + 3) /\ T2[1] = a
    BY <1>1 DEF Now
<1>5. d <= d + 3 /\ d + 3 \in Nat
    OBVIOUS
<1>6. SameEnd(T, T2, d)
    BY <1>4, <1>5, SameEndLess
<1> QED
    BY <1>1, <1>3, <1>4, <1>6 DEF Pair

LEMMA PairNamed ==
    ASSUME NEW T \in Seq(Symbol), NEW T2 \in Seq(Symbol), NEW d \in Nat, Pair(T, d), Gone(T, T2)
    PROVE  Named(T2, d) /\ SameEnd(T, T2, d)
<1>1. Len(T) = d + 4 /\ Len(T) - 1 = d + 3 /\ Len(T2) = d + 3
    BY DEF Gone, Pair
<1>2. 1 \in 1 .. Len(T) - 1 /\ 2 \in 1 .. Len(T) - 1 /\ 3 \in 1 .. Len(T) - 1
    BY <1>1
<1>3. T2[1] = T[1 + 1] /\ T2[2] = T[2 + 1] /\ T2[3] = T[3 + 1]
    BY <1>2 DEF Gone
<1>4. SameEnd(T, T2, d + 3)
    BY <1>1 DEF Gone
<1>5. d <= d + 3 /\ d + 3 \in Nat
    OBVIOUS
<1>6. SameEnd(T, T2, d)
    BY <1>4, <1>5, SameEndLess
<1> QED
    BY <1>1, <1>3, <1>6 DEF Pair, Named

LEMMA NamedValue ==
    ASSUME NEW T \in Seq(Symbol), NEW T2 \in Seq(Symbol), NEW d \in Nat, Named(T, d), Gone(T, T2)
    PROVE  /\ Len(T2) = d + 2 /\ T2[1] = "object" /\ T2[2] = "more"
           /\ SameEnd(T, T2, d)
<1>1. Len(T) = d + 3 /\ Len(T) - 1 = d + 2 /\ Len(T2) = d + 2
    BY DEF Gone, Named
<1>2. 1 \in 1 .. Len(T) - 1 /\ 2 \in 1 .. Len(T) - 1
    BY <1>1
<1>3. T2[1] = T[1 + 1] /\ T2[2] = T[2 + 1]
    BY <1>2 DEF Gone
<1>4. SameEnd(T, T2, d + 2)
    BY <1>1 DEF Gone
<1>5. d <= d + 2 /\ d + 2 \in Nat
    OBVIOUS
<1>6. SameEnd(T, T2, d)
    BY <1>4, <1>5, SameEndLess
<1> QED
    BY <1>1, <1>3, <1>6 DEF Named

LEMMA ElementsKept ==
    ASSUME NEW T \in Seq(Symbol), NEW T2 \in Seq(Symbol), NEW d \in Nat, NEW a,
           Len(T) = d + 2, T[2] = "elements", Now(a, T, T2)
    PROVE  /\ Len(T2) = d + 2 /\ T2[1] = a /\ T2[2] = "elements"
           /\ SameEnd(T, T2, d)
<1>1. Len(T) - 1 = d + 1 /\ Len(T2) = d + 2
    BY DEF Now
<1>2. 2 \in 2 .. Len(T)
    OBVIOUS
<1>3. T2[2] = T[2]
    BY <1>2 DEF Now
<1>4. SameEnd(T, T2, d + 1) /\ T2[1] = a
    BY <1>1 DEF Now
<1>5. d <= d + 1 /\ d + 1 \in Nat
    OBVIOUS
<1>6. SameEnd(T, T2, d)
    BY <1>4, <1>5, SameEndLess
<1> QED
    BY <1>1, <1>3, <1>4, <1>6

\* case ST_ARRAY_1.
LEMMA ElementsStep ==
    ASSUME NEW T \in Seq(Symbol), NEW X \in Seq(Report), NEW t \in Seq(Chars),
           NEW d \in Nat, NEW p \in Nat, Turning(T, X, t, d, p), ElementsDue(T, X, d, p)
    PROVE  /\ Consumed(p) /\ SameEnd(T, todo, d)
           /\ \/ ElementsDue(todo, expected, d, p)'
              \/ SpaceDue(todo, expected, d, p)'
              \/ StructureDone(todo, expected, d, p)'
<1>1. /\ JsonTypes /\ Parse /\ stack[p] = "OBJECT" /\ p <= used
      /\ Follows(buf, T, X, t, todo, expected, text) /\ T # <<>>
      /\ used \in Nat /\ used + 1 <= MaxLen /\ MaxLen \in Nat
      /\ todo' = todo /\ expected' = expected /\ text' = text
      /\ buf' = NoChar => used' = used + 1
      /\ buf' = buf => used' = used
      /\ buf # NoChar /\ buf \in Chars
      /\ p <= MaxLen /\ p + 1 <= MaxLen
      /\ Unchanged(stack, stack, p)
    BY TurnFacts
<1>2. /\ Len(T) = d + 1 /\ T[1] = "elements" /\ X = events
      /\ top = p + 1 /\ stack[p + 1] = "ARRAY_1" /\ lastOperation # "pop"
    BY DEF ElementsDue
<1>3. \/ buf = "ws" /\ todo = T /\ expected = X
      \/ buf = "," /\ NowTwo("space", "elements", T, todo) /\ expected = X
      \/ buf = "]" /\ Gone(T, todo) /\ expected = Append(X, ReportOf("ARRAY_END"))
    <2>1. Follows(buf, T, X, t, todo, expected, text) /\ T[1] = "elements"
        BY <1>1, <1>2
    <2> QED
        BY <2>1, FromElements
<1>4. Array1
    BY <1>1, <1>2, ParseCases DEF Current
<1>5. p <= MaxLen + 1
    BY <1>1
<1>6. CASE buf = "ws"
    <2>1. events' = events /\ buf' = NoChar /\ stack' = stack /\ top' = top /\ lastOperation' = lastOperation
        BY <1>4, <1>6 DEF Array1, SpaceOrInvalid, Silent, Consume, Stay
    <2>2. todo = T /\ expected = X
        BY <1>3, <1>6
    <2>3. Consumed(p) /\ SameEnd(T, todo, d)
        BY <1>1, <1>2, <2>1, <2>2 DEF Consumed, SameEnd
    <2>4. ElementsDue(todo, expected, d, p)'
        BY <1>1, <1>2, <2>1, <2>2 DEF ElementsDue
    <2> QED
        BY <2>3, <2>4
<1>7. CASE buf = ","
    <2>1. events' = events /\ buf' = NoChar /\ Replace("ARRAY", lastOperation)
        BY <1>4, <1>7 DEF Array1, Silent, Consume
    <2>2. NowTwo("space", "elements", T, todo) /\ expected = X
        BY <1>3, <1>7
    <2>3. top' = p + 1 /\ stack'[p + 1] = "ARRAY" /\ lastOperation' = lastOperation /\ \A m \in 0 .. p : stack'[m] = stack[m]
        BY <1>1, <1>2, <1>5, <2>1, ReplacedOnTop
    <2>4. Consumed(p) /\ SameEnd(T, todo, d)
        BY <1>1, <1>2, <2>1, <2>2, <2>3 DEF Consumed, NowTwo, Unchanged
    <2>5. SpaceDue(todo, expected, d, p)'
        BY <1>1, <1>2, <2>1, <2>2, <2>3 DEF SpaceDue, NowTwo
    <2> QED
        BY <2>4, <2>5
<1>8. CASE buf = "]"
    <2>1. events' = Append(events, ReportOf("ARRAY_END")) /\ buf' = NoChar
          /\ stack' = stack /\ top' = p /\ lastOperation' = "pop"
        BY <1>2, <1>4, <1>8 DEF Array1, Event, ReportOf, Consume, Pop, SpaceOrInvalid
    <2>2. Gone(T, todo) /\ expected = Append(X, ReportOf("ARRAY_END"))
        BY <1>3, <1>8
    <2>3. Consumed(p) /\ SameEnd(T, todo, d)
        BY <1>1, <1>2, <2>1, <2>2 DEF Consumed, Gone
    <2>4. StructureDone(todo, expected, d, p)'
        BY <1>1, <1>2, <2>1, <2>2 DEF StructureDone, Gone
    <2> QED
        BY <2>3, <2>4
<1> QED
    BY <1>3, <1>6, <1>7, <1>8

\* case ST_OBJ when the pair is done, ST_OBJ_2, ST_OBJ_3.
LEMMA MoreStep ==
    ASSUME NEW T \in Seq(Symbol), NEW X \in Seq(Report), NEW t \in Seq(Chars),
           NEW d \in Nat, NEW p \in Nat, Turning(T, X, t, d, p), MoreDue(T, X, d, p)
    PROVE  \/ Kept(p) /\ MoreDue(T, X, d, p)'
           \/ /\ Consumed(p) /\ SameEnd(T, todo, d)
              /\ \/ MoreDue(todo, expected, d, p)'
                 \/ KeyDue(todo, expected, d, p)'
                 \/ StructureDone(todo, expected, d, p)'
<1>1. /\ JsonTypes /\ Parse /\ stack[p] = "OBJECT" /\ p <= used
      /\ Follows(buf, T, X, t, todo, expected, text) /\ T # <<>>
      /\ used \in Nat /\ used + 1 <= MaxLen /\ MaxLen \in Nat
      /\ todo' = todo /\ expected' = expected /\ text' = text
      /\ buf' = NoChar => used' = used + 1
      /\ buf' = buf => used' = used
      /\ buf # NoChar /\ buf \in Chars
      /\ p <= MaxLen /\ p + 1 <= MaxLen
      /\ Unchanged(stack, stack, p)
    BY TurnFacts
<1>2. /\ Len(T) = d + 1 /\ T[1] = "more" /\ X = events /\ top = p + 1
      /\ \/ stack[p + 1] = "OBJ" /\ stack[p + 2] = "OBJ_1" /\ lastOperation = "pop"
         \/ stack[p + 1] = "OBJ_2" /\ lastOperation # "pop"
         \/ stack[p + 1] = "OBJ_3" /\ lastOperation # "pop" /\ buf \notin {",", "ws", NoChar}
    BY DEF MoreDue
<1>3. \/ buf = "ws" /\ todo = T /\ expected = X
      \/ buf = "," /\ NowPair("key", T, todo) /\ expected = X
      \/ buf = "}" /\ Gone(T, todo) /\ expected = Append(X, ReportOf("STRUCT_END"))
    <2>1. Follows(buf, T, X, t, todo, expected, text) /\ T[1] = "more"
        BY <1>1, <1>2
    <2> QED
        BY <2>1, FromMore
<1>4. p <= MaxLen + 1
    BY <1>1
<1>5. CASE stack[p + 1] = "OBJ" /\ stack[p + 2] = "OBJ_1" /\ lastOperation = "pop"
    <2>1. Obj
        BY <1>1, <1>2, <1>5, ParseCases DEF Current
    <2>2. PrevPop = "OBJ_1" /\ Looked = "none"
        BY <1>2, <1>5 DEF PrevPop, Looked
    <2>3. events' = events /\ buf' = buf /\ Replace("OBJ_2", "none")
        BY <2>1, <2>2 DEF Obj, Silent, Keep
    <2>4. top' = p + 1 /\ stack'[p + 1] = "OBJ_2" /\ lastOperation' = "none" /\ \A m \in 0 .. p : stack'[m] = stack[m]
        BY <1>1, <1>2, <1>4, <2>3, ReplacedOnTop
    <2>5. Kept(p)
        BY <1>1, <2>3, <2>4 DEF Kept, Unchanged
    <2>6. MoreDue(T, X, d, p)'
        BY <1>2, <2>3, <2>4 DEF MoreDue
    <2> QED
        BY <2>5, <2>6
<1>6. CASE stack[p + 1] = "OBJ_2" /\ lastOperation # "pop" /\ buf = "ws"
    <2>1. Obj2
        BY <1>1, <1>2, <1>6, ParseCases DEF Current
    <2>2. events' = events /\ buf' = NoChar /\ stack' = stack /\ top' = top /\ lastOperation' = lastOperation
        BY <1>6, <2>1 DEF Obj2, Silent, Consume, Stay
    <2>3. todo = T /\ expected = X
        BY <1>3, <1>6
    <2>4. Len(T) = d + 1
        BY <1>2
    <2>5. Len(T) >= d
        BY <2>4
    <2>6. SameEnd(T, todo, d)
        BY <2>5, <2>3 DEF SameEnd
    <2>7. Consumed(p) /\ SameEnd(T, todo, d)
        BY <1>1, <2>2, <2>6 DEF Consumed
    <2>8. MoreDue(todo, expected, d, p)'
        BY <1>1, <1>2, <1>6, <2>2, <2>3 DEF MoreDue
    <2> QED
        BY <2>7, <2>8
<1>7. CASE stack[p + 1] = "OBJ_2" /\ lastOperation # "pop" /\ buf = ","
    <2>1. Obj2
        BY <1>1, <1>2, <1>7, ParseCases DEF Current
    <2>2. events' = events /\ buf' = NoChar /\ Replace("OBJ", lastOperation)
        BY <1>7, <2>1 DEF Obj2, Silent, Consume
    <2>3. NowPair("key", T, todo) /\ expected = X
        BY <1>3, <1>7
    <2>4. top' = p + 1 /\ stack'[p + 1] = "OBJ" /\ lastOperation' = lastOperation /\ \A m \in 0 .. p : stack'[m] = stack[m]
        BY <1>1, <1>2, <1>4, <2>2, ReplacedOnTop
    <2>5. Pair(todo, d) /\ todo[1] = "key" /\ SameEnd(T, todo, d)
        BY <1>1, <1>2, <2>3, PairPlaced DEF JsonTypes
    <2>6. Consumed(p) /\ SameEnd(T, todo, d)
        BY <1>1, <2>2, <2>4, <2>5 DEF Consumed, Unchanged
    <2>7. p + 1 <= used'
        BY <1>1, <2>2
    <2>8. KeyDue(todo, expected, d, p)'
        BY <1>1, <1>2, <1>7, <2>2, <2>3, <2>4, <2>5, <2>7 DEF KeyDue, Pair
    <2> QED
        BY <2>6, <2>8
<1>8. CASE stack[p + 1] = "OBJ_2" /\ lastOperation # "pop" /\ buf = "}"
    <2>1. Obj2
        BY <1>1, <1>2, <1>8, ParseCases DEF Current
    <2>2. events' = events /\ buf' = buf /\ Replace("OBJ_3", lastOperation)
        BY <1>8, <2>1 DEF Obj2, Silent, Keep
    <2>3. top' = p + 1 /\ stack'[p + 1] = "OBJ_3" /\ lastOperation' = lastOperation /\ \A m \in 0 .. p : stack'[m] = stack[m]
        BY <1>1, <1>2, <1>4, <2>2, ReplacedOnTop
    <2>4. Kept(p)
        BY <1>1, <2>2, <2>3 DEF Kept, Unchanged
    <2>5. MoreDue(T, X, d, p)'
        BY <1>2, <1>8, <2>2, <2>3 DEF MoreDue, NoChar
    <2> QED
        BY <2>4, <2>5
<1>9. CASE stack[p + 1] = "OBJ_3" /\ lastOperation # "pop" /\ buf \notin {",", "ws", NoChar}
    <2>1. buf = "}" /\ Gone(T, todo) /\ expected = Append(X, ReportOf("STRUCT_END"))
        BY <1>3, <1>9
    <2>2. Obj3
        BY <1>1, <1>2, <1>9, ParseCases DEF Current
    <2>3. events' = Append(events, ReportOf("STRUCT_END")) /\ buf' = NoChar
          /\ stack' = stack /\ top' = top - 1 /\ lastOperation' = "pop"
        BY <2>1, <2>2 DEF Obj3, Event, ReportOf, Consume, Pop
    <2>4. top = p + 1
        BY <1>2
    <2>5. top' = p
        BY <2>4, <2>3
    <2>6. Len(T) = d + 1
        BY <1>2
    <2>7. Len(T) - 1 = d
        BY <2>6
    <2>8. Len(todo) = d /\ SameEnd(T, todo, d)
        BY <2>1, <2>7 DEF Gone
    <2>9. Consumed(p) /\ SameEnd(T, todo, d)
        BY <1>1, <2>3, <2>8 DEF Consumed
    <2>10. StructureDone(todo, expected, d, p)'
        BY <1>1, <1>2, <1>9, <2>1, <2>3, <2>5, <2>8 DEF StructureDone
    <2> QED
        BY <2>9, <2>10
<1> QED
    BY <1>2, <1>3, <1>5, <1>6, <1>7, <1>8, <1>9

\* A value is due at entry q, in the structure that starts at p + 1.
Entered(T, X, d, p, q) ==
    /\ Len(T) > d /\ q <= used
    /\ Level(stack, FromEnd(T, d + 1), p, q) /\ ValueAt(stack, q)
    /\ ValueDue(T, X, d + 1, q)

\* case ST_ARRAY: the character it consumes is the white space.
LEMMA SpaceStep ==
    ASSUME NEW T \in Seq(Symbol), NEW X \in Seq(Report), NEW t \in Seq(Chars),
           NEW d \in Nat, NEW p \in Nat, Turning(T, X, t, d, p), SpaceDue(T, X, d, p)
    PROVE  /\ Consumed(p) /\ SameEnd(T, todo, d)
           /\ Entered(todo, expected, d, p, p + 2)'
<1>1. /\ JsonTypes /\ Parse /\ stack[p] = "OBJECT" /\ p <= used
      /\ Follows(buf, T, X, t, todo, expected, text) /\ T # <<>>
      /\ used \in Nat /\ used + 1 <= MaxLen /\ MaxLen \in Nat
      /\ todo' = todo /\ expected' = expected /\ text' = text
      /\ buf' = NoChar => used' = used + 1
      /\ buf' = buf => used' = used
      /\ buf # NoChar /\ buf \in Chars
      /\ p <= MaxLen /\ p + 1 <= MaxLen
      /\ Unchanged(stack, stack, p)
    BY TurnFacts
<1>2. /\ Len(T) = d + 2 /\ T[1] = "space" /\ T[2] = "elements" /\ X = events
      /\ top = p + 1 /\ stack[p + 1] = "ARRAY" /\ lastOperation # "pop" /\ p + 1 <= used
    BY DEF SpaceDue
<1>3. buf = "ws" /\ Now("object", T, todo) /\ expected = X
    <2>1. Follows(buf, T, X, t, todo, expected, text) /\ T[1] = "space"
        BY <1>1, <1>2
    <2> QED
        BY <2>1, FromSpace
<1>4. Array
    BY <1>1, <1>2, ParseCases DEF Current
<1>5. p + 1 <= MaxLen + 1 /\ p + 1 \in Nat
    BY <1>1
<1>6. PrevPop = "INVALID"
    BY <1>2 DEF PrevPop
<1>7. events' = events /\ buf' = NoChar /\ Push("OBJECT")
    BY <1>4, <1>6 DEF Array, Silent, Consume
<1>8. top' = p + 1 + 1 /\ stack'[p + 1 + 1] = "OBJECT" /\ lastOperation' = "push" /\ \A m \in 0 .. p + 1 : stack'[m] = stack[m]
    BY <1>1, <1>2, <1>5, <1>7, Pushed
<1>9. top' = p + 2 /\ stack'[p + 2] = "OBJECT" /\ stack'[p + 1] = "ARRAY" /\ \A m \in 0 .. p : stack'[m] = stack[m]
    BY <1>2, <1>8
<1>10. todo[1] = "object" /\ todo[2] = "elements" /\ Len(todo) = d + 2 /\ SameEnd(T, todo, d)
    BY <1>1, <1>2, <1>3, ElementsKept DEF JsonTypes
<1>11. Consumed(p) /\ SameEnd(T, todo, d)
    BY <1>1, <1>7, <1>9, <1>10 DEF Consumed, Unchanged
<1>12. FromEnd(todo, d + 1) = "elements"
    BY <1>10 DEF FromEnd
<1>13. Level(stack', "elements", p, p + 2) /\ ValueAt(stack', p + 2)
    BY <1>9 DEF Level, ValueAt
<1>14. ValueDue(todo, expected, d + 1, p + 2)'
    BY <1>1, <1>2, <1>3, <1>7, <1>8, <1>9, <1>10 DEF ValueDue
<1>15. p + 2 <= used' /\ Len(todo) > d
    BY <1>1, <1>2, <1>7, <1>10
<1>16. (FromEnd(todo, d + 1) = "elements")' /\ (Len(todo) > d)'
    BY <1>1, <1>12, <1>15
<1> QED
    BY <1>11, <1>13, <1>14, <1>15, <1>16 DEF Entered

\* case ST_OBJ before a key, and ST_STRING at its quote.
LEMMA KeyStep ==
    ASSUME NEW T \in Seq(Symbol), NEW X \in Seq(Report), NEW t \in Seq(Chars),
           NEW d \in Nat, NEW p \in Nat, Turning(T, X, t, d, p), KeyDue(T, X, d, p)
    PROVE  \/ Kept(p) /\ KeyDue(T, X, d, p)'
           \/ /\ Consumed(p) /\ SameEnd(T, todo, d)
              /\ (KeyDue(todo, expected, d, p)' \/ InKey(todo, expected, text, d, p)')
<1>1. /\ JsonTypes /\ Parse /\ stack[p] = "OBJECT" /\ p <= used
      /\ Follows(buf, T, X, t, todo, expected, text) /\ T # <<>>
      /\ used \in Nat /\ used + 1 <= MaxLen /\ MaxLen \in Nat
      /\ todo' = todo /\ expected' = expected /\ text' = text
      /\ buf' = NoChar => used' = used + 1
      /\ buf' = buf => used' = used
      /\ buf # NoChar /\ buf \in Chars
      /\ p <= MaxLen /\ p + 1 <= MaxLen
      /\ Unchanged(stack, stack, p)
    BY TurnFacts
<1>2. /\ Pair(T, d) /\ T[1] = "key" /\ X = events
      /\ stack[p + 1] = "OBJ" /\ lastOperation # "pop" /\ p + 1 <= used
      /\ (top = p + 1 \/ (top = p + 2 /\ stack[p + 2] = "STRING" /\ buf = "quote"))
    BY DEF KeyDue
<1>3. \/ buf = "ws" /\ todo = T /\ expected = X /\ text = t
      \/ buf = "quote" /\ Now("key chars", T, todo) /\ expected = X /\ text = <<>>
    <2>1. Follows(buf, T, X, t, todo, expected, text) /\ T[1] = "key"
        BY <1>1, <1>2
    <2> QED
        BY <2>1, FromKey
<1>4. PrevPop = "INVALID" /\ Looked = lastOperation
    BY <1>2 DEF PrevPop, Looked
<1>5. p + 1 <= MaxLen + 1 /\ p + 1 \in Nat /\ p + 2 <= MaxLen + 1 /\ p + 2 \in Nat
    BY <1>1, <1>2
<1>6. CASE top = p + 1 /\ buf = "ws"
    <2>1. Obj
        BY <1>1, <1>2, <1>6, ParseCases DEF Current
    <2>2. events' = events /\ buf' = NoChar /\ stack' = stack /\ top' = top /\ lastOperation' = lastOperation
        BY <1>4, <1>6, <2>1 DEF Obj, Silent, Consume, Stay
    <2>3. todo = T /\ expected = X
        BY <1>3, <1>6
    <2>4. Consumed(p) /\ SameEnd(T, todo, d)
        BY <1>1, <1>2, <2>2, <2>3 DEF Consumed, SameEnd, Pair
    <2>5. KeyDue(todo, expected, d, p)'
        BY <1>1, <1>2, <1>6, <2>2, <2>3 DEF KeyDue, Pair
    <2> QED
        BY <2>4, <2>5
<1>7. CASE top = p + 1 /\ buf = "quote"
    <2>1. Obj
        BY <1>1, <1>2, <1>7, ParseCases DEF Current
    <2>2. events' = events /\ buf' = buf /\ Push("STRING")
        BY <1>4, <1>7, <2>1 DEF Obj, Silent, Keep
    <2>3. top' = p + 1 + 1 /\ stack'[p + 1 + 1] = "STRING" /\ lastOperation' = "push" /\ \A m \in 0 .. p + 1 : stack'[m] = stack[m]
        BY <1>1, <1>5, <1>7, <2>2, Pushed
    <2>4. top' = p + 2 /\ stack'[p + 2] = "STRING" /\ stack'[p + 1] = "OBJ" /\ \A m \in 0 .. p : stack'[m] = stack[m]
        BY <1>2, <2>3
    <2>5. Kept(p)
        BY <1>1, <2>2, <2>4 DEF Kept, Unchanged
    <2>6. KeyDue(T, X, d, p)'
        BY <1>1, <1>2, <1>7, <2>2, <2>3, <2>4 DEF KeyDue, Pair
    <2> QED
        BY <2>5, <2>6
<1>8. CASE top = p + 2 /\ stack[p + 2] = "STRING" /\ buf = "quote"
    <2>1. String
        BY <1>1, <1>8, ParseCases DEF Current
    <2>2. events' = events /\ buf' = NoChar /\ string_val' = <<>> /\ Push("DSTRING")
        BY <1>4, <1>8, <2>1 DEF String, Silent, Consume
    <2>3. Now("key chars", T, todo) /\ expected = X /\ text = <<>>
        BY <1>3, <1>8
    <2>4. top' = p + 2 + 1 /\ stack'[p + 2 + 1] = "DSTRING" /\ \A m \in 0 .. p + 2 : stack'[m] = stack[m]
        BY <1>1, <1>5, <1>8, <2>2, Pushed
    <2>5. top' = p + 3 /\ stack'[p + 3] = "DSTRING" /\ stack'[p + 2] = "STRING" /\ stack'[p + 1] = "OBJ" /\ \A m \in 0 .. p : stack'[m] = stack[m]
        BY <1>2, <1>8, <2>4
    <2>6. Pair(todo, d) /\ todo[1] = "key chars" /\ SameEnd(T, todo, d)
        BY <1>1, <1>2, <2>3, PairKept DEF JsonTypes
    <2>7. Consumed(p) /\ SameEnd(T, todo, d)
        BY <1>1, <2>2, <2>5, <2>6 DEF Consumed, Unchanged
    <2>8. p + 2 <= used'
        BY <1>1, <1>2, <2>2
    <2>9. InKey(todo, expected, text, d, p)'
        BY <1>1, <1>2, <2>2, <2>3, <2>5, <2>6, <2>8 DEF InKey, Pair
    <2> QED
        BY <2>7, <2>9
<1> QED
    BY <1>2, <1>3, <1>6, <1>7, <1>8

\* case ST_DSTRING in a key.
LEMMA InKeyStep ==
    ASSUME NEW T \in Seq(Symbol), NEW X \in Seq(Report), NEW t \in Seq(Chars),
           NEW d \in Nat, NEW p \in Nat, Turning(T, X, t, d, p), InKey(T, X, t, d, p)
    PROVE  /\ Consumed(p) /\ SameEnd(T, todo, d)
           /\ (InKey(todo, expected, text, d, p)' \/ KeyDone(todo, expected, d, p)')
<1>1. /\ JsonTypes /\ Parse /\ stack[p] = "OBJECT" /\ p <= used
      /\ Follows(buf, T, X, t, todo, expected, text) /\ T # <<>>
      /\ used \in Nat /\ used + 1 <= MaxLen /\ MaxLen \in Nat
      /\ todo' = todo /\ expected' = expected /\ text' = text
      /\ buf' = NoChar => used' = used + 1
      /\ buf' = buf => used' = used
      /\ buf # NoChar /\ buf \in Chars
      /\ p <= MaxLen /\ p + 1 <= MaxLen
      /\ Unchanged(stack, stack, p)
    BY TurnFacts
<1>2. /\ Pair(T, d) /\ T[1] = "key chars" /\ X = events /\ string_val = t
      /\ stack[p + 1] = "OBJ" /\ stack[p + 2] = "STRING" /\ stack[p + 3] = "DSTRING"
      /\ top = p + 3 /\ p + 2 <= used
    BY DEF InKey
<1>3. \/ buf # "quote" /\ Now("key chars", T, todo) /\ expected = X /\ text = Append(t, buf)
      \/ buf = "quote" /\ Gone(T, todo) /\ expected = Append(X, <<"KEY", t>>)
    <2>1. Follows(buf, T, X, t, todo, expected, text) /\ T[1] = "key chars"
        BY <1>1, <1>2
    <2> QED
        BY <2>1, FromChars
<1>4. DString
    BY <1>1, <1>2, ParseCases DEF Current
<1>5. events' = events /\ buf' = NoChar
    BY <1>4 DEF DString, Silent, Consume
<1>6. used' = used + 1 /\ used \in Nat
    BY <1>1, <1>5
<1>7. p + 2 <= used
    BY <1>2
<1>8. p + 2 <= used'
    BY <1>6, <1>7
<1>9. CASE buf # "quote"
    <2>1. string_val' = Append(t, buf) /\ stack' = stack /\ top' = top
        BY <1>2, <1>4, <1>9 DEF DString, Stay
    <2>2. Now("key chars", T, todo) /\ expected = X /\ text = Append(t, buf)
        BY <1>3, <1>9
    <2>3. Pair(todo, d) /\ todo[1] = "key chars" /\ SameEnd(T, todo, d)
        BY <1>1, <1>2, <2>2, PairKept DEF JsonTypes
    <2>4. Consumed(p) /\ SameEnd(T, todo, d)
        BY <1>1, <1>5, <2>1, <2>3 DEF Consumed
    <2>5. InKey(todo, expected, text, d, p)'
        BY <1>1, <1>2, <1>5, <1>8, <2>1, <2>2, <2>3 DEF InKey, Pair
    <2> QED
        BY <2>4, <2>5
<1>10. CASE buf = "quote"
    <2>1. string_val' = string_val /\ stack' = stack /\ top' = top - 1 /\ lastOperation' = "pop"
        BY <1>4, <1>10 DEF DString, Pop
    <2>2. top = p + 3 /\ string_val = t
        BY <1>2
    <2>3. string_val' = t /\ stack' = stack /\ top' = p + 2 /\ lastOperation' = "pop"
        BY <2>1, <2>2
    <2>4. Gone(T, todo) /\ expected = Append(X, <<"KEY", t>>)
        BY <1>3, <1>10
    <2>5. Named(todo, d) /\ SameEnd(T, todo, d)
        BY <1>1, <1>2, <2>4, PairNamed DEF JsonTypes
    <2>6. Consumed(p) /\ SameEnd(T, todo, d)
        BY <1>1, <1>5, <2>3, <2>5 DEF Consumed
    <2>7. KeyDone(todo, expected, d, p)'
        BY <1>1, <1>2, <1>5, <1>8, <2>3, <2>4, <2>5 DEF KeyDone, Named
    <2> QED
        BY <2>6, <2>7
<1> QED
    BY <1>9, <1>10

\* case ST_STRING and ST_OBJ after the last quote: the key is reported.
LEMMA KeyDoneStep ==
    ASSUME NEW T \in Seq(Symbol), NEW X \in Seq(Report), NEW t \in Seq(Chars),
           NEW d \in Nat, NEW p \in Nat, Turning(T, X, t, d, p), KeyDone(T, X, d, p)
    PROVE  Kept(p) /\ (KeyDone(T, X, d, p)' \/ ColonDue(T, X, d, p)')
<1>1. /\ JsonTypes /\ Parse /\ stack[p] = "OBJECT" /\ p <= used
      /\ Follows(buf, T, X, t, todo, expected, text) /\ T # <<>>
      /\ used \in Nat /\ used + 1 <= MaxLen /\ MaxLen \in Nat
      /\ todo' = todo /\ expected' = expected /\ text' = text
      /\ buf' = NoChar => used' = used + 1
      /\ buf' = buf => used' = used
      /\ buf # NoChar /\ buf \in Chars
      /\ p <= MaxLen /\ p + 1 <= MaxLen
      /\ Unchanged(stack, stack, p)
    BY TurnFacts
<1>2. /\ Named(T, d) /\ X = Append(events, <<"KEY", string_val>>)
      /\ stack[p + 1] = "OBJ" /\ stack[p + 2] = "STRING" /\ lastOperation = "pop"
      /\ ((top = p + 2 /\ stack[p + 3] = "DSTRING") \/ top = p + 1)
      /\ p + 2 <= used
    BY DEF KeyDone
<1>3. CASE top = p + 2 /\ stack[p + 3] = "DSTRING"
    <2>1. String
        BY <1>1, <1>2, <1>3, ParseCases DEF Current
    <2>2. PrevPop = "DSTRING"
        BY <1>2, <1>3 DEF PrevPop
    <2>3. /\ events' = events /\ buf' = buf /\ string_val' = string_val
          /\ stack' = stack /\ top' = p + 1 /\ lastOperation' = "pop"
        BY <1>3, <2>1, <2>2 DEF String, Silent, Keep, Pop
    <2>4. Kept(p)
        BY <1>1, <2>3 DEF Kept
    <2>5. KeyDone(T, X, d, p)'
        BY <1>1, <1>2, <2>3 DEF KeyDone, Named
    <2> QED
        BY <2>4, <2>5
<1>4. CASE top = p + 1
    <2>1. Obj
        BY <1>1, <1>2, <1>4, ParseCases DEF Current
    <2>2. PrevPop = "STRING"
        BY <1>2, <1>4 DEF PrevPop
    <2>3. events' = X /\ buf' = buf /\ Push("OBJ_1")
        BY <1>2, <2>1, <2>2 DEF Obj, Event, Keep
    <2>4. p + 1 <= MaxLen + 1 /\ p + 1 \in Nat
        BY <1>1
    <2>5. top' = p + 1 + 1 /\ stack'[p + 1 + 1] = "OBJ_1" /\ lastOperation' = "push" /\ \A m \in 0 .. p + 1 : stack'[m] = stack[m]
        BY <1>1, <1>4, <2>3, <2>4, Pushed
    <2>6. top' = p + 2 /\ stack'[p + 2] = "OBJ_1" /\ stack'[p + 1] = "OBJ" /\ \A m \in 0 .. p : stack'[m] = stack[m]
        BY <1>2, <2>5
    <2>7. Kept(p)
        BY <1>1, <2>3, <2>6 DEF Kept, Unchanged
    <2>8. ColonDue(T, X, d, p)'
        BY <1>1, <1>2, <2>3, <2>5, <2>6 DEF ColonDue, Named
    <2> QED
        BY <2>7, <2>8
<1> QED
    BY <1>2, <1>3, <1>4

\* case ST_OBJ_1.
LEMMA ColonStep ==
    ASSUME NEW T \in Seq(Symbol), NEW X \in Seq(Report), NEW t \in Seq(Chars),
           NEW d \in Nat, NEW p \in Nat, Turning(T, X, t, d, p), ColonDue(T, X, d, p)
    PROVE  /\ Consumed(p) /\ SameEnd(T, todo, d)
           /\ (ColonDue(todo, expected, d, p)' \/ Entered(todo, expected, d, p, p + 3)')
<1>1. /\ JsonTypes /\ Parse /\ stack[p] = "OBJECT" /\ p <= used
      /\ Follows(buf, T, X, t, todo, expected, text) /\ T # <<>>
      /\ used \in Nat /\ used + 1 <= MaxLen /\ MaxLen \in Nat
      /\ todo' = todo /\ expected' = expected /\ text' = text
      /\ buf' = NoChar => used' = used + 1
      /\ buf' = buf => used' = used
      /\ buf # NoChar /\ buf \in Chars
      /\ p <= MaxLen /\ p + 1 <= MaxLen
      /\ Unchanged(stack, stack, p)
    BY TurnFacts
<1>2. /\ Named(T, d) /\ X = events /\ top = p + 2 /\ p + 2 <= used
      /\ stack[p + 1] = "OBJ" /\ stack[p + 2] = "OBJ_1" /\ lastOperation # "pop"
    BY DEF ColonDue
<1>3. \/ buf = "ws" /\ todo = T /\ expected = X
      \/ buf = ":" /\ Gone(T, todo) /\ expected = X
    <2>1. Follows(buf, T, X, t, todo, expected, text) /\ T[1] = ":"
        BY <1>1, <1>2 DEF Named
    <2> QED
        BY <2>1, FromColon
<1>4. Obj1
    BY <1>1, <1>2, ParseCases DEF Current
<1>5. PrevPop = "INVALID" /\ Looked = lastOperation
    BY <1>2 DEF PrevPop, Looked
<1>6. CASE buf = "ws"
    <2>1. events' = events /\ buf' = NoChar /\ stack' = stack /\ top' = top /\ lastOperation' = lastOperation
        BY <1>4, <1>5, <1>6 DEF Obj1, SpaceOrInvalid, Silent, Consume, Stay
    <2>2. todo = T /\ expected = X
        BY <1>3, <1>6
    <2>3. Consumed(p) /\ SameEnd(T, todo, d)
        BY <1>1, <1>2, <2>1, <2>2 DEF Consumed, SameEnd, Named
    <2>4. ColonDue(todo, expected, d, p)'
        BY <1>1, <1>2, <2>1, <2>2 DEF ColonDue, Named
    <2> QED
        BY <2>3, <2>4
<1>7. CASE buf = ":"
    <2>1. events' = events /\ buf' = NoChar /\ Push("OBJECT")
        BY <1>4, <1>5, <1>7 DEF Obj1, Silent, Consume
    <2>2. Gone(T, todo) /\ expected = X
        BY <1>3, <1>7
    <2>3. p + 2 <= MaxLen + 1 /\ p + 2 \in Nat
        BY <1>1, <1>2
    <2>4. top' = p + 2 + 1 /\ stack'[p + 2 + 1] = "OBJECT" /\ lastOperation' = "push" /\ \A m \in 0 .. p + 2 : stack'[m] = stack[m]
        BY <1>1, <1>2, <2>1, <2>3, Pushed
    <2>5. /\ top' = p + 3 /\ stack'[p + 3] = "OBJECT" /\ stack'[p + 2] = "OBJ_1" /\ stack'[p + 1] = "OBJ"
          /\ \A m \in 0 .. p : stack'[m] = stack[m]
        BY <1>2, <2>4
    <2>6. todo[1] = "object" /\ todo[2] = "more" /\ Len(todo) = d + 2 /\ SameEnd(T, todo, d)
        BY <1>1, <1>2, <2>2, NamedValue DEF JsonTypes
    <2>7. Consumed(p) /\ SameEnd(T, todo, d)
        BY <1>1, <2>1, <2>5, <2>6 DEF Consumed, Unchanged
    <2>8. FromEnd(todo, d + 1) = "more"
        BY <2>6 DEF FromEnd
    <2>9. Level(stack', "more", p, p + 3) /\ ValueAt(stack', p + 3)
        BY <2>5 DEF Level, ValueAt
    <2>10. ValueDue(todo, expected, d + 1, p + 3)'
        BY <1>1, <1>2, <2>1, <2>2, <2>4, <2>5, <2>6 DEF ValueDue
    <2>11. p + 3 <= used' /\ Len(todo) > d
        BY <1>1, <1>2, <2>1, <2>6
    <2>12. (FromEnd(todo, d + 1) = "more")' /\ (Len(todo) > d)'
        BY <1>1, <2>8, <2>11
    <2> QED
        BY <2>7, <2>9, <2>10, <2>11, <2>12 DEF Entered
<1> QED
    BY <1>3, <1>6, <1>7
-----------------------------------------------------------------------------
(* From the steps to the agreement of parser and grammar.                  *)
LEMMA TypesInitially == ASSUME JsonInit PROVE JsonTypes
<1>1. "object" \in Symbol /\ "OBJECT" \in State
    BY DEF Symbol, State
<1> QED
    BY <1>1, MaxLenAssumption DEF JsonInit, JsonTypes, NoChar

\* The types, operation by operation and state by state.
LEMMA OperationTypes ==
    ASSUME JsonTypes, NEW s \in State, NEW o
    PROVE  /\ Push(s) => stack' \in Stacks /\ top' \in Int
           /\ Pop => stack' \in Stacks /\ top' \in Int
           /\ Replace(s, o) => stack' \in Stacks /\ top' \in Int
           /\ Stay(o) => stack' \in Stacks /\ top' \in Int
<1>1. stack \in Stacks /\ top \in Int
    BY DEF JsonTypes, Stacks
<1> QED
    BY <1>1 DEF Push, Pop, Replace, Stay, Stacks

LEMMA EventTypes ==
    ASSUME JsonTypes, NEW k \in Kind, NEW data \in Seq(Chars)
    PROVE  /\ Event(k, data) => events' \in Seq(Report)
           /\ Silent => events' \in Seq(Report)
<1>1. <<k, data>> \in Report /\ events \in Seq(Report)
    BY ReportIs DEF JsonTypes
<1>2. Append(events, <<k, data>>) \in Seq(Report)
    BY <1>1
<1> QED
    BY <1>1, <1>2 DEF Event, Silent

LEMMA SpaceTypes ==
    ASSUME JsonTypes, NEW o, SpaceOrInvalid(o)
    PROVE  stack' \in Stacks /\ top' \in Int /\ events' \in Seq(Report) /\ buf' \in {buf, NoChar}
<1>1. "INVALID" \in State /\ events \in Seq(Report)
    BY DEF State, JsonTypes
<1> QED
    BY <1>1, OperationTypes DEF SpaceOrInvalid, Silent, Consume, Keep

\* What a turn of the parser may change keeps its type.
ParserTyped ==
    /\ stack' \in Stacks /\ top' \in Int
    /\ events' \in Seq(Report)
    /\ string_val' \in Seq(Chars)
    /\ buf' \in {buf, NoChar}

LEMMA ParseTypes ==
    ASSUME JsonTypes, Parse
    PROVE  ParserTyped
<1>1. /\ \A s \in {"OBJECT", "ARRAY", "ARRAY_1", "OBJ", "OBJ_1", "OBJ_2", "OBJ_3", "STRING", "DSTRING"} : s \in State
      /\ \A k \in {"STRUCT_START", "STRUCT_END", "ARRAY_START", "ARRAY_END", "KEY", "STRING"} : k \in Kind
      /\ <<>> \in Seq(Chars) /\ string_val \in Seq(Chars) /\ events \in Seq(Report)
    BY DEF State, Kind, JsonTypes
<1>2. CASE Object
    <2>1. string_val' = string_val
        BY <1>2 DEF Object
    <2>2. \/ (Event("STRING", string_val) \/ Silent) /\ Pop /\ Keep
          \/ Event("STRUCT_START", <<>>) /\ Push("OBJ") /\ Consume
          \/ Event("ARRAY_START", <<>>) /\ Push("ARRAY") /\ Consume
          \/ Silent /\ Push("STRING") /\ Keep
          \/ SpaceOrInvalid(Looked)
        BY <1>2 DEF Object
    <2>3. CASE SpaceOrInvalid(Looked)
        BY <1>1, <2>1, <2>3, SpaceTypes DEF ParserTyped
    <2>4. CASE ~SpaceOrInvalid(Looked)
        <3>1. buf' \in {buf, NoChar}
            BY <2>2, <2>4 DEF Keep, Consume
        <3>2. events' \in Seq(Report)
            BY <1>1, <2>2, <2>4, EventTypes
        <3>3. stack' \in Stacks /\ top' \in Int
            BY <1>1, <2>2, <2>4, OperationTypes
        <3> QED
            BY <1>1, <2>1, <3>1, <3>2, <3>3 DEF ParserTyped
    <2> QED
        BY <2>3, <2>4
<1>3. CASE Array
    BY <1>1, <1>3, OperationTypes DEF Array, ParserTyped, Silent, Keep, Consume
<1>4. CASE Array1
    <2>1. CASE \E o : SpaceOrInvalid(o)
        BY <1>1, <1>4, <2>1, SpaceTypes DEF Array1, ParserTyped
    <2>2. CASE Silent /\ Replace("ARRAY", lastOperation) /\ Consume
        BY <1>1, <1>4, <2>2, OperationTypes DEF Array1, ParserTyped, Silent, Consume
    <2>3. CASE Event("ARRAY_END", <<>>) /\ Pop /\ Consume
        BY <1>1, <1>4, <2>3, OperationTypes, EventTypes DEF Array1, ParserTyped, Consume
    <2> QED
        BY <1>4, <2>1, <2>2, <2>3 DEF Array1
<1>5. CASE Obj
    <2>1. string_val' = string_val
        BY <1>5 DEF Obj
    <2>2. \/ Event("KEY", string_val) /\ Push("OBJ_1") /\ Keep
          \/ Silent /\ Replace("OBJ_2", Looked) /\ Keep
          \/ Silent /\ Stay(Looked) /\ Consume
          \/ Silent /\ Push("STRING") /\ Keep
        BY <1>5 DEF Obj
    <2>3. buf' \in {buf, NoChar}
        BY <2>2 DEF Keep, Consume
    <2>4. events' \in Seq(Report)
        BY <1>1, <2>2, EventTypes
    <2>5. stack' \in Stacks /\ top' \in Int
        BY <1>1, <2>2, OperationTypes
    <2> QED
        BY <1>1, <2>1, <2>3, <2>4, <2>5 DEF ParserTyped
<1>6. CASE Obj1
    <2>1. string_val' = string_val
        BY <1>6 DEF Obj1
    <2>2. \/ Silent /\ Pop /\ Keep
          \/ Silent /\ Push("OBJECT") /\ Consume
          \/ SpaceOrInvalid(Looked)
        BY <1>6 DEF Obj1
    <2> QED
        BY <1>1, <2>1, <2>2, OperationTypes, SpaceTypes DEF ParserTyped, Silent, Keep, Consume
<1>7. CASE Obj2
    BY <1>1, <1>7, OperationTypes DEF Obj2, ParserTyped, Silent, Keep, Consume
<1>8. CASE Obj3
    <2>1. string_val' = string_val
        BY <1>8 DEF Obj3
    <2>2. \/ Event("STRUCT_END", <<>>) /\ Pop /\ Consume
          \/ SpaceOrInvalid(lastOperation)
        BY <1>8 DEF Obj3
    <2> QED
        BY <1>1, <2>1, <2>2, OperationTypes, EventTypes, SpaceTypes DEF ParserTyped, Consume
<1>9. CASE String
    <2>1. \/ Silent /\ Pop /\ Keep /\ string_val' = string_val
          \/ string_val' = <<>> /\ Silent /\ Push("DSTRING") /\ Consume
          \/ SpaceOrInvalid(Looked) /\ string_val' = string_val
        BY <1>9 DEF String
    <2> QED
        BY <1>1, <2>1, OperationTypes, SpaceTypes DEF ParserTyped, Silent, Keep, Consume
<1>10. CASE DString
    <2>1. buf \in Chars
        BY DEF Parse, JsonTypes
    <2>2. Append(string_val, buf) \in Seq(Chars)
        BY <1>1, <2>1
    <2>3. string_val' \in Seq(Chars) /\ (Pop \/ Stay(lastOperation))
        BY <1>1, <1>10, <2>2 DEF DString
    <2> QED
        BY <1>1, <1>10, <2>3, OperationTypes DEF DString, ParserTyped, Silent, Consume
<1> QED
    BY <1>2, <1>3, <1>4, <1>5, <1>6, <1>7, <1>8, <1>9, <1>10 DEF Parse

LEMMA TypesOfParse == ASSUME JsonTypes, Parse PROVE JsonTypes'
<1>1. /\ stack' \in Stacks /\ top' \in Int /\ events' \in Seq(Report)
      /\ string_val' \in Seq(Chars) /\ buf' \in {buf, NoChar}
    BY ParseTypes DEF ParserTyped
<1>2. todo' = todo /\ text' = text /\ written' = written /\ expected' = expected
    BY DEF Parse, doc
<1> QED
    BY <1>1, <1>2 DEF JsonTypes, Stacks

\* The sequences the grammar writes have their types.
LEMMA HeadAppend ==
    ASSUME NEW S, NEW s \in Seq(S)
    PROVE  /\ s # <<>> => Head(s) = s[1]
           /\ \A e \in S : Append(s, e) \in Seq(S)
OBVIOUS

LEMMA OneTwo ==
    ASSUME NEW S, NEW a \in S, NEW b \in S
    PROVE  <<>> \in Seq(S) /\ <<a>> \in Seq(S) /\ <<a, b>> \in Seq(S)
OBVIOUS

LEMMA Four ==
    ASSUME NEW S, NEW a \in S, NEW b \in S, NEW c \in S, NEW e \in S
    PROVE  <<a, b, c, e>> \in Seq(S)
OBVIOUS

LEMMA Literals ==
    /\ <<>> \in Seq(Symbol) /\ <<>> \in Seq(Report) /\ <<>> \in Seq(Chars)
    /\ <<"object">> \in Seq(Symbol) /\ <<"chars">> \in Seq(Symbol) /\ <<"key chars">> \in Seq(Symbol)
    /\ <<"broken">> \in Seq(Symbol)
    /\ <<Element, "elements">> \in Seq(Symbol)
    /\ <<"key", ":", "object", "more">> \in Seq(Symbol)
    /\ <<<<"STRUCT_START", <<>>>>>> \in Seq(Report) /\ <<<<"STRUCT_END", <<>>>>>> \in Seq(Report)
    /\ <<<<"ARRAY_START", <<>>>>>> \in Seq(Report) /\ <<<<"ARRAY_END", <<>>>>>> \in Seq(Report)
    /\ \A t \in Seq(Chars) : <<<<"KEY", t>>>> \in Seq(Report) /\ <<<<"STRING", t>>>> \in Seq(Report)
<1>1. /\ "object" \in Symbol /\ "key" \in Symbol /\ ":" \in Symbol /\ "more" \in Symbol /\ "elements" \in Symbol
      /\ "space" \in Symbol /\ "key chars" \in Symbol /\ "chars" \in Symbol /\ "broken" \in Symbol
    BY DEF Symbol
<1>2. /\ "STRUCT_START" \in Kind /\ "STRUCT_END" \in Kind /\ "ARRAY_START" \in Kind /\ "ARRAY_END" \in Kind
      /\ "KEY" \in Kind /\ "STRING" \in Kind
    BY DEF Kind
<1>3. Element \in Symbol
    BY <1>1 DEF Element
<1>4. <<>> \in Seq(Chars)
    OBVIOUS
<1>5. /\ <<"STRUCT_START", <<>>>> \in Report /\ <<"STRUCT_END", <<>>>> \in Report
      /\ <<"ARRAY_START", <<>>>> \in Report /\ <<"ARRAY_END", <<>>>> \in Report
      /\ \A t \in Seq(Chars) : <<"KEY", t>> \in Report /\ <<"STRING", t>> \in Report
    BY <1>2, <1>4, ReportIs
<1>6. /\ <<>> \in Seq(Symbol)
      /\ <<"object">> \in Seq(Symbol) /\ <<"chars">> \in Seq(Symbol) /\ <<"key chars">> \in Seq(Symbol)
      /\ <<"broken">> \in Seq(Symbol) /\ <<Element, "elements">> \in Seq(Symbol)
    BY <1>1, <1>3, OneTwo
<1>7. <<"key", ":", "object", "more">> \in Seq(Symbol)
    BY <1>1, Four
<1>8. /\ <<>> \in Seq(Report)
      /\ <<<<"STRUCT_START", <<>>>>>> \in Seq(Report) /\ <<<<"STRUCT_END", <<>>>>>> \in Seq(Report)
      /\ <<<<"ARRAY_START", <<>>>>>> \in Seq(Report) /\ <<<<"ARRAY_END", <<>>>>>> \in Seq(Report)
      /\ \A t \in Seq(Chars) : <<<<"KEY", t>>>> \in Seq(Report) /\ <<<<"STRING", t>>>> \in Seq(Report)
    BY <1>5, OneTwo
<1> QED
    BY <1>4, <1>6, <1>7, <1>8

LEMMA ThenRules ==
    ASSUME JsonTypes, todo # <<>>, NEW c \in Chars, NEW s \in Seq(Symbol), NEW e \in Seq(Report), Then(c, s, e)
    PROVE  /\ buf' = c /\ buf' \in Chars /\ todo' \in Seq(Symbol) /\ expected' \in Seq(Report)
           /\ Rule(s, e, todo, expected, todo', expected')
<1>1. todo \in Seq(Symbol) /\ expected \in Seq(Report)
    BY DEF JsonTypes
<1>2. Tail(todo) \in Seq(Symbol)
    BY <1>1, Tailed
<1>3. s \o Tail(todo) \in Seq(Symbol)
    BY <1>2, Concatenated
<1>4. expected \o e \in Seq(Report)
    BY <1>1, Concatenated
<1> QED
    BY <1>3, <1>4 DEF Then, Rule

\* A character the document adds, and what it was added for.
LEMMA FeedFollows ==
    ASSUME JsonTypes, Feed
    PROVE  /\ buf' \in Chars
           /\ todo' \in Seq(Symbol) /\ expected' \in Seq(Report) /\ text' \in Seq(Chars)
           /\ Spaced => \/ todo' = <<"broken">>
                        \/ Follows(buf', todo, expected, text, todo', expected', text')
<1>1. /\ todo \in Seq(Symbol) /\ expected \in Seq(Report) /\ text \in Seq(Chars)
    BY DEF JsonTypes
<1>2. /\ "{" \in Chars /\ "}" \in Chars /\ "[" \in Chars /\ "]" \in Chars /\ "," \in Chars /\ ":" \in Chars
      /\ "quote" \in Chars /\ "ws" \in Chars
    BY DEF Chars
<1>3. Spaced => Element = "space"
    BY SpacedAssumption DEF Element
<1>4. \A s : Is(s) => todo # <<>> /\ todo[1] = s
    BY <1>1 DEF Is
<1>5. CASE Space
    <2>1. Head(todo) = todo[1]
        BY <1>1, <1>5, HeadAppend DEF Space
    <2>2. todo # <<>> /\ todo[1] \notin {"key chars", "chars", "space", "broken"}
        BY <1>5, <2>1 DEF Space
    <2>3. buf' = "ws" /\ todo' = todo /\ text' = text /\ expected' = expected
        BY <1>5 DEF Space
    <2> QED
        BY <1>1, <1>2, <2>2, <2>3 DEF Follows
<1>6. CASE Mistake
    BY <1>1, <1>6, Literals DEF Mistake
<1>7. CASE Value
    <2>1. todo # <<>> /\ todo[1] = "object" /\ text' = <<>> /\ text' \in Seq(Chars)
        BY <1>4, <1>7, Literals DEF Value
    <2>2. CASE Then("{", <<"key", ":", "object", "more">>, <<<<"STRUCT_START", <<>>>>>>)
        <3>1. <<"key", ":", "object", "more">> \in Seq(Symbol) /\ <<<<"STRUCT_START", <<>>>>>> \in Seq(Report) /\ "{" \in Chars
            BY <1>2, Literals
        <3> QED
            BY <1>2, ThenRules, <2>1, <2>2, <3>1 DEF Follows
    <2>3. CASE Then("[", <<Element, "elements">>, <<<<"ARRAY_START", <<>>>>>>)
        <3>1. <<Element, "elements">> \in Seq(Symbol) /\ <<<<"ARRAY_START", <<>>>>>> \in Seq(Report) /\ "[" \in Chars
            BY <1>2, Literals
        <3> QED
            BY <1>2, <1>3, ThenRules, <2>1, <2>3, <3>1 DEF Follows
    <2>4. CASE Then("quote", <<"chars">>, <<>>)
        <3>1. <<"chars">> \in Seq(Symbol) /\ <<>> \in Seq(Report) /\ "quote" \in Chars
            BY <1>2, Literals
        <3> QED
            BY <1>2, ThenRules, <2>1, <2>4, <3>1 DEF Follows
    <2> QED
        BY <1>7, <2>2, <2>3, <2>4 DEF Value
<1>8. CASE InString
    <2>1. CASE /\ Is("key chars") \/ Is("chars")
               /\ \E c \in {"a", "ws", "{", "]"} :
                        Then(c, <<Head(todo)>>, <<>>) /\ text' = Append(text, c)
        <3>1. PICK c \in {"a", "ws", "{", "]"} : Then(c, <<Head(todo)>>, <<>>) /\ text' = Append(text, c)
            BY <2>1
        <3>2. todo # <<>> /\ todo[1] \in {"key chars", "chars"} /\ Head(todo) = todo[1] /\ Head(todo) \in Symbol
            <4>1. todo # <<>> /\ todo[1] \in {"key chars", "chars"}
                BY <1>4, <2>1
            <4>2. todo[1] \in Symbol
                BY <4>1 DEF Symbol
            <4>3. Head(todo) = todo[1]
                BY <1>1, <4>1, HeadAppend
            <4> QED
                BY <4>1, <4>2, <4>3
        <3>3. <<Head(todo)>> \in Seq(Symbol) /\ <<>> \in Seq(Report) /\ c \in Chars /\ c # "quote"
            <4>1. c \in Chars /\ c # "quote"
                BY <3>1 DEF Chars
            <4> QED
                BY <3>2, <4>1, OneTwo, Literals
        <3>4. text' \in Seq(Chars)
            <4>1. Append(text, c) \in Seq(Chars)
                BY <1>1, <3>3, HeadAppend
            <4> QED
                BY <3>1, <4>1
        <3>5. /\ buf' = c /\ todo' \in Seq(Symbol) /\ expected' \in Seq(Report)
              /\ Rule(<<todo[1]>>, <<>>, todo, expected, todo', expected')
            BY ThenRules, <3>1, <3>2, <3>3
        <3> QED
            BY <3>1, <3>2, <3>3, <3>4, <3>5 DEF Follows
    <2>2. CASE Is("key chars") /\ Then("quote", <<>>, <<<<"KEY", text>>>>) /\ UNCHANGED text
        <3>1. <<>> \in Seq(Symbol) /\ <<<<"KEY", text>>>> \in Seq(Report) /\ "quote" \in Chars
            BY <1>1, <1>2, Literals
        <3> QED
            BY <1>1, <1>4, ThenRules, <2>2, <3>1 DEF Follows
    <2>3. CASE Is("chars") /\ Then("quote", <<>>, <<<<"STRING", text>>>>) /\ UNCHANGED text
        <3>1. <<>> \in Seq(Symbol) /\ <<<<"STRING", text>>>> \in Seq(Report) /\ "quote" \in Chars
            BY <1>1, <1>2, Literals
        <3> QED
            BY <1>1, <1>4, ThenRules, <2>3, <3>1 DEF Follows
    <2> QED
        BY <1>8, <2>1, <2>2, <2>3 DEF InString
<1>9. CASE Structure
    <2>1. CASE Is("key") /\ Then("quote", <<"key chars">>, <<>>) /\ text' = <<>>
        <3>1. <<"key chars">> \in Seq(Symbol) /\ <<>> \in Seq(Report) /\ "quote" \in Chars
            BY <1>2, Literals
        <3>2. text' = <<>> /\ text' \in Seq(Chars)
            BY <2>1, Literals
        <3> QED
            BY <1>2, <1>4, ThenRules, <2>1, <3>1, <3>2 DEF Follows
    <2>2. CASE Is("space") /\ Then("ws", <<"object">>, <<>>) /\ UNCHANGED text
        <3>1. <<"object">> \in Seq(Symbol) /\ <<>> \in Seq(Report) /\ "ws" \in Chars
            BY <1>2, Literals
        <3> QED
            BY <1>1, <1>4, ThenRules, <2>2, <3>1 DEF Follows
    <2>3. CASE Is(":") /\ Then(":", <<>>, <<>>) /\ UNCHANGED text
        <3>1. <<>> \in Seq(Symbol) /\ <<>> \in Seq(Report) /\ ":" \in Chars
            BY <1>2, Literals
        <3> QED
            BY <1>1, <1>4, ThenRules, <2>3, <3>1 DEF Follows
    <2>4. CASE Is("more") /\ Then(",", <<"key", ":", "object", "more">>, <<>>) /\ UNCHANGED text
        <3>1. <<"key", ":", "object", "more">> \in Seq(Symbol) /\ <<>> \in Seq(Report) /\ "," \in Chars
            BY <1>2, Literals
        <3> QED
            BY <1>1, <1>4, ThenRules, <2>4, <3>1 DEF Follows
    <2>5. CASE Is("more") /\ Then("}", <<>>, <<<<"STRUCT_END", <<>>>>>>) /\ UNCHANGED text
        <3>1. <<>> \in Seq(Symbol) /\ <<<<"STRUCT_END", <<>>>>>> \in Seq(Report) /\ "}" \in Chars
            BY <1>2, Literals
        <3> QED
            BY <1>1, <1>4, ThenRules, <2>5, <3>1 DEF Follows
    <2>6. CASE Is("elements") /\ Then(",", <<Element, "elements">>, <<>>) /\ UNCHANGED text
        <3>1. <<Element, "elements">> \in Seq(Symbol) /\ <<>> \in Seq(Report) /\ "," \in Chars
            BY <1>2, Literals
        <3> QED
            BY <1>1, <1>3, <1>4, ThenRules, <2>6, <3>1 DEF Follows
    <2>7. CASE Is("elements") /\ Then("]", <<>>, <<<<"ARRAY_END", <<>>>>>>) /\ UNCHANGED text
        <3>1. <<>> \in Seq(Symbol) /\ <<<<"ARRAY_END", <<>>>>>> \in Seq(Report) /\ "]" \in Chars
            BY <1>2, Literals
        <3> QED
            BY <1>1, <1>4, ThenRules, <2>7, <3>1 DEF Follows
    <2> QED
        BY <1>9, <2>1, <2>2, <2>3, <2>4, <2>5, <2>6, <2>7 DEF Structure
<1> QED
    BY <1>5, <1>6, <1>7, <1>8, <1>9 DEF Feed

LEMMA TypesOfFeed == ASSUME JsonTypes, Feed PROVE JsonTypes'
<1>1. buf' \in Chars /\ todo' \in Seq(Symbol) /\ expected' \in Seq(Report) /\ text' \in Seq(Chars)
    BY FeedFollows
<1>2. /\ stack' = stack /\ top' = top /\ lastOperation' = lastOperation
      /\ string_val' = string_val /\ events' = events
      /\ written' = written + 1 /\ written < MaxLen
    BY DEF Feed
<1>3. written' \in 0 .. MaxLen /\ written' > 0
    BY <1>2, MaxLenAssumption DEF JsonTypes
<1> QED
    BY <1>1, <1>2, <1>3 DEF JsonTypes

\* What Here says of the state after a turn.
\* What a step must show for the agreement to hold after it: the character
\* is kept, or consumed, or consumed with a structure opened.
LEMMA StepKept ==
    ASSUME JsonTypes, JsonTypes', Parse,
           NEW T, NEW X, NEW t, NEW d, NEW at, Here(T, X, t, d, at),
           Kept(at[d]), Local(T, X, t, d, at[d])'
    PROVE  Agreement'
<1>1. /\ T \in Seq(Symbol) /\ X \in Seq(Report) /\ t \in Seq(Chars)
      /\ d \in Nat /\ at \in [Nat -> Nat]
      /\ Fed(T, X, t) /\ Open(stack, T, d, at) /\ at[d] <= used
    BY DEF Here
<1>2. buf # NoChar /\ buf' = buf /\ used' = used
      /\ todo' = todo /\ expected' = expected /\ text' = text
    BY Turn DEF Kept
<1>3. Fed(T, X, t)'
    BY <1>1, <1>2 DEF Fed
<1>4. stack \in Stacks /\ stack' \in Stacks
    BY DEF JsonTypes, Stacks
<1>5. SameEnd(T, T, d)
    BY <1>1 DEF Open, SameEnd
<1>6. Unchanged(stack, stack', at[d])
    BY DEF Kept
<1>7. Open(stack', T, d, at)
    BY <1>1, <1>4, <1>5, <1>6, OpenKept
<1>8. at[d] <= used'
    BY <1>1, <1>2
<1>9. Here(T, X, t, d, at)'
    BY <1>1, <1>3, <1>7, <1>8 DEF Here
<1> QED
    BY <1>9 DEF Agreement

LEMMA OpenConsumed ==
    ASSUME JsonTypes, JsonTypes', Parse,
           NEW T, NEW X, NEW t, NEW d, NEW at, Here(T, X, t, d, at),
           Consumed(at[d]), SameEnd(T, todo, d)
    PROVE  /\ d \in Nat /\ at \in [Nat -> Nat]
           /\ buf' = NoChar
           /\ todo' = todo /\ expected' = expected /\ text' = text
           /\ todo \in Seq(Symbol) /\ expected \in Seq(Report) /\ text \in Seq(Chars)
           /\ Open(stack', todo, d, at)
           /\ at[d] <= used'
<1>1. /\ T \in Seq(Symbol) /\ d \in Nat /\ at \in [Nat -> Nat]
      /\ Open(stack, T, d, at) /\ at[d] <= used
    BY DEF Here
<1>2. buf' = NoChar /\ used' = used + 1 /\ used \in Nat
      /\ todo' = todo /\ expected' = expected /\ text' = text
    BY Turn DEF Consumed
<1>3. stack \in Stacks /\ stack' \in Stacks
      /\ todo \in Seq(Symbol) /\ expected \in Seq(Report) /\ text \in Seq(Chars)
    BY DEF JsonTypes, Stacks
<1>4. Unchanged(stack, stack', at[d])
    BY DEF Consumed
<1>5. Open(stack', todo, d, at)
    BY <1>1, <1>3, <1>4, OpenKept
<1>6. at[d] \in Nat
    BY <1>1
<1>7. at[d] <= used'
    BY <1>1, <1>2, <1>6
<1> QED
    BY <1>1, <1>2, <1>3, <1>5, <1>7

LEMMA StepConsumed ==
    ASSUME JsonTypes, JsonTypes', Parse,
           NEW T, NEW X, NEW t, NEW d, NEW at, Here(T, X, t, d, at),
           Consumed(at[d]), SameEnd(T, todo, d), Local(todo, expected, text, d, at[d])'
    PROVE  Agreement'
<1>1. /\ d \in Nat /\ at \in [Nat -> Nat]
      /\ buf' = NoChar
      /\ todo' = todo /\ expected' = expected /\ text' = text
      /\ todo \in Seq(Symbol) /\ expected \in Seq(Report) /\ text \in Seq(Chars)
      /\ Open(stack', todo, d, at)
      /\ at[d] <= used'
    BY OpenConsumed
<1>2. Here(todo, expected, text, d, at)'
    BY <1>1 DEF Here, Fed
<1> QED
    BY <1>2 DEF Agreement

LEMMA StepUp ==
    ASSUME JsonTypes, JsonTypes', Parse,
           NEW T, NEW X, NEW t, NEW d, NEW at, Here(T, X, t, d, at),
           Consumed(at[d]), SameEnd(T, todo, d), NEW q \in Nat, Entered(todo, expected, d, at[d], q)'
    PROVE  Agreement'
<1>1. /\ d \in Nat /\ at \in [Nat -> Nat]
      /\ buf' = NoChar
      /\ todo' = todo /\ expected' = expected /\ text' = text
      /\ todo \in Seq(Symbol) /\ expected \in Seq(Report) /\ text \in Seq(Chars)
      /\ Open(stack', todo, d, at)
    BY OpenConsumed
<1>2. /\ Len(todo) > d /\ q <= used'
      /\ Level(stack', FromEnd(todo, d + 1), at[d], q) /\ ValueAt(stack', q)
      /\ ValueDue(todo, expected, d + 1, q)'
    BY <1>1 DEF Entered
<1>3. Up(stack', todo, d, at, q)
    BY <1>1, <1>2 DEF Up
<1>4. todo \in Seq(Symbol) /\ d \in Nat /\ at \in [Nat -> Nat] /\ q \in Nat
    BY <1>1
<1>5. Higher(stack', todo, d, q)
    BY <1>3, <1>4, OpenUp
<1>6. PICK at2 \in [Nat -> Nat] : Open(stack', todo, d + 1, at2) /\ at2[d + 1] = q
    BY <1>5 DEF Higher
<1>7. d + 1 \in Nat
    BY <1>1
<1>8. Here(todo, expected, text, d + 1, at2)'
    BY <1>1, <1>2, <1>6, <1>7 DEF Here, Fed
<1>9. Local(todo, expected, text, d + 1, at2[d + 1])'
    BY <1>2, <1>6 DEF Local
<1> QED
    BY <1>8, <1>9 DEF Agreement

\* The value is done and the next step is in the structure around it.
LEMMA HereDown ==
    ASSUME JsonTypes, NEW T, NEW X, NEW t, NEW d, NEW at, Here(T, X, t, d, at), d > 0, Len(T) = d, used \in Nat
    PROVE  /\ d - 1 \in Nat /\ at[d - 1] \in Nat
           /\ Here(T, X, t, d - 1, at)
           /\ Level(stack, T[1], at[d - 1], at[d])
           /\ ValueAt(stack, at[d - 1])
<1>1. /\ T \in Seq(Symbol) /\ X \in Seq(Report) /\ t \in Seq(Chars)
      /\ d \in Nat /\ at \in [Nat -> Nat]
      /\ Fed(T, X, t) /\ Open(stack, T, d, at) /\ at[d] <= used
    BY DEF Here
<1>2. /\ d - 1 \in Nat /\ Open(stack, T, d - 1, at)
      /\ Level(stack, FromEnd(T, d), at[d - 1], at[d])
    BY <1>1, OpenDown
<1>3. FromEnd(T, d) = T[1]
    BY <1>1 DEF FromEnd
<1>4. at[d - 1] \in Nat /\ at[d] \in Nat
    BY <1>1, <1>2
<1>5. at[d - 1] + 2 <= at[d]
    BY <1>2, <1>4, LevelWidth
<1>6. at[d - 1] <= used
    BY <1>1, <1>4, <1>5
<1>7. Here(T, X, t, d - 1, at)
    BY <1>1, <1>2, <1>6 DEF Here
<1>8. d - 1 \in 0 .. d - 1
    BY <1>2
<1>9. ValueAt(stack, at[d - 1])
    BY <1>2, <1>8 DEF Open
<1> QED
    BY <1>2, <1>3, <1>4, <1>7, <1>9

\* A turn of the loop keeps the agreement, in each situation.
LEMMA ParseAgrees ==
    ASSUME JsonTypes, Parse, Agreement
    PROVE  Agreement'
<1>1. PICK T, X, t, d, at : Here(T, X, t, d, at) /\ Local(T, X, t, d, at[d])
    BY DEF Agreement
<1>2. /\ T \in Seq(Symbol) /\ X \in Seq(Report) /\ t \in Seq(Chars)
      /\ d \in Nat /\ at \in [Nat -> Nat]
      /\ Fed(T, X, t) /\ Open(stack, T, d, at) /\ at[d] <= used
    BY <1>1 DEF Here
<1>3. JsonTypes'
    BY TypesOfParse
<1>4. buf # NoChar /\ used \in Nat
    BY Turn
<1>5. at[d] \in Nat
    BY <1>2
<1>6. stack[at[d]] = "OBJECT"
    <2>1. d \in 0 .. d
        BY <1>2
    <2> QED
        BY <1>2, <2>1 DEF Open, ValueAt
<1>7. Turning(T, X, t, d, at[d])
    BY <1>2, <1>4, <1>6 DEF Turning, Fed
<1> DEFINE p == at[d]
<1>8. p \in Nat /\ Turning(T, X, t, d, p) /\ Local(T, X, t, d, p) /\ p = at[d]
    BY <1>1, <1>5, <1>7
<1>9. ASSUME Kept(p), Local(T, X, t, d, p)' PROVE Agreement'
    BY <1>1, <1>3, <1>9, StepKept
<1>10. ASSUME Consumed(p), SameEnd(T, todo, d), Local(todo, expected, text, d, p)' PROVE Agreement'
    BY <1>1, <1>3, <1>10, StepConsumed
<1>11. ASSUME Consumed(p), SameEnd(T, todo, d), NEW q \in Nat, Entered(todo, expected, d, p, q)' PROVE Agreement'
    BY <1>1, <1>3, <1>11, StepUp
<1>12. CASE ValueDue(T, X, d, p)
    <2>1. \/ Kept(p) /\ ValueDue(T, X, d, p)'
          \/ /\ Consumed(p) /\ SameEnd(T, todo, d)
             /\ \/ ValueDue(todo, expected, d, p)'
                \/ KeyDue(todo, expected, d, p)'
                \/ SpaceDue(todo, expected, d, p)'
                \/ InText(todo, expected, text, d, p)'
        BY <1>2, <1>8, <1>12, ValueStep
    <2> QED
        BY <2>1, <1>9, <1>10 DEF Local
<1>13. CASE InText(T, X, t, d, p)
    <2>1. /\ Consumed(p) /\ SameEnd(T, todo, d)
          /\ (InText(todo, expected, text, d, p)' \/ TextDone(todo, expected, d, p)')
        BY <1>2, <1>8, <1>13, TextStep
    <2> QED
        BY <2>1, <1>10 DEF Local
<1>14. CASE TextDone(T, X, d, p)
    <2>1. Kept(p) /\ (TextDone(T, X, d, p)' \/ StructureDone(T, X, d, p)')
        BY <1>2, <1>8, <1>14, TextDoneStep
    <2> QED
        BY <2>1, <1>9 DEF Local
<1>15. CASE StructureDone(T, X, d, p) /\ top = p
    <2>1. Kept(p) /\ StructureDone(T, X, d, p)'
        BY <1>2, <1>8, <1>15, StructureDoneStep
    <2> QED
        BY <2>1, <1>9 DEF Local
<1>16. CASE StructureDone(T, X, d, p) /\ top # p
    <2>1. top = p - 1 /\ d > 0 /\ Len(T) = d
        BY <1>16 DEF StructureDone
    <2>2. /\ d - 1 \in Nat /\ at[d - 1] \in Nat
          /\ Here(T, X, t, d - 1, at)
          /\ Level(stack, T[1], at[d - 1], p)
        BY <1>1, <1>4, <2>1, HereDown
    <2>3. Kept(at[d - 1]) /\ (ElementsDue(T, X, d - 1, at[d - 1])' \/ MoreDue(T, X, d - 1, at[d - 1])')
        BY <1>2, <1>8, <1>16, <2>1, <2>2, LeaveStep
    <2>4. Local(T, X, t, d - 1, at[d - 1])'
        BY <2>3 DEF Local
    <2> QED
        BY <1>3, <2>2, <2>3, <2>4, StepKept
<1>17. CASE MoreDue(T, X, d, p)
    <2>1. \/ Kept(p) /\ MoreDue(T, X, d, p)'
          \/ /\ Consumed(p) /\ SameEnd(T, todo, d)
             /\ \/ MoreDue(todo, expected, d, p)'
                \/ KeyDue(todo, expected, d, p)'
                \/ StructureDone(todo, expected, d, p)'
        BY <1>2, <1>8, <1>17, MoreStep
    <2> QED
        BY <2>1, <1>9, <1>10 DEF Local
<1>18. CASE ElementsDue(T, X, d, p)
    <2>1. /\ Consumed(p) /\ SameEnd(T, todo, d)
          /\ \/ ElementsDue(todo, expected, d, p)'
             \/ SpaceDue(todo, expected, d, p)'
             \/ StructureDone(todo, expected, d, p)'
        BY <1>2, <1>8, <1>18, ElementsStep
    <2> QED
        BY <2>1, <1>10 DEF Local
<1>19. CASE SpaceDue(T, X, d, p)
    <2>1. /\ Consumed(p) /\ SameEnd(T, todo, d)
          /\ Entered(todo, expected, d, p, p + 2)'
        BY <1>2, <1>8, <1>19, SpaceStep
    <2>2. p + 2 \in Nat
        BY <1>8
    <2> QED
        BY <2>1, <2>2, <1>11
<1>20. CASE KeyDue(T, X, d, p)
    <2>1. \/ Kept(p) /\ KeyDue(T, X, d, p)'
          \/ /\ Consumed(p) /\ SameEnd(T, todo, d)
             /\ (KeyDue(todo, expected, d, p)' \/ InKey(todo, expected, text, d, p)')
        BY <1>2, <1>8, <1>20, KeyStep
    <2> QED
        BY <2>1, <1>9, <1>10 DEF Local
<1>21. CASE InKey(T, X, t, d, p)
    <2>1. /\ Consumed(p) /\ SameEnd(T, todo, d)
          /\ (InKey(todo, expected, text, d, p)' \/ KeyDone(todo, expected, d, p)')
        BY <1>2, <1>8, <1>21, InKeyStep
    <2> QED
        BY <2>1, <1>10 DEF Local
<1>22. CASE KeyDone(T, X, d, p)
    <2>1. Kept(p) /\ (KeyDone(T, X, d, p)' \/ ColonDue(T, X, d, p)')
        BY <1>2, <1>8, <1>22, KeyDoneStep
    <2> QED
        BY <2>1, <1>9 DEF Local
<1>23. CASE ColonDue(T, X, d, p)
    <2>1. /\ Consumed(p) /\ SameEnd(T, todo, d)
          /\ (ColonDue(todo, expected, d, p)' \/ Entered(todo, expected, d, p, p + 3)')
        BY <1>2, <1>8, <1>23, ColonStep
    <2>2. p + 3 \in Nat
        BY <1>8
    <2>3. CASE ColonDue(todo, expected, d, p)'
        BY <2>1, <2>3, <1>10 DEF Local
    <2>4. CASE Entered(todo, expected, d, p, p + 3)'
        BY <2>1, <2>2, <2>4, <1>11
    <2> QED
        BY <2>1, <2>3, <2>4
<1> HIDE DEF p
<1> QED
    BY <1>8, <1>12, <1>13, <1>14, <1>15, <1>16, <1>17, <1>18, <1>19, <1>20, <1>21, <1>22, <1>23 DEF Local

\* Nothing the parser has changes when a character is given to it.
LEMMA LocalFed ==
    ASSUME JsonTypes, Feed, NEW T, NEW X, NEW t, NEW d, NEW p, Local(T, X, t, d, p)
    PROVE  Local(T, X, t, d, p)'
<1>1. /\ buf = NoChar
      /\ stack' = stack /\ top' = top /\ lastOperation' = lastOperation
      /\ string_val' = string_val /\ events' = events /\ written' = written + 1
    BY DEF Feed
<1>2. buf' # NoChar
    <2>1. buf' \in Chars
        BY FeedFollows
    <2> QED
        BY <2>1 DEF Chars, NoChar
<1>3. used' = used /\ buf # "quote"
    BY <1>1, <1>2 DEF used, JsonTypes, NoChar
<1>4. CASE ValueDue(T, X, d, p)
    BY <1>1, <1>2, <1>3, <1>4 DEF Local, ValueDue
<1>5. CASE InText(T, X, t, d, p)
    BY <1>1, <1>2, <1>3, <1>5 DEF Local, InText
<1>6. CASE TextDone(T, X, d, p)
    BY <1>1, <1>2, <1>3, <1>6 DEF Local, TextDone
<1>7. CASE StructureDone(T, X, d, p)
    BY <1>1, <1>2, <1>3, <1>7 DEF Local, StructureDone
<1>8. CASE MoreDue(T, X, d, p)
    BY <1>1, <1>2, <1>3, <1>8 DEF Local, MoreDue
<1>9. CASE ElementsDue(T, X, d, p)
    BY <1>1, <1>2, <1>3, <1>9 DEF Local, ElementsDue
<1>10. CASE SpaceDue(T, X, d, p)
    BY <1>1, <1>2, <1>3, <1>10 DEF Local, SpaceDue
<1>11. CASE KeyDue(T, X, d, p)
    BY <1>1, <1>2, <1>3, <1>11 DEF Local, KeyDue
<1>12. CASE InKey(T, X, t, d, p)
    BY <1>1, <1>2, <1>3, <1>12 DEF Local, InKey
<1>13. CASE KeyDone(T, X, d, p)
    BY <1>1, <1>2, <1>3, <1>13 DEF Local, KeyDone
<1>14. CASE ColonDue(T, X, d, p)
    BY <1>1, <1>2, <1>3, <1>14 DEF Local, ColonDue
<1> QED
    BY <1>4, <1>5, <1>6, <1>7, <1>8, <1>9, <1>10, <1>11, <1>12, <1>13, <1>14 DEF Local

\* Nor when nothing happens at all.
LEMMA LocalKept ==
    ASSUME stack' = stack, top' = top, lastOperation' = lastOperation, string_val' = string_val,
           events' = events, buf' = buf, used' = used,
           NEW T, NEW X, NEW t, NEW d, NEW p, Local(T, X, t, d, p)
    PROVE  Local(T, X, t, d, p)'
<1>1. ValueDue(T, X, d, p) => ValueDue(T, X, d, p)'
    BY DEF ValueDue
<1>2. InText(T, X, t, d, p) => InText(T, X, t, d, p)'
    BY DEF InText
<1>3. TextDone(T, X, d, p) => TextDone(T, X, d, p)'
    BY DEF TextDone
<1>4. StructureDone(T, X, d, p) => StructureDone(T, X, d, p)'
    BY DEF StructureDone
<1>5. MoreDue(T, X, d, p) => MoreDue(T, X, d, p)'
    BY DEF MoreDue
<1>6. ElementsDue(T, X, d, p) => ElementsDue(T, X, d, p)'
    BY DEF ElementsDue
<1>7. SpaceDue(T, X, d, p) => SpaceDue(T, X, d, p)'
    BY DEF SpaceDue
<1>8. KeyDue(T, X, d, p) => KeyDue(T, X, d, p)'
    BY DEF KeyDue
<1>9. InKey(T, X, t, d, p) => InKey(T, X, t, d, p)'
    BY DEF InKey
<1>10. KeyDone(T, X, d, p) => KeyDone(T, X, d, p)'
    BY DEF KeyDone
<1>11. ColonDue(T, X, d, p) => ColonDue(T, X, d, p)'
    BY DEF ColonDue
<1> QED
    BY <1>1, <1>2, <1>3, <1>4, <1>5, <1>6, <1>7, <1>8, <1>9, <1>10, <1>11 DEF Local

\* A document that went wrong stays wrong; otherwise a rule was followed.
LEMMA FeedLegal ==
    ASSUME JsonTypes, Feed, Legal'
    PROVE  todo' # <<"broken">> /\ Legal
<1>1. todo' # <<"broken">>
    <2>1. Head(<<"broken">>) = "broken" /\ <<"broken">> # <<>>
        OBVIOUS
    <2> QED
        BY <2>1 DEF Legal, Is
<1>2. Space \/ Value \/ InString \/ Structure
    BY <1>1 DEF Feed, Mistake
<1> QED
    BY <1>1, <1>2 DEF Legal, Is, Space, Value, InString, Structure

LEMMA FeedAgrees ==
    ASSUME Spaced, JsonTypes, Feed, Legal', Legal => Agreement
    PROVE  Agreement'
<1>1. Legal /\ todo' # <<"broken">>
    BY FeedLegal
<1>2. PICK T, X, t, d, at : Here(T, X, t, d, at) /\ Local(T, X, t, d, at[d])
    BY <1>1 DEF Agreement
<1>3. /\ buf = NoChar /\ stack' = stack /\ written' = written + 1
    BY DEF Feed
<1>4. T = todo /\ X = expected /\ t = text
    BY <1>2, <1>3 DEF Here, Fed
<1>5. buf' \in Chars /\ Follows(buf', T, X, t, todo', expected', text')
    BY <1>1, <1>4, FeedFollows
<1>6. buf' # NoChar
    BY <1>5 DEF Chars, NoChar
<1>7. used' = used
    BY <1>3, <1>6 DEF used, JsonTypes
<1>8. Fed(T, X, t)'
    BY <1>5, <1>6 DEF Fed
<1>9. Here(T, X, t, d, at)'
    BY <1>2, <1>3, <1>7, <1>8 DEF Here
<1>10. Local(T, X, t, d, at[d])'
    BY <1>2, LocalFed
<1> QED
    BY <1>9, <1>10 DEF Agreement

\* parser_init: one value is due, at entry 0.
LEMMA AgreesInitially ==
    ASSUME JsonInit
    PROVE  Agreement
<1> DEFINE at == [n \in Nat |-> 0]
<1>1. JsonTypes
    BY TypesInitially
<1>2. /\ todo = <<"object">> /\ expected = <<>> /\ text = <<>> /\ buf = NoChar /\ written = 0
      /\ top = 0 /\ events = <<>> /\ lastOperation = "none"
    BY DEF JsonInit
<1>3. stack[0] = "OBJECT"
    BY MaxLenAssumption DEF JsonInit
<1>4. at \in [Nat -> Nat] /\ at[0] = 0
    OBVIOUS
<1>5. Len(todo) = 1 /\ todo[1] = "object"
    BY <1>2
<1> HIDE DEF at
<1>6. Open(stack, todo, 0, at)
    <2>1. 0 <= Len(todo)
        BY <1>5
    <2>2. \A n \in 0 .. 0 : n = 0
        OBVIOUS
    <2>3. \A n \in 1 .. 0 : FALSE
        OBVIOUS
    <2>4. ValueAt(stack, at[0])
        BY <1>3, <1>4 DEF ValueAt
    <2>5. \A n \in 0 .. 0 : ValueAt(stack, at[n]) /\ at[n] <= 3 * n
        BY <1>4, <2>2, <2>4
    <2>6. \A n \in 0 .. 0 : \A m \in 0 .. n : at[m] <= at[n]
        BY <1>4, <2>2
    <2> QED
        BY <1>4, <2>1, <2>3, <2>5, <2>6 DEF Open
<1>7. used = 0
    BY <1>2 DEF used
<1>8. Here(todo, expected, text, 0, at)
    BY <1>1, <1>2, <1>4, <1>6, <1>7 DEF Here, Fed, JsonTypes
<1>9. Len(todo) = 0 + 1
    BY <1>5
<1>10. ValueDue(todo, expected, 0, at[0])
    BY <1>2, <1>4, <1>5, <1>9 DEF ValueDue
<1>11. Local(todo, expected, text, 0, at[0])
    BY <1>10 DEF Local
<1> QED
    BY <1>8, <1>11 DEF Agreement

(* The types hold always, the agreement as long as the document is legal.  *)
LEMMA JsonInvariant == Spaced => (JsonSpec => []JsonInv)
<1> SUFFICES ASSUME Spaced
             PROVE  JsonSpec => []JsonInv
    OBVIOUS
<1>1. JsonInit => JsonInv
    BY TypesInitially, AgreesInitially DEF JsonInv
<1>2. JsonInv /\ [JsonNext]_jsonVars => JsonInv'
    <2> SUFFICES ASSUME JsonInv, [JsonNext]_jsonVars
                 PROVE  JsonInv'
        OBVIOUS
    <2>1. CASE Feed
        <3>1. JsonTypes'
            BY <2>1, TypesOfFeed DEF JsonInv
        <3>2. Legal' => Agreement'
            BY <2>1, FeedAgrees DEF JsonInv
        <3> QED
            BY <3>1, <3>2 DEF JsonInv
    <2>2. CASE Parse
        <3>1. JsonTypes'
            BY <2>2, TypesOfParse DEF JsonInv
        <3>2. todo' = todo
            BY <2>2 DEF Parse, doc
        <3>3. Legal' => Legal
            BY <3>2 DEF Legal, Is
        <3>4. Legal' => Agreement'
            BY <2>2, <3>3, ParseAgrees DEF JsonInv
        <3> QED
            BY <3>1, <3>4 DEF JsonInv
    <2>3. CASE UNCHANGED jsonVars
        <3>1. /\ stack' = stack /\ top' = top /\ lastOperation' = lastOperation /\ string_val' = string_val
              /\ buf' = buf /\ events' = events
              /\ todo' = todo /\ text' = text /\ written' = written /\ expected' = expected
            BY <2>3 DEF jsonVars, doc
        <3>2. JsonTypes'
            BY <3>1 DEF JsonInv, JsonTypes
        <3>3. Legal' => Agreement
            BY <3>1 DEF JsonInv, Legal, Is
        <3>4. used' = used
            BY <3>1 DEF used
        <3>5. ASSUME Agreement PROVE Agreement'
            <4>1. PICK T, X, t, d, at : Here(T, X, t, d, at) /\ Local(T, X, t, d, at[d])
                BY <3>5 DEF Agreement
            <4>2. Here(T, X, t, d, at)'
                BY <3>1, <3>4, <4>1 DEF Here, Fed
            <4>3. Local(T, X, t, d, at[d])'
                BY <3>1, <3>4, <4>1, LocalKept
            <4> QED
                BY <4>2, <4>3 DEF Agreement
        <3> QED
            BY <3>2, <3>3, <3>5 DEF JsonInv
    <2> QED
        BY <2>1, <2>2, <2>3 DEF JsonNext
<1> QED
    BY <1>1, <1>2, PTL DEF JsonSpec
-----------------------------------------------------------------------------
(* What the agreement says of the parser.                                  *)
LEMMA HereFacts ==
    ASSUME JsonTypes, NEW T, NEW X, NEW t, NEW d, NEW at, Here(T, X, t, d, at)
    PROVE  /\ used \in Nat /\ d \in Nat /\ at[d] \in Nat
           /\ T \in Seq(Symbol) /\ X \in Seq(Report)
           /\ stack[at[d]] = "OBJECT" /\ at[d] <= 3 * d /\ d <= Len(T)
           /\ \A n \in 1 .. d : FromEnd(T, n) \in {"more", "elements"}
<1>1. T \in Seq(Symbol) /\ X \in Seq(Report) /\ d \in Nat /\ at \in [Nat -> Nat] /\ Open(stack, T, d, at)
    BY DEF Here
<1>2. used \in Nat
    BY MaxLenAssumption DEF JsonTypes, used
<1>3. at[d] \in Nat /\ d \in 0 .. d
    BY <1>1
<1>4. ValueAt(stack, at[d]) /\ at[d] <= 3 * d /\ d <= Len(T)
    BY <1>1, <1>3 DEF Open
<1>5. ASSUME NEW n \in 1 .. d
      PROVE  FromEnd(T, n) \in {"more", "elements"}
    BY <1>1 DEF Open, Level
<1> QED
    BY <1>1, <1>2, <1>3, <1>4, <1>5 DEF ValueAt

\* None of the eleven situations has INVALID on top.
LEMMA NeverInvalid ==
    ASSUME JsonTypes, Agreement
    PROVE  Current # "INVALID"
<1>1. PICK T, X, t, d, at : Here(T, X, t, d, at) /\ Local(T, X, t, d, at[d])
    BY DEF Agreement
<1>2. used \in Nat /\ d \in Nat /\ at[d] \in Nat /\ stack[at[d]] = "OBJECT"
    BY <1>1, HereFacts
<1> DEFINE p == at[d]
<1>3. p \in Nat /\ stack[p] = "OBJECT" /\ Local(T, X, t, d, p) /\ p = at[d]
    BY <1>1, <1>2
<1>4. CASE StructureDone(T, X, d, p) /\ top = p - 1 /\ d > 0
    <2>1. Len(T) = d
        BY <1>4 DEF StructureDone
    <2>2. at[d - 1] \in Nat /\ Level(stack, T[1], at[d - 1], p)
        BY <1>1, <1>2, <1>4, <2>1, HereDown
    <2>3. stack[p - 1] \in {"ARRAY", "OBJ_1"}
        <3> DEFINE q == at[d - 1]
        <3>1. q \in Nat /\ Level(stack, T[1], q, p)
            BY <2>2
        <3> HIDE DEF p, q
        <3>2. CASE p = q + 3 /\ stack[q + 2] = "OBJ_1"
            <4>1. p - 1 = q + 2
                BY <3>1, <3>2
            <4> QED
                BY <3>2, <4>1
        <3>3. CASE p = q + 2 /\ stack[q + 1] = "ARRAY"
            <4>1. p - 1 = q + 1
                BY <3>1, <3>3
            <4> QED
                BY <3>3, <4>1
        <3> QED
            BY <3>1, <3>2, <3>3 DEF Level
    <2> QED
        BY <1>4, <2>3 DEF Current
<1> HIDE DEF p
<1>5. CASE StructureDone(T, X, d, p) /\ top = p
    BY <1>3, <1>5 DEF Current
<1>6. CASE ValueDue(T, X, d, p)
    BY <1>3, <1>6 DEF Current, ValueDue
<1>7. CASE InText(T, X, t, d, p)
    BY <1>7 DEF Current, InText
<1>8. CASE TextDone(T, X, d, p)
    BY <1>3, <1>8 DEF Current, TextDone
<1>9. CASE MoreDue(T, X, d, p) \/ ElementsDue(T, X, d, p)
    BY <1>9 DEF Current, MoreDue, ElementsDue
<1>10. CASE SpaceDue(T, X, d, p) \/ KeyDue(T, X, d, p)
    BY <1>10 DEF Current, SpaceDue, KeyDue
<1>11. CASE InKey(T, X, t, d, p) \/ KeyDone(T, X, d, p) \/ ColonDue(T, X, d, p)
    BY <1>11 DEF Current, InKey, KeyDone, ColonDue
<1>12. StructureDone(T, X, d, p) => top = p \/ (top = p - 1 /\ d > 0)
    BY DEF StructureDone
<1> QED
    BY <1>3, <1>4, <1>5, <1>6, <1>7, <1>8, <1>9, <1>10, <1>11, <1>12 DEF Local

\* Either the sequences are the same or the longer has one string more.
LEMMA Lag ==
    ASSUME NEW s \in Seq(Report), NEW x \in Seq(Report),
           \/ x = s
           \/ \E v : x = Append(s, <<"STRING", v>>) \/ x = Append(s, <<"KEY", v>>)
    PROVE  /\ Len(s) <= Len(x)
           /\ s = SubSeq(x, 1, Len(s))
           /\ \A k \in Len(s) + 1 .. Len(x) : k = Len(x) /\ x[k][1] \in {"KEY", "STRING"}
<1>1. Len(s) \in Nat
    OBVIOUS
<1>2. CASE x = s
    <2>1. s = SubSeq(s, 1, Len(s))
        OBVIOUS
    <2>2. \A k \in Len(s) + 1 .. Len(s) : FALSE
        BY <1>1
    <2>3. Len(s) <= Len(s)
        BY <1>1
    <2>4. s = SubSeq(x, 1, Len(s)) /\ Len(s) <= Len(x)
        BY <1>2, <2>1, <2>3
    <2>5. \A k \in Len(s) + 1 .. Len(x) : FALSE
        BY <1>2, <2>2
    <2> QED
        BY <2>4, <2>5
<1>3. ASSUME NEW e, x = Append(s, e), e[1] \in {"KEY", "STRING"}
      PROVE  /\ Len(s) <= Len(x)
             /\ s = SubSeq(x, 1, Len(s))
             /\ \A k \in Len(s) + 1 .. Len(x) : k = Len(x) /\ x[k][1] \in {"KEY", "STRING"}
    <2>1. Len(x) = Len(s) + 1
        BY <1>3
    <2>2. x[Len(s) + 1] = e
        BY <1>3
    <2>3. \A k \in 1 .. Len(s) : x[k] = s[k]
        BY <1>3
    <2>4. s = SubSeq(x, 1, Len(s))
        BY <1>1, <2>1, <2>3
    <2>5. \A k \in Len(s) + 1 .. Len(x) : k = Len(s) + 1
        BY <1>1, <2>1
    <2>6. Len(s) <= Len(x)
        BY <1>1, <2>1
    <2> QED
        BY <1>3, <2>1, <2>2, <2>4, <2>5, <2>6
<1>4. ASSUME NEW v PROVE <<"STRING", v>>[1] \in {"KEY", "STRING"} /\ <<"KEY", v>>[1] \in {"KEY", "STRING"}
    OBVIOUS
<1> QED
    BY <1>2, <1>3, <1>4

\* The reports lag behind by a string whose last quote was just consumed.
LEMMA Reported ==
    ASSUME JsonTypes, Legal => Agreement
    PROVE  ReportedAsWritten
<1> SUFFICES ASSUME buf = NoChar, Legal
             PROVE  /\ Len(events) <= Len(expected)
                    /\ events = SubSeq(expected, 1, Len(events))
                    /\ \A k \in Len(events) + 1 .. Len(expected) :
                            k = Len(expected) /\ expected[k][1] \in {"KEY", "STRING"}
    BY DEF ReportedAsWritten
<1>1. PICK T, X, t, d, at : Here(T, X, t, d, at) /\ Local(T, X, t, d, at[d])
    BY DEF Agreement
<1>2. X = expected
    BY <1>1 DEF Here, Fed
<1>3. \/ X = events
      \/ X = Append(events, <<"STRING", string_val>>)
      \/ X = Append(events, <<"KEY", string_val>>)
    BY <1>1 DEF Local, ValueDue, InText, TextDone, StructureDone, MoreDue, ElementsDue, SpaceDue, KeyDue,
        InKey, KeyDone, ColonDue
<1>4. events \in Seq(Report) /\ expected \in Seq(Report)
    BY DEF JsonTypes
<1> QED
    BY <1>2, <1>3, <1>4, Lag

\* Every open structure is a level.
LEMMA IntervalSize ==
    ASSUME NEW a \in Nat, NEW b \in Nat, NEW n \in Nat, a = b + 1 - n
    PROVE  Cardinality(a .. b) = n
<1>1. Cardinality(a .. b) = IF a > b THEN 0 ELSE b - a + 1
    BY FS_Interval
<1>2. (a > b => n = 0) /\ b - a + 1 = n
    OBVIOUS
<1> QED
    BY <1>1, <1>2

LEMMA LevelsOpen ==
    ASSUME NEW n \in Nat, NEW m \in Nat, n <= Len(todo), todo \in Seq(Symbol), m = Len(todo) + 1 - n,
           \A k \in m .. Len(todo) : todo[k] \in {"more", "elements"}
    PROVE  Levels \in Nat /\ n <= Levels
<1> DEFINE L == {k \in 1 .. Len(todo) : todo[k] \in {"more", "elements"}}
<1>1. Len(todo) \in Nat
    OBVIOUS
<1>2. 1 <= m /\ m .. Len(todo) \subseteq 1 .. Len(todo)
    BY <1>1
<1>3. m .. Len(todo) \subseteq L
    BY <1>2
<1>4. IsFiniteSet(1 .. Len(todo))
    BY <1>1, FS_Interval
<1>5. L \subseteq 1 .. Len(todo)
    OBVIOUS
<1>6. Cardinality(m .. Len(todo)) = n
    BY <1>1, IntervalSize
<1> HIDE DEF L
<1>7. IsFiniteSet(L)
    BY <1>4, <1>5, FS_Subset
<1>8. Cardinality(m .. Len(todo)) <= Cardinality(L)
    BY <1>3, <1>7, FS_Subset
<1>9. Cardinality(L) \in Nat
    BY <1>7, FS_CardinalityType
<1> QED
    BY <1>6, <1>8, <1>9 DEF Levels, L

\* Above the OBJECT of the innermost value are at most three entries.
LEMMA Shallow ==
    ASSUME JsonTypes, Legal => Agreement
    PROVE  StackPerLevel
<1> SUFFICES ASSUME buf = NoChar, Legal
             PROVE  top <= 3 * Levels + 2
    BY DEF StackPerLevel
<1>1. PICK T, X, t, d, at : Here(T, X, t, d, at) /\ Local(T, X, t, d, at[d])
    BY DEF Agreement
<1>2. T = todo
    BY <1>1 DEF Here, Fed
<1>3. /\ d \in Nat /\ at[d] \in Nat /\ todo \in Seq(Symbol)
      /\ at[d] <= 3 * d /\ d <= Len(todo)
      /\ \A n \in 1 .. d : FromEnd(todo, n) \in {"more", "elements"}
    BY <1>1, <1>2, HereFacts
<1> DEFINE p == at[d]
<1>4. p \in Nat /\ p <= 3 * d /\ Local(T, X, t, d, p)
    BY <1>1, <1>3
<1> HIDE DEF p
<1>5. Len(todo) \in Nat
    BY <1>3
<1>6. ASSUME NEW k \in Len(todo) + 1 - d .. Len(todo)
      PROVE  todo[k] \in {"more", "elements"}
    <2>1. Len(todo) + 1 - k \in 1 .. d
        BY <1>3, <1>5
    <2>2. FromEnd(todo, Len(todo) + 1 - k) = todo[k]
        <3>1. Len(todo) + 1 - (Len(todo) + 1 - k) = k
            BY <1>3, <1>5
        <3> QED
            BY <3>1 DEF FromEnd
    <2> QED
        BY <1>3, <2>1, <2>2
<1>7. CASE InKey(T, X, t, d, p)
    <2>1. Len(todo) = d + 4 /\ todo[4] = "more" /\ top = p + 3
        BY <1>2, <1>7 DEF InKey, Pair
    <2>2. ASSUME NEW k \in 4 .. Len(todo)
          PROVE  todo[k] \in {"more", "elements"}
        <3>1. k = 4 \/ k \in Len(todo) + 1 - d .. Len(todo)
            BY <1>3, <2>1
        <3> QED
            BY <1>6, <2>1, <3>1
    <2>3. d + 1 \in Nat /\ d + 1 <= Len(todo) /\ 4 = Len(todo) + 1 - (d + 1)
        BY <1>3, <2>1
    <2>4. Levels \in Nat /\ d + 1 <= Levels
        BY <1>3, <2>2, <2>3, LevelsOpen
    <2> QED
        BY <1>3, <1>4, <2>1, <2>4
<1>8. CASE ~InKey(T, X, t, d, p)
    <2>1. top <= p + 2
        BY <1>4, <1>8 DEF Local, ValueDue, InText, TextDone, StructureDone, MoreDue, ElementsDue, SpaceDue, KeyDue,
            KeyDone, ColonDue
    <2>2. Levels \in Nat /\ d <= Levels
        <3>1. Len(todo) + 1 - d \in Nat
            BY <1>3, <1>5
        <3> QED
            BY <1>3, <1>6, <3>1, LevelsOpen
    <2>3. top \in Int
        BY DEF JsonTypes
    <2> QED
        BY <1>3, <1>4, <2>1, <2>2, <2>3
<1> QED
    BY <1>7, <1>8

(* Whatever document of the grammar it is given, of any length, depth and  *)
(* number of elements, and with white space before each element of an      *)
(* array, json_parse_buf never finds it invalid.                           *)
THEOREM DocumentsAccepted == Spaced => (JsonSpec => []AcceptsGrammar)
<1>1. JsonInv => AcceptsGrammar
    BY NeverInvalid DEF JsonInv, AcceptsGrammar
<1> QED
    BY <1>1, JsonInvariant, PTL

(* Of such a document the handler is told every structure, array, key and  *)
(* string, once, in order and with its text; only the last string may      *)
(* still be on its way.                                                    *)
THEOREM DocumentsReported == Spaced => (JsonSpec => []ReportedAsWritten)
<1>1. JsonInv => ReportedAsWritten
    BY Reported DEF JsonInv
<1> QED
    BY <1>1, JsonInvariant, PTL

(* However long such a document is, three entries of the stack for each    *)
(* level that is open, and two more, are enough.                           *)
THEOREM StackBounded == Spaced => (JsonSpec => []StackPerLevel)
<1>1. JsonInv => StackPerLevel
    BY Shallow DEF JsonInv
<1> QED
    BY <1>1, JsonInvariant, PTL
=============================================================================

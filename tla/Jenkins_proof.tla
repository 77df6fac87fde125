---------------------------- MODULE Jenkins_proof ----------------------------
(***************************************************************************)
(* The Jenkins client as a whole does what its two halves do: each job is  *)
(* reported once with its own name and color, for any number of jobs,      *)
(* nested to any depth, over any number of requests cut off anywhere.      *)
(*                                                                         *)
(* The invariant reads off todo where in the response the parser is: pre,  *)
(* symbols of values still open, above one of seven bottoms.  The counter  *)
(* of the handler is what lies below pre, and one more for each "inner" in *)
(* pre, a structure nobody has asked for.                                  *)
(***************************************************************************)
EXTENDS Jenkins, WellFoundedInduction, TLAPS

-----------------------------------------------------------------------------
(* The memory of a request, for any response and any way to cut it.  The   *)
(* invariant adds to the two properties of the life cycle that a           *)
(* connection on its way out was closed by the server first: it is what    *)
(* ties a late poll or error, and with it the use of freed memory, to      *)
(* jac_recv without data.                                                  *)
Leaving == {"closing", "closed by peer"}

LifeInv ==
    /\ StateWithConnection
    /\ UndefinedOnlyAfterRemoteClose
    /\ pcb \in Leaving => remoteClosed
    /\ pcb \in Blocks \cup {"none", "freed"}
    /\ pc \in {"idle", "undefined"}

LEMMA LifeInit == Init => LifeInv
BY DEF Init, LifeInv, StateWithConnection, UndefinedOnlyAfterRemoteClose, Leaving, Blocks

(* An abort of a connection that is connecting or open frees the state     *)
(* once; of one that is leaving, it needs the server to have closed.       *)
LEMMA AbortKeeps ==
    ASSUME LifeInv, pc = "idle", pcb \in Blocks, Abort, remoteClosed' = remoteClosed
    PROVE  LifeInv'
<1>1. CASE state = "live"
    BY <1>1 DEF LifeInv, StateWithConnection, UndefinedOnlyAfterRemoteClose, Abort, Free, Leaving, Blocks
<1>2. CASE state # "live"
    <2>1. remoteClosed
        BY <1>2 DEF LifeInv, StateWithConnection, Leaving, Blocks
    <2>2. pcb' = "freed" /\ pc' = "undefined" /\ state' = state
        BY <1>2 DEF Abort, Free
    <2>3. QED
        BY <2>1, <2>2 DEF LifeInv, StateWithConnection, UndefinedOnlyAfterRemoteClose, Leaving
<1>3. QED
    BY <1>1, <1>2

LEMMA LifeStep == LifeInv /\ [Next]_vars => LifeInv'
<1> SUFFICES ASSUME LifeInv, [Next]_vars PROVE LifeInv'
    OBVIOUS
<1> USE DEF StateWithConnection, UndefinedOnlyAfterRemoteClose, Leaving, Blocks
<1>1. CASE GetStatus
    BY <1>1 DEF GetStatus, NoConnection, LifeInv
<1>2. CASE Connected
    <2>1. CASE Abort
        BY <1>2, <2>1, AbortKeeps DEF Connected
    <2>2. CASE pcb' = "open" /\ UNCHANGED <<state, pc>>
        BY <1>2, <2>2 DEF Connected, LifeInv
    <2>3. QED
        BY <1>2, <2>1, <2>2 DEF Connected
<1>3. CASE Receive
    BY <1>3 DEF Receive, LifeInv
<1>4. CASE RemoteClose
    <2>1. state = "live"
        BY <1>4 DEF RemoteClose, LifeInv
    <2>2. QED
        BY <1>4, <2>1 DEF RemoteClose, Free, LifeInv
<1>5. CASE Poll
    <2>1. CASE state = "live"
        BY <1>5, <2>1, AbortKeeps DEF Poll, Connecting
    <2>2. CASE state # "live"
        BY <1>5, <2>2 DEF Poll, LifeInv
    <2>3. QED
        BY <2>1, <2>2
<1>6. CASE Error
    BY <1>6, AbortKeeps DEF Error
<1>7. CASE Closed
    BY <1>7 DEF Closed, LifeInv
<1>8. CASE UNCHANGED vars
    BY <1>8 DEF vars, LifeInv
<1>9. QED
    BY <1>1, <1>2, <1>3, <1>4, <1>5, <1>6, <1>7, <1>8 DEF Next

LEMMA LifeAlways == Spec => []LifeInv
BY LifeInit, LifeStep, PTL DEF Spec

(* jac_state is allocated exactly as long as its connection is connecting  *)
(* or open, for any responses.                                             *)
THEOREM StateLives == Spec => []StateWithConnection
<1>1. LifeInv => StateWithConnection
    BY DEF LifeInv
<1>2. QED
    BY LifeAlways, <1>1, PTL

(* The memory of a request is used after it was freed, or freed twice,     *)
(* only when the server closed the connection first (jac_recv).            *)
THEOREM SafeUnlessServerCloses == Spec => []UndefinedOnlyAfterRemoteClose
<1>1. LifeInv => UndefinedOnlyAfterRemoteClose
    BY DEF LifeInv
<1>2. QED
    BY LifeAlways, <1>1, PTL
-----------------------------------------------------------------------------
(* The end of the header, for any response and any way to cut it.  After n *)
(* bytes of the response the match is Progress(n), a closed form: the loop *)
(* is shown to keep to it by induction over its turns.                     *)
(* A set of naturals has a least one: the form of induction used here.     *)
LEMMA Least ==
    ASSUME NEW T, T \subseteq Nat, T # {}
    PROVE  \E m \in T : \A k \in T : m <= k
<1> DEFINE R == OpToRel(<, Nat)
<1>1. IsWellFoundedOn(R, Nat)
    BY NatLessThanWellFounded
<1>2. \A x \in Nat, y \in Nat : x < y => <<x, y>> \in R
    BY DEF OpToRel
<1> HIDE DEF R
<1>3. PICK x \in T : \A y \in T : ~ (<<y, x>> \in R)
    BY <1>1, WFMin
<1>4. \A y \in T : ~(y < x)
    BY <1>2, <1>3
<1>5. \A y \in T : x <= y
    BY <1>4
<1> QED
    BY <1>5

(* Induction up to a bound, on the set of the numbers for which it holds.  *)
LEMMA UpTo ==
    ASSUME NEW N \in Nat, NEW P, 0 \in P, \A n \in 1 .. N : n - 1 \in P => n \in P
    PROVE  \A n \in 0 .. N : n \in P
<1> DEFINE T == {n \in 0 .. N : n \notin P}
<1> SUFFICES ASSUME T # {} PROVE FALSE
    OBVIOUS
<1>1. T \subseteq Nat
    OBVIOUS
<1> HIDE DEF T
<1>2. PICK m \in T : \A k \in T : m <= k
    BY <1>1, Least
<1> USE DEF T
<1>3. m \in 1 .. N
    BY <1>2
<1>4. m - 1 \in P
    BY <1>2, <1>3
<1> QED
    BY <1>3, <1>4

(* What is defined by its predecessor exists: G[n] makes number n of the   *)
(* one before.                                                             *)
LEMMA Recursion ==
    ASSUME NEW S, NEW b \in S, NEW N \in Nat, NEW G \in [1 .. N -> [S -> S]]
    PROVE  \E f \in [0 .. N -> S] : f[0] = b /\ \A n \in 1 .. N : f[n] = G[n][f[n - 1]]
<1> DEFINE Part(k, f) ==
               f \in [0 .. k -> S] /\ f[0] = b /\ \A n \in 1 .. k : f[n] = G[n][f[n - 1]]
           P == {k \in 0 .. N : \E f : Part(k, f)}
<1>1. 0 \in P
    <2>1. \E f : Part(0, f)
        <3>1. Part(0, [n \in 0 .. 0 |-> b])
            OBVIOUS
        <3> QED
            BY <3>1
    <2> HIDE DEF Part
    <2> QED
        BY <2>1
<1>2. ASSUME NEW n \in 1 .. N, n - 1 \in P PROVE n \in P
    <2>1. PICK f : Part(n - 1, f)
        BY <1>2
    <2> DEFINE g == [k \in 0 .. n |-> IF k < n THEN f[k] ELSE G[n][f[n - 1]]]
    <2>2. Part(n, g)
        <3>1. n \in Nat /\ n - 1 \in 0 .. n - 1 /\ f[n - 1] \in S
            BY <2>1
        <3>2. g \in [0 .. n -> S] /\ g[0] = b
            BY <2>1, <3>1
        <3>3. ASSUME NEW k \in 1 .. n PROVE g[k] = G[k][g[k - 1]]
            <4>1. CASE k < n
                <5>1. k \in 1 .. n - 1 /\ g[k] = f[k] /\ g[k - 1] = f[k - 1]
                    BY <3>1, <4>1
                <5> QED
                    BY <5>1, <2>1
            <4>2. CASE k = n
                <5>1. g[n] = G[n][f[n - 1]] /\ g[n - 1] = f[n - 1]
                    BY <3>1
                <5> QED
                    BY <5>1, <4>2
            <4> QED
                BY <4>1, <4>2, <3>1
        <3> QED
            BY <3>2, <3>3
    <2>3. \E h : Part(n, h)
        BY <2>2
    <2> HIDE DEF Part
    <2> QED
        BY <2>3
<1> HIDE DEF P
<1>3. N \in P
    <2>1. \A n \in 0 .. N : n \in P
        BY <1>1, <1>2, UpTo
    <2> QED
        BY <2>1
<1> QED
    BY <1>3 DEF P

Found == [match : 0 .. 4, at : Nat]

LEMMA MatchedType == \A s \in Found : \A c : Matched(s, c) \in Found
BY DEF Matched, Found

Turns(run, data) ==
    /\ run \in [0 .. Len(data) -> Found]
    /\ run[0] = [match |-> match, at |-> 0]
    /\ \A n \in 1 .. Len(data) : run[n] = Matched(run[n - 1], data[n])

(* The loop runs: the function by which Scan is defined exists.            *)
LEMMA ScanRuns ==
    ASSUME NEW data \in Seq(Kinds), match \in 0 .. 4
    PROVE  \E run : Turns(run, data) /\ Scan(data) = run[Len(data)]
<1> DEFINE N == Len(data)
           start == [match |-> match, at |-> 0]
           G == [n \in 1 .. N |-> [s \in Found |-> Matched(s, data[n])]]
           Runs(run) == run = [n \in 0 .. N |-> IF n = 0 THEN start ELSE Matched(run[n - 1], data[n])]
<1>1. N \in Nat /\ start \in Found /\ G \in [1 .. N -> [Found -> Found]]
    BY MatchedType DEF Found
<1>2. \E run : Runs(run)
    <2> HIDE DEF G, N, start
    <2>1. PICK run \in [0 .. N -> Found] :
              run[0] = start /\ \A n \in 1 .. N : run[n] = G[n][run[n - 1]]
        BY <1>1, Recursion
    <2>2. \A n \in 1 .. N : run[n] = Matched(run[n - 1], data[n])
        BY <1>1, <2>1 DEF G
    <2>3. Runs(run)
        BY <2>1, <2>2
    <2> QED
        BY <2>3
<1>3. Scan(data) = (CHOOSE run : Runs(run))[N]
    BY DEF Scan
<1>4. PICK run : Runs(run) /\ Scan(data) = run[N]
    BY <1>2, <1>3
<1> HIDE DEF G, N, start
<1>5. run[0] = start /\ \A n \in 1 .. N : run[n] = Matched(run[n - 1], data[n])
    BY <1>1, <1>4
<1>6. \A n \in 0 .. N : run[n] \in Found
    <2> DEFINE P == {n \in 0 .. N : run[n] \in Found}
    <2>1. 0 \in P
        BY <1>1, <1>5
    <2>2. \A n \in 1 .. N : n - 1 \in P => n \in P
        BY <1>1, <1>5, MatchedType
    <2> HIDE DEF P
    <2>3. \A n \in 0 .. N : n \in P
        BY <1>1, <2>1, <2>2, UpTo
    <2> QED
        BY <2>3 DEF P
<1>7. run \in [0 .. N -> Found]
    BY <1>4, <1>6
<1> QED
    BY <1>4, <1>5, <1>7 DEF Turns, N, start

HeaderLen == 3 * NLines + 2

\* How much of header_match is found after n characters of a response.
Progress(n) ==
    IF n >= HeaderLen THEN 4
    ELSE IF n = 3 * NLines + 1 THEN 3
    ELSE IF n % 3 = 2 THEN 1
    ELSE IF n % 3 = 0 /\ n > 0 THEN 2
    ELSE 0

LEMMA HeaderIs ==
    /\ Header \in Seq(Kinds) /\ Len(Header) = HeaderLen /\ HeaderLen \in Nat
    /\ \A n \in 1 .. HeaderLen :
           Header[n] = IF n > 3 * NLines THEN IF n = HeaderLen THEN "lf" ELSE "cr"
                       ELSE IF n % 3 = 1 THEN "text" ELSE IF n % 3 = 2 THEN "cr" ELSE "lf"
<1>1. NLines \in Nat /\ NLines > 0
    BY NLinesAssumption
<1>2. \A n \in 1 .. HeaderLen :
           Header[n] = IF n > 3 * NLines THEN IF n = HeaderLen THEN "lf" ELSE "cr"
                       ELSE IF n % 3 = 1 THEN "text" ELSE IF n % 3 = 2 THEN "cr" ELSE "lf"
    <2> TAKE n \in 1 .. HeaderLen
    <2>1. CASE n > 3 * NLines
        <3>1. n = 3 * NLines + 1 \/ n = 3 * NLines + 2
            BY <1>1, <2>1 DEF HeaderLen
        <3> QED
            BY <1>1, <2>1, <3>1 DEF Header, HeaderLen
    <2>2. CASE n <= 3 * NLines
        <3>1. n \in Nat /\ Header[n] = <<"text", "cr", "lf">>[((n - 1) % 3) + 1]
            BY <1>1, <2>2 DEF Header, HeaderLen
        <3>2. (n - 1) % 3 = IF n % 3 = 1 THEN 0 ELSE IF n % 3 = 2 THEN 1 ELSE 2
            BY <1>1, <2>2, <3>1
        <3> QED
            BY <1>1, <2>2, <3>1, <3>2
    <2> QED
        BY <1>1, <2>1, <2>2 DEF HeaderLen
<1>3. Header \in [1 .. HeaderLen -> Kinds] /\ HeaderLen \in Nat
    BY <1>1, <1>2 DEF Header, HeaderLen, Kinds
<1> QED
    BY <1>2, <1>3

(* A response: its header, then anything.                                  *)
LEMMA ResponseIs ==
    ASSUME NEW s \in Responses
    PROVE  /\ s \in Seq(Kinds) /\ Len(s) >= HeaderLen
           /\ \A n \in 1 .. HeaderLen : s[n] = Header[n]
<1>1. PICK n \in 0 .. NBody : \E body \in [1 .. n -> Kinds] : s = Header \o body
    BY DEF Responses
<1>2. PICK body \in [1 .. n -> Kinds] : s = Header \o body
    BY <1>1
<1>3. body \in Seq(Kinds)
    BY <1>2, NBodyAssumption
<1> HIDE DEF Header
<1> QED
    BY <1>2, <1>3, HeaderIs

(* The next character of the header does what Progress says.               *)
LEMMA HeaderStep ==
    ASSUME NEW n \in 1 .. HeaderLen, NEW s \in Found, s.match = Progress(n - 1)
    PROVE  Matched(s, Header[n]) = [match |-> Progress(n), at |-> s.at + 1]
<1>1. NLines \in Nat /\ NLines > 0
    BY NLinesAssumption
<1>2. header_match[1] = "cr" /\ header_match[2] = "lf"
      /\ header_match[3] = "cr" /\ header_match[4] = "lf"
    BY DEF header_match
<1>3. Progress(n - 1) # 4
    BY <1>1 DEF Progress, HeaderLen
<1>4. Matched(s, Header[n])
         = [match |-> IF Header[n] = header_match[s.match + 1] THEN s.match + 1 ELSE 0,
            at |-> s.at + 1]
    BY <1>3 DEF Matched
<1>5. (IF Header[n] = header_match[s.match + 1] THEN s.match + 1 ELSE 0) = Progress(n)
    <2>1. CASE n = HeaderLen
        <3>1. Header[n] = "lf" /\ Progress(n - 1) = 3 /\ Progress(n) = 4
            BY <1>1, <2>1, HeaderIs DEF Progress, HeaderLen
        <3> QED
            BY <3>1, <1>2
    <2>2. CASE n = 3 * NLines + 1
        <3>1. Header[n] = "cr" /\ Progress(n - 1) = 2 /\ Progress(n) = 3
            BY <1>1, <2>2, HeaderIs DEF Progress, HeaderLen
        <3> QED
            BY <3>1, <1>2
    <2>3. CASE n <= 3 * NLines
        <3>1. CASE n % 3 = 1
            <4>1. Header[n] = "text" /\ Progress(n) = 0 /\ Progress(n - 1) \in {0, 2}
                BY <1>1, <2>3, <3>1, HeaderIs DEF Progress, HeaderLen
            <4> QED
                BY <4>1, <1>2
        <3>2. CASE n % 3 = 2
            <4>1. Header[n] = "cr" /\ Progress(n) = 1 /\ Progress(n - 1) = 0
                BY <1>1, <2>3, <3>2, HeaderIs DEF Progress, HeaderLen
            <4> QED
                BY <4>1, <1>2
        <3>3. CASE n % 3 = 0
            <4>1. Header[n] = "lf" /\ Progress(n) = 2 /\ Progress(n - 1) = 1
                BY <1>1, <2>3, <3>3, HeaderIs DEF Progress, HeaderLen
            <4> QED
                BY <4>1, <1>2
        <3> QED
            BY <1>1, <2>3, <3>1, <3>2, <3>3
    <2> QED
        BY <1>1, <2>1, <2>2, <2>3 DEF HeaderLen
<1> QED
    BY <1>4, <1>5

(* A chunk that begins in the header: where the loop stops in it.          *)
LEMMA ScanHeader ==
    ASSUME stream \in Responses, pos \in Nat, pos < HeaderLen, match = Progress(pos),
           NEW n \in Nat \ {0}, pos + n <= Len(stream)
    PROVE  Scan(SubSeq(stream, pos + 1, pos + n))
              = IF pos + n <= HeaderLen THEN [match |-> Progress(pos + n), at |-> n]
                ELSE [match |-> 4, at |-> HeaderLen - pos]
<1> DEFINE data == SubSeq(stream, pos + 1, pos + n)
           Due(k) == IF pos + k <= HeaderLen THEN [match |-> Progress(pos + k), at |-> k]
                     ELSE [match |-> 4, at |-> HeaderLen - pos]
<1>0. HeaderLen \in Nat /\ match \in 0 .. 4
    BY HeaderIs DEF Progress
<1>1. data \in Seq(Kinds) /\ Len(data) = n /\ \A k \in 1 .. n : data[k] = stream[pos + k]
    BY ResponseIs
<1> HIDE DEF data
<1>2. PICK run : Turns(run, data) /\ Scan(data) = run[Len(data)]
    BY <1>0, <1>1, ScanRuns
<1>3. /\ run[0] = [match |-> match, at |-> 0]
      /\ \A k \in 1 .. n : run[k] = Matched(run[k - 1], data[k]) /\ run[k - 1] \in Found
    BY <1>1, <1>2 DEF Turns
<1> DEFINE P == {k \in 0 .. n : run[k] = Due(k)}
<1>4. 0 \in P
    BY <1>0, <1>3
<1>5. ASSUME NEW k \in 1 .. n, k - 1 \in P PROVE k \in P
    <2>1. run[k - 1] = Due(k - 1) /\ run[k] = Matched(run[k - 1], data[k])
        BY <1>5, <1>3
    <2>2. CASE pos + k <= HeaderLen
        <3>1. pos + k \in 1 .. HeaderLen /\ (pos + k) - 1 = pos + (k - 1)
              /\ pos + (k - 1) <= HeaderLen
            BY <1>0, <2>2
        <3>2. run[k - 1].match = Progress((pos + k) - 1) /\ run[k - 1].at = k - 1
            BY <2>1, <3>1
        <3>3. data[k] = Header[pos + k]
            BY <1>1, <3>1, ResponseIs
        <3>4. run[k] = [match |-> Progress(pos + k), at |-> (k - 1) + 1]
            BY <1>3, <2>1, <3>1, <3>2, <3>3, HeaderStep
        <3> QED
            BY <2>2, <3>4
    <2>3. CASE pos + k > HeaderLen
        <3>1. run[k - 1].match = 4 /\ run[k - 1] = [match |-> 4, at |-> HeaderLen - pos]
            BY <1>0, <2>1, <2>3 DEF Progress
        <3>2. run[k] = run[k - 1]
            BY <2>1, <3>1 DEF Matched
        <3> QED
            BY <1>0, <2>3, <3>1, <3>2
    <2> QED
        BY <1>0, <2>2, <2>3
<1> HIDE DEF P
<1>6. \A k \in 0 .. n : k \in P
    BY <1>4, <1>5, UpTo
<1>7. run[n] = Due(n)
    BY <1>6 DEF P
<1> QED
    BY <1>1, <1>2, <1>7 DEF data

-----------------------------------------------------------------------------
\* Where the search for the end of the header is, and what follows it.
ScanInv ==
    /\ pos < HeaderLen => match = Progress(pos) /\ parsed = <<>>
    /\ pos >= HeaderLen => match = 4 /\ parsed = SubSeq(stream, HeaderLen, pos)

ClientInv == TypeOK /\ ScanInv

LEMMA TypeInit == Init => ClientInv
<1> SUFFICES ASSUME Init PROVE ClientInv
    OBVIOUS
<1>1. stream \in Seq(Kinds) /\ HeaderLen \in Nat /\ HeaderLen > 0
    BY ResponseIs, NLinesAssumption DEF Init, HeaderLen
<1>2. header_done = (match = 4)
    <2>1. match = 0 /\ 0 # 4
        BY DEF Init
    <2>2. match # 4 /\ header_done = FALSE
        BY <2>1 DEF Init
    <2> QED
        BY <2>2, Zenon
<1>3. parsed \in Seq(Kinds) /\ pos \in 0 .. Len(stream) /\ match \in 0 .. 4
    BY <1>1 DEF Init
<1>4. TypeOK
    BY <1>2, <1>3 DEF Init, TypeOK, Blocks
<1>5. ScanInv
    BY <1>1, NLinesAssumption DEF Init, ScanInv, Progress, HeaderLen
<1> QED
    BY <1>4, <1>5 DEF ClientInv

(* A chunk of the response, whole steps of the loop or none.               *)
LEMMA ReceiveStep == ClientInv /\ Receive => ClientInv'
<1> SUFFICES ASSUME ClientInv, Receive PROVE ClientInv'
    OBVIOUS
<1>1. /\ stream \in Seq(Kinds) /\ Len(stream) >= HeaderLen /\ HeaderLen \in Nat
      /\ stream \in Responses /\ pos \in Nat /\ pos <= Len(stream) /\ Len(stream) \in Nat
      /\ HeaderLen > 0
    BY ResponseIs, HeaderIs, NLinesAssumption DEF ClientInv, TypeOK, HeaderLen
<1>2. PICK n \in 1 .. Len(stream) - pos :
          ParseResponse(SubSeq(stream, pos + 1, pos + n)) /\ pos' = pos + n
    BY DEF Receive
<1> DEFINE data == SubSeq(stream, pos + 1, pos + n)
<1>3. n \in Nat \ {0} /\ pos + n <= Len(stream) /\ pos' \in 0 .. Len(stream)
    BY <1>1, <1>2
<1>4. data \in Seq(Kinds) /\ Len(data) = n
    BY <1>1, <1>3
<1>5. UNCHANGED <<pcb, state, pc, stream, remoteClosed>>
    BY DEF Receive
<1>6. /\ match' \in 0 .. 4 /\ header_done' = (match' = 4) /\ parsed' \in Seq(Kinds)
      /\ pos' < HeaderLen => match' = Progress(pos') /\ parsed' = <<>>
      /\ pos' >= HeaderLen => match' = 4 /\ parsed' = SubSeq(stream, HeaderLen, pos')
    <2>1. CASE pos >= HeaderLen
        <3>1. header_done /\ match = 4 /\ parsed = SubSeq(stream, HeaderLen, pos)
            BY <2>1 DEF ClientInv, ScanInv, TypeOK
        <3>2. parsed' = parsed \o data /\ match' = 4 /\ header_done'
            BY <1>2, <3>1 DEF ParseResponse
        <3>3. SubSeq(stream, HeaderLen, pos) \o SubSeq(stream, pos + 1, pos + n)
                 = SubSeq(stream, HeaderLen, pos + n)
            BY <1>1, <1>3, <2>1
        <3>4. SubSeq(stream, HeaderLen, pos + n) \in Seq(Kinds)
            BY <1>1, <1>3, <2>1
        <3>5. parsed' = SubSeq(stream, HeaderLen, pos + n)
            BY <3>1, <3>2, <3>3
        <3>6. header_done' = (match' = 4)
            BY <3>2
        <3> HIDE DEF data
        <3>7. parsed' = SubSeq(stream, HeaderLen, pos') /\ parsed' \in Seq(Kinds)
            BY <1>2, <3>4, <3>5
        <3>8. pos' >= HeaderLen /\ ~(pos' < HeaderLen)
            BY <1>1, <1>2, <1>3, <2>1
        <3>9. match' = 4 /\ match' \in 0 .. 4
            BY <3>2
        <3> QED
            BY <3>6, <3>7, <3>8, <3>9
    <2>2. CASE pos < HeaderLen
        <3>0. match = Progress(pos) /\ parsed = <<>> /\ match # 4
            BY <1>1, <2>2 DEF ClientInv, ScanInv, Progress
        <3>1. match = Progress(pos) /\ parsed = <<>> /\ ~header_done
            BY <3>0 DEF ClientInv, TypeOK
        <3> DEFINE end == Scan(data)
        <3>2. end = IF pos + n <= HeaderLen THEN [match |-> Progress(pos + n), at |-> n]
                    ELSE [match |-> 4, at |-> HeaderLen - pos]
            BY <1>1, <1>3, <2>2, <3>1, ScanHeader
        <3>3. /\ match' = end.match /\ header_done' = (end.match = 4)
              /\ parsed' = IF end.match = 4 THEN SubSeq(data, end.at, Len(data)) ELSE parsed
            BY <1>2, <3>1 DEF ParseResponse
        <3> HIDE DEF end, data
        <3>4. CASE pos + n < HeaderLen
            <4>1. end.match = Progress(pos + n) /\ Progress(pos + n) \in 0 .. 3
                BY <1>1, <1>3, <3>2, <3>4 DEF Progress
            <4> QED
                BY <1>1, <1>2, <1>3, <3>1, <3>3, <3>4, <4>1
        <3>5. CASE pos + n >= HeaderLen
            <4>1. end.match = 4 /\ end.at = HeaderLen - pos
                BY <1>1, <1>3, <3>2, <3>5 DEF Progress
            <4>2. SubSeq(data, HeaderLen - pos, n) = SubSeq(stream, HeaderLen, pos + n)
                BY <1>1, <1>3, <2>2, <3>5 DEF data
            <4>3. SubSeq(stream, HeaderLen, pos + n) \in Seq(Kinds)
                BY <1>1, <1>3, <3>5
            <4>4. parsed' = SubSeq(stream, HeaderLen, pos') /\ match' = 4
                BY <1>2, <1>4, <3>3, <4>1, <4>2
            <4>5. header_done' = (match' = 4)
                BY <3>3, <4>1
            <4> QED
                BY <1>1, <1>2, <1>3, <3>5, <4>3, <4>4, <4>5
        <3> QED
            BY <1>1, <1>3, <3>4, <3>5
    <2> QED
        BY <1>1, <2>1, <2>2
<1>7. TypeOK'
    BY <1>3, <1>5, <1>6 DEF ClientInv, TypeOK
<1>8. ScanInv'
    BY <1>2, <1>5, <1>6 DEF ScanInv
<1> QED
    BY <1>7, <1>8 DEF ClientInv

(* Each request starts with a fresh state.                                 *)
LEMMA FreshStep == ClientInv /\ GetStatus => ClientInv'
<1> SUFFICES ASSUME ClientInv, GetStatus PROVE ClientInv'
    OBVIOUS
<1>1. /\ stream' \in Responses /\ pos' = 0 /\ match' = 0 /\ parsed' = <<>>
      /\ header_done' = FALSE
    BY DEF GetStatus, Fresh
<1>2. HeaderLen \in Nat /\ HeaderLen > 0
    BY NLinesAssumption DEF HeaderLen
<1>3. Len(stream') \in Nat
    <2> DEFINE s == stream'
    <2>1. s \in Responses
        BY <1>1
    <2> HIDE DEF s
    <2>2. Len(s) \in Nat
        BY <2>1, ResponseIs
    <2> QED
        BY <2>2 DEF s
<1>4. ScanInv'
    BY <1>1, <1>2, NLinesAssumption DEF ScanInv, Progress, HeaderLen
<1>5. header_done' = (match' = 4)
    <2>1. match' # 4
        BY <1>1
    <2> QED
        BY <1>1, <2>1, Zenon
<1>6. parsed' \in Seq(Kinds) /\ pos' \in 0 .. Len(stream') /\ match' \in 0 .. 4
    BY <1>1, <1>3
<1>7. TypeOK'
    BY <1>1, <1>5, <1>6 DEF GetStatus, NoConnection, ClientInv, TypeOK, Blocks
<1> QED
    BY <1>4, <1>7 DEF ClientInv

LEMMA TypeStep == ClientInv /\ [Next]_vars => ClientInv'
<1> SUFFICES ASSUME ClientInv, [Next]_vars PROVE ClientInv'
    OBVIOUS
<1>1. CASE GetStatus
    BY <1>1, FreshStep
<1>2. CASE Receive
    BY <1>2, ReceiveStep
<1> USE DEF ClientInv, TypeOK, Blocks
<1>3. ASSUME UNCHANGED <<header_done, match, parsed, response>>
      PROVE  /\ ScanInv'
             /\ match' \in 0 .. 4 /\ header_done' = (match' = 4) /\ parsed' \in Seq(Kinds)
             /\ stream' \in Responses /\ pos' \in 0 .. Len(stream')
    BY <1>3 DEF ScanInv, response
<1>4. CASE Connected
    BY <1>3, <1>4 DEF Connected, Abort, Free
<1>5. CASE RemoteClose
    BY <1>3, <1>5 DEF RemoteClose, Free
<1>6. CASE Poll
    BY <1>3, <1>6 DEF Poll, Connecting, Abort, Free
<1>7. CASE Error
    BY <1>3, <1>7 DEF Error, Abort, Free
<1>8. CASE Closed
    BY <1>3, <1>8 DEF Closed
<1>9. CASE UNCHANGED vars
    BY <1>3, <1>9 DEF vars
<1> QED
    BY <1>1, <1>2, <1>4, <1>5, <1>6, <1>7, <1>8, <1>9 DEF Next

(* However a response is cut, the parser gets what follows its header.     *)
LEMMA InvParses == ClientInv => ParsedFromHeaderEnd
<1> SUFFICES ASSUME ClientInv PROVE ParsedFromHeaderEnd
    OBVIOUS
<1>1. stream \in Seq(Kinds) /\ Len(Header) = HeaderLen /\ HeaderLen \in Nat /\ pos \in Nat
    BY ResponseIs, HeaderIs DEF ClientInv, TypeOK
<1>2. CASE pos < HeaderLen
    <2>1. SubSeq(stream, HeaderLen, pos) = <<>>
        BY <1>1, <1>2
    <2> QED
        BY <1>1, <1>2, <2>1 DEF ClientInv, ScanInv, ParsedFromHeaderEnd
<1>3. CASE pos >= HeaderLen
    BY <1>1, <1>3 DEF ClientInv, ScanInv, ParsedFromHeaderEnd
<1> QED
    BY <1>1, <1>2, <1>3

LEMMA ClientAlways == Spec => []ClientInv
BY TypeInit, TypeStep, PTL DEF Spec

(* The state of a request is well typed, and its header is done exactly    *)
(* when all of header_match was found (jac_parse_response).                *)
THEOREM ClientTypes == Spec => []TypeOK
<1>1. ClientInv => TypeOK
    BY DEF ClientInv
<1> QED
    BY ClientAlways, <1>1, PTL

(* However long the header and however the response is cut, the JSON       *)
(* parser gets what follows the header, from its last line feed on, and    *)
(* nothing of the header itself.                                           *)
THEOREM ParsesFromHeaderEnd == Spec => []ParsedFromHeaderEnd
    BY ClientAlways, InvParses, PTL

-----------------------------------------------------------------------------
Nested == {"value", "inner", "items"}
Symbols == Nested \cup {"response", "members", "array", "end", "jobs", "job", "content"}

\* d structures are open in pre; f counts them from its end.
Nests(pre, d) ==
    /\ pre \in Seq(Nested)
    /\ \E f \in [1 .. Len(pre) + 1 -> Nat] :
        /\ f[Len(pre) + 1] = 0
        /\ \A n \in 1 .. Len(pre) : f[n] = f[n + 1] + (IF pre[n] = "inner" THEN 1 ELSE 0)
        /\ d = f[1]

LEMMA NestsNone == Nests(<<>>, 0) /\ \A d : Nests(<<>>, d) => d = 0
  <1> DEFINE f == [n \in 1 .. 1 |-> 0]
  <1>1. Len(<<>>) = 0 /\ 1 .. Len(<<>>) = {} /\ 1 .. Len(<<>>) + 1 = 1 .. 1
    OBVIOUS
  <1>2. f \in [1 .. 1 -> Nat] /\ f[1] = 0
    OBVIOUS
  <1> HIDE DEF f
  <1>3. Nests(<<>>, 0)
    BY <1>1, <1>2 DEF Nests
  <1>4. ASSUME NEW d, Nests(<<>>, d) PROVE d = 0
    BY <1>1, <1>4 DEF Nests
  <1> QED BY <1>3, <1>4

LEMMA NestsPush ==
    ASSUME NEW s \in Nested, NEW pre, NEW d, Nests(pre, d)
    PROVE  Nests(<<s>> \o pre, d + (IF s = "inner" THEN 1 ELSE 0))
  <1>1. PICK f \in [1 .. Len(pre) + 1 -> Nat] :
            /\ f[Len(pre) + 1] = 0
            /\ \A n \in 1 .. Len(pre) : f[n] = f[n + 1] + (IF pre[n] = "inner" THEN 1 ELSE 0)
            /\ d = f[1]
    BY DEF Nests
  <1> DEFINE q == <<s>> \o pre
             e == d + (IF s = "inner" THEN 1 ELSE 0)
             g == [n \in 1 .. Len(q) + 1 |-> IF n = 1 THEN e ELSE f[n - 1]]
  <1>2. /\ pre \in Seq(Nested) /\ q \in Seq(Nested) /\ Len(q) = Len(pre) + 1
        /\ q[1] = s /\ \A n \in 2 .. Len(q) : q[n] = pre[n - 1]
    BY DEF Nests
  <1>3. Len(pre) \in Nat /\ d \in Nat /\ e \in Nat
    BY <1>1, <1>2
  <1>4. g \in [1 .. Len(q) + 1 -> Nat]
    BY <1>1, <1>2, <1>3
  <1>5. g[Len(q) + 1] = 0 /\ g[1] = e
    BY <1>1, <1>2, <1>3
  <1>6. ASSUME NEW n \in 1 .. Len(q)
        PROVE  g[n] = g[n + 1] + (IF q[n] = "inner" THEN 1 ELSE 0)
    <2>1. CASE n = 1
      BY <1>1, <1>2, <1>3, <2>1
    <2>2. CASE n # 1
      <3>1. n - 1 \in 1 .. Len(pre) /\ n \in 2 .. Len(q) /\ n + 1 # 1
        BY <1>2, <1>3, <2>2
      <3>2. g[n] = f[n - 1] /\ g[n + 1] = f[n]
        BY <1>2, <1>3, <2>2
      <3> QED BY <1>1, <1>2, <3>1, <3>2
    <2> QED BY <2>1, <2>2
  <1> HIDE DEF g, e, q
  <1>7. Nests(q, e)
    BY <1>2, <1>4, <1>5, <1>6 DEF Nests
  <1> QED BY <1>7 DEF q, e

LEMMA NestsPop ==
    ASSUME NEW pre, NEW d, Nests(pre, d), pre # <<>>
    PROVE  /\ Head(pre) \in Nested /\ d \in Nat
           /\ d - (IF Head(pre) = "inner" THEN 1 ELSE 0) \in Nat
           /\ Nests(Tail(pre), d - (IF Head(pre) = "inner" THEN 1 ELSE 0))
  <1>1. PICK f \in [1 .. Len(pre) + 1 -> Nat] :
            /\ f[Len(pre) + 1] = 0
            /\ \A n \in 1 .. Len(pre) : f[n] = f[n + 1] + (IF pre[n] = "inner" THEN 1 ELSE 0)
            /\ d = f[1]
    BY DEF Nests
  <1> DEFINE q == Tail(pre)
             e == d - (IF Head(pre) = "inner" THEN 1 ELSE 0)
             g == [n \in 1 .. Len(q) + 1 |-> f[n + 1]]
  <1>2. /\ pre \in Seq(Nested) /\ q \in Seq(Nested) /\ Len(pre) = Len(q) + 1
        /\ Head(pre) = pre[1] /\ Head(pre) \in Nested
        /\ \A n \in 1 .. Len(q) : q[n] = pre[n + 1]
        /\ Len(q) \in Nat
    BY DEF Nests
  <1>3. e = f[2] /\ e \in Nat /\ d \in Nat
    BY <1>1, <1>2
  <1>4. g \in [1 .. Len(q) + 1 -> Nat]
    BY <1>1, <1>2
  <1>5. g[Len(q) + 1] = 0 /\ g[1] = e
    BY <1>1, <1>2, <1>3
  <1>6. ASSUME NEW n \in 1 .. Len(q)
        PROVE  g[n] = g[n + 1] + (IF q[n] = "inner" THEN 1 ELSE 0)
    <2>1. n + 1 \in 1 .. Len(pre) /\ n + 1 \in 1 .. Len(q) + 1 /\ n \in 1 .. Len(q) + 1
      BY <1>2
    <2>2. g[n] = f[n + 1] /\ g[n + 1] = f[(n + 1) + 1] /\ q[n] = pre[n + 1]
      BY <1>2, <2>1
    <2> QED BY <1>1, <2>1, <2>2
  <1> HIDE DEF g, e, q
  <1>7. Nests(q, e)
    BY <1>2, <1>4, <1>5, <1>6 DEF Nests
  <1> QED BY <1>2, <1>3, <1>7 DEF q, e

LEMMA NestedSymbols == Seq(Nested) \subseteq Seq(Symbols)
  <1> SUFFICES ASSUME NEW q \in Seq(Nested) PROVE q \in Seq(Symbols)
    OBVIOUS
  <1>1. Len(q) \in Nat /\ q \in [1 .. Len(q) -> Nested]
    OBVIOUS
  <1>2. q \in [1 .. Len(q) -> Symbols]
    BY <1>1 DEF Symbols
  <1> QED BY <1>1, <1>2

(* What Head(todo) and todo' are when todo is a pile of pre on base.       *)
LEMMA Pile ==
    ASSUME NEW pre \in Seq(Nested), pre # <<>>, NEW base \in Seq(Symbols)
    PROVE  /\ pre \o base # <<>>
           /\ Head(pre \o base) = Head(pre)
           /\ Tail(pre \o base) = Tail(pre) \o base
           /\ Tail(pre) \in Seq(Nested)
  <1>1. pre \in Seq(Symbols)
    BY NestedSymbols
  <1> QED BY <1>1

LEMMA Piled ==
    ASSUME NEW q \in Seq(Nested), NEW base \in Seq(Symbols), NEW s \in Nested, NEW r \in Nested
    PROVE  /\ <<>> \o (q \o base) = q \o base
           /\ <<s>> \o (q \o base) = (<<s>> \o q) \o base
           /\ <<s, r>> \o (q \o base) = (<<s>> \o (<<r>> \o q)) \o base
  <1>1. q \in Seq(Symbols) /\ s \in Symbols /\ r \in Symbols
    BY NestedSymbols DEF Symbols
  <1>2. q \o base \in Seq(Symbols)
    BY <1>1
  <1>3. <<>> \o (q \o base) = q \o base
    BY <1>2
  <1>4. <<s>> \o (q \o base) = (<<s>> \o q) \o base
    BY <1>1
  <1>5. <<s, r>> \o (q \o base) = (<<s>> \o (<<r>> \o q)) \o base
    BY <1>1
  <1> QED BY <1>3, <1>4, <1>5

LEMMA SameSeq ==
    ASSUME NEW S, NEW x \in Seq(S), NEW y \in Seq(S), Len(x) = Len(y),
           \A n \in 1 .. Len(x) : x[n] = y[n]
    PROVE  x = y
OBVIOUS

(* The first symbol replaced, where todo is one of the bottoms.            *)
LEMMA Bottoms ==
    /\ <<"jobs">> \o Tail(<<"array", "end">>) = <<"jobs", "end">>
    /\ <<"job", "jobs">> \o Tail(<<"jobs", "end">>) = <<"job", "jobs", "end">>
    /\ <<"content", "job">> \o Tail(<<"job", "jobs", "end">>) = <<"content", "job", "jobs", "end">>
  <1>1. <<"jobs">> \o <<"end">> = <<"jobs", "end">>
    <2>1. <<"jobs">> \o <<"end">> \in Seq(Symbols) /\ <<"jobs", "end">> \in Seq(Symbols)
      BY DEF Symbols
    <2>2. Len(<<"jobs">> \o <<"end">>) = 2 /\ Len(<<"jobs", "end">>) = 2
      OBVIOUS
    <2>3. \A n \in 1 .. 2 : (<<"jobs">> \o <<"end">>)[n] = (<<"jobs", "end">>)[n]
      OBVIOUS
    <2> QED BY <2>1, <2>2, <2>3, SameSeq
  <1>2. <<"job", "jobs">> \o <<"end">> = <<"job", "jobs", "end">>
    <2>1. <<"job", "jobs">> \o <<"end">> \in Seq(Symbols) /\ <<"job", "jobs", "end">> \in Seq(Symbols)
      BY DEF Symbols
    <2>2. Len(<<"job", "jobs">> \o <<"end">>) = 3 /\ Len(<<"job", "jobs", "end">>) = 3
      OBVIOUS
    <2>3. \A n \in 1 .. 3 : (<<"job", "jobs">> \o <<"end">>)[n] = (<<"job", "jobs", "end">>)[n]
      OBVIOUS
    <2> QED BY <2>1, <2>2, <2>3, SameSeq
  <1>3. <<"content", "job">> \o <<"jobs", "end">> = <<"content", "job", "jobs", "end">>
    <2>1. /\ <<"content", "job">> \o <<"jobs", "end">> \in Seq(Symbols)
          /\ <<"content", "job", "jobs", "end">> \in Seq(Symbols)
      BY DEF Symbols
    <2>2. /\ Len(<<"content", "job">> \o <<"jobs", "end">>) = 4
          /\ Len(<<"content", "job", "jobs", "end">>) = 4
      OBVIOUS
    <2>3. \A n \in 1 .. 4 : (<<"content", "job">> \o <<"jobs", "end">>)[n]
                              = (<<"content", "job", "jobs", "end">>)[n]
      OBVIOUS
    <2> QED BY <2>1, <2>2, <2>3, SameSeq
  <1>4. /\ Tail(<<"array", "end">>) = <<"end">> /\ Tail(<<"jobs", "end">>) = <<"end">>
        /\ Tail(<<"job", "jobs", "end">>) = <<"jobs", "end">>
    OBVIOUS
  <1> QED BY <1>1, <1>2, <1>3, <1>4

-----------------------------------------------------------------------------
(* The handler in a value, l and j levels above the bottom: it keeps what  *)
(* it knows of the job and comes back to where it was.                     *)
Within(base, l, j, pre, d) ==
    /\ Nests(pre, d)
    /\ todo = pre \o base
    /\ level = d + l
    /\ jobsLevel = IF j = 0 THEN 0 ELSE d + j
    /\ (j = 3 /\ pre # <<>>) => (~setColor /\ ~setName)

LEMMA ValueStep ==
    ASSUME NEW base \in Seq(Symbols), NEW l \in {0, 1}, NEW j \in {0, 3},
           NEW pre, NEW d, Within(base, l, j, pre, d), pre # <<>>, Value
    PROVE  /\ \E q, e : Within(base, l, j, q, e)'
           /\ UNCHANGED <<currentName, currentColor, reported, jobs, given>>
  <1> DEFINE h == Head(pre)  t == Tail(pre)
             n == d - (IF h = "inner" THEN 1 ELSE 0)
  <1>1. /\ Nests(pre, d) /\ todo = pre \o base /\ level = d + l
        /\ jobsLevel = IF j = 0 THEN 0 ELSE d + j
        /\ j = 3 => ~setColor /\ ~setName
    BY DEF Within
  <1>2. h \in Nested /\ d \in Nat /\ n \in Nat /\ Nests(t, n)
    BY <1>1, NestsPop
  <1>3. pre \in Seq(Nested) /\ t \in Seq(Nested)
    BY <1>1, <1>2 DEF Nests
  <1>4. todo # <<>> /\ Head(todo) = h /\ Tail(todo) = t \o base
    BY <1>1, <1>3, Pile
  <1>5. <<>> \o (t \o base) = t \o base
    BY <1>3, Piled DEF Nested
  <1>6. \A s \in Nested : /\ <<s>> \o (t \o base) = (<<s>> \o t) \o base
                         /\ Nests(<<s>> \o t, n + (IF s = "inner" THEN 1 ELSE 0))
    BY <1>2, <1>3, Piled, NestsPush
  <1>7. \A s, r \in Nested :
            /\ <<s, r>> \o (t \o base) = (<<s>> \o (<<r>> \o t)) \o base
            /\ Nests(<<s>> \o (<<r>> \o t),
                     (n + (IF r = "inner" THEN 1 ELSE 0)) + (IF s = "inner" THEN 1 ELSE 0))
    <2> SUFFICES ASSUME NEW s \in Nested, NEW r \in Nested
                 PROVE  /\ <<s, r>> \o (t \o base) = (<<s>> \o (<<r>> \o t)) \o base
                        /\ Nests(<<s>> \o (<<r>> \o t),
                             (n + (IF r = "inner" THEN 1 ELSE 0)) + (IF s = "inner" THEN 1 ELSE 0))
      OBVIOUS
    <2>1. Nests(<<r>> \o t, n + (IF r = "inner" THEN 1 ELSE 0))
      BY <1>6
    <2> QED BY <1>3, <2>1, Piled, NestsPush
  <1>8. "value" \in Nested /\ "inner" \in Nested /\ "items" \in Nested
    BY DEF Nested
  <1>9. UNCHANGED <<jobs, given>>
    BY DEF Value
  <1> HIDE DEF h, t, n
  <1>10. CASE Is("value") /\ String(Junk) /\ Then(<<>>)
    <2>1. h = "value" /\ todo' = t \o base
      BY <1>2, <1>4, <1>5, <1>6, <1>7, <1>8, <1>10 DEF Is, Then
    <2>2. Nests(t, n)
      BY <1>2, <1>6, <1>7, <1>8, <2>1 DEF n
    <2>3. /\ UNCHANGED <<currentName, currentColor, reported>>
          /\ level' = (n) + l
          /\ jobsLevel' = IF j = 0 THEN 0 ELSE (n) + j
          /\ j = 3 => ~setColor' /\ ~setName'
      BY <1>1, <1>2, <1>10, <2>1 DEF String, n
    <2>4. Within(base, l, j, t, n)'
      BY <2>1, <2>2, <2>3 DEF Within
    <2> QED BY <1>9, <2>3, <2>4
  <1>11. CASE Is("value") /\ StructStart /\ Then(<<"inner">>)
    <2>1. h = "value" /\ todo' = (<<"inner">> \o t) \o base
      BY <1>2, <1>4, <1>5, <1>6, <1>7, <1>8, <1>11 DEF Is, Then
    <2>2. Nests((<<"inner">> \o t), n + 1)
      BY <1>2, <1>6, <1>7, <1>8, <2>1 DEF n
    <2>3. /\ UNCHANGED <<currentName, currentColor, reported>>
          /\ level' = (n + 1) + l
          /\ jobsLevel' = IF j = 0 THEN 0 ELSE (n + 1) + j
          /\ j = 3 => ~setColor' /\ ~setName'
      BY <1>1, <1>2, <1>11, <2>1 DEF StructStart, n
    <2>4. Within(base, l, j, (<<"inner">> \o t), n + 1)'
      BY <2>1, <2>2, <2>3 DEF Within
    <2> QED BY <1>9, <2>3, <2>4
  <1>12. CASE Is("value") /\ ArrayStart /\ Then(<<"items">>)
    <2>1. h = "value" /\ todo' = (<<"items">> \o t) \o base
      BY <1>2, <1>4, <1>5, <1>6, <1>7, <1>8, <1>12 DEF Is, Then
    <2>2. Nests((<<"items">> \o t), n + 0)
      BY <1>2, <1>6, <1>7, <1>8, <2>1 DEF n
    <2>3. /\ UNCHANGED <<currentName, currentColor, reported>>
          /\ level' = (n + 0) + l
          /\ jobsLevel' = IF j = 0 THEN 0 ELSE (n + 0) + j
          /\ j = 3 => ~setColor' /\ ~setName'
      BY <1>1, <1>2, <1>12, <2>1 DEF ArrayStart, n
    <2>4. Within(base, l, j, (<<"items">> \o t), n + 0)'
      BY <2>1, <2>2, <2>3 DEF Within
    <2> QED BY <1>9, <2>3, <2>4
  <1>13. CASE Is("inner") /\ StructEnd /\ Then(<<>>)
    <2>1. h = "inner" /\ todo' = t \o base
      BY <1>2, <1>4, <1>5, <1>6, <1>7, <1>8, <1>13 DEF Is, Then
    <2>2. Nests(t, n)
      BY <1>2, <1>6, <1>7, <1>8, <2>1 DEF n
    <2>3. /\ UNCHANGED <<currentName, currentColor, reported>>
          /\ level' = (n) + l
          /\ jobsLevel' = IF j = 0 THEN 0 ELSE (n) + j
          /\ j = 3 => ~setColor' /\ ~setName'
      BY <1>1, <1>2, <1>13, <2>1 DEF StructEnd, n
    <2>4. Within(base, l, j, t, n)'
      BY <2>1, <2>2, <2>3 DEF Within
    <2> QED BY <1>9, <2>3, <2>4
  <1>14. CASE Is("inner") /\ \E key \in Keys : Key(key) /\ Then(<<"value", "inner">>)
    <2>1. h = "inner" /\ todo' = (<<"value">> \o (<<"inner">> \o t)) \o base
      BY <1>2, <1>4, <1>5, <1>6, <1>7, <1>8, <1>14 DEF Is, Then
    <2>2. Nests((<<"value">> \o (<<"inner">> \o t)), (n + 1) + 0)
      BY <1>2, <1>6, <1>7, <1>8, <2>1 DEF n
    <2>3. /\ UNCHANGED <<currentName, currentColor, reported>>
          /\ level' = ((n + 1) + 0) + l
          /\ jobsLevel' = IF j = 0 THEN 0 ELSE ((n + 1) + 0) + j
          /\ j = 3 => ~setColor' /\ ~setName'
      <3>1. PICK key \in Keys : Key(key)
        BY <1>14
      <3>2. d = n + 1 /\ level = n + 1 + l /\ level # 0
        BY <1>1, <1>2, <2>1 DEF n
      <3>3. level' = level /\ jobsLevel' = jobsLevel /\ UNCHANGED <<currentName, currentColor, reported>>
        BY <3>1, <3>2 DEF Key
      <3>4. j = 3 => jobsLevel' # 3
        BY <1>1, <1>2, <3>2, <3>3
      <3>5. j = 3 => ~setColor' /\ ~setName'
        BY <3>1, <3>4 DEF Key
      <3> QED BY <1>1, <1>2, <3>2, <3>3, <3>5
    <2>4. Within(base, l, j, (<<"value">> \o (<<"inner">> \o t)), (n + 1) + 0)'
      BY <2>1, <2>2, <2>3 DEF Within
    <2> QED BY <1>9, <2>3, <2>4
  <1>15. CASE Is("items") /\ String(Junk) /\ Then(<<"items">>)
    <2>1. h = "items" /\ todo' = (<<"items">> \o t) \o base
      BY <1>2, <1>4, <1>5, <1>6, <1>7, <1>8, <1>15 DEF Is, Then
    <2>2. Nests((<<"items">> \o t), n + 0)
      BY <1>2, <1>6, <1>7, <1>8, <2>1 DEF n
    <2>3. /\ UNCHANGED <<currentName, currentColor, reported>>
          /\ level' = (n + 0) + l
          /\ jobsLevel' = IF j = 0 THEN 0 ELSE (n + 0) + j
          /\ j = 3 => ~setColor' /\ ~setName'
      BY <1>1, <1>2, <1>15, <2>1 DEF String, n
    <2>4. Within(base, l, j, (<<"items">> \o t), n + 0)'
      BY <2>1, <2>2, <2>3 DEF Within
    <2> QED BY <1>9, <2>3, <2>4
  <1>16. CASE Is("items") /\ StructStart /\ Then(<<"inner", "items">>)
    <2>1. h = "items" /\ todo' = (<<"inner">> \o (<<"items">> \o t)) \o base
      BY <1>2, <1>4, <1>5, <1>6, <1>7, <1>8, <1>16 DEF Is, Then
    <2>2. Nests((<<"inner">> \o (<<"items">> \o t)), (n + 0) + 1)
      BY <1>2, <1>6, <1>7, <1>8, <2>1 DEF n
    <2>3. /\ UNCHANGED <<currentName, currentColor, reported>>
          /\ level' = ((n + 0) + 1) + l
          /\ jobsLevel' = IF j = 0 THEN 0 ELSE ((n + 0) + 1) + j
          /\ j = 3 => ~setColor' /\ ~setName'
      BY <1>1, <1>2, <1>16, <2>1 DEF StructStart, n
    <2>4. Within(base, l, j, (<<"inner">> \o (<<"items">> \o t)), (n + 0) + 1)'
      BY <2>1, <2>2, <2>3 DEF Within
    <2> QED BY <1>9, <2>3, <2>4
  <1>17. CASE Is("items") /\ ArrayStart /\ Then(<<"items", "items">>)
    <2>1. h = "items" /\ todo' = (<<"items">> \o (<<"items">> \o t)) \o base
      BY <1>2, <1>4, <1>5, <1>6, <1>7, <1>8, <1>17 DEF Is, Then
    <2>2. Nests((<<"items">> \o (<<"items">> \o t)), (n + 0) + 0)
      BY <1>2, <1>6, <1>7, <1>8, <2>1 DEF n
    <2>3. /\ UNCHANGED <<currentName, currentColor, reported>>
          /\ level' = ((n + 0) + 0) + l
          /\ jobsLevel' = IF j = 0 THEN 0 ELSE ((n + 0) + 0) + j
          /\ j = 3 => ~setColor' /\ ~setName'
      BY <1>1, <1>2, <1>17, <2>1 DEF ArrayStart, n
    <2>4. Within(base, l, j, (<<"items">> \o (<<"items">> \o t)), (n + 0) + 0)'
      BY <2>1, <2>2, <2>3 DEF Within
    <2> QED BY <1>9, <2>3, <2>4
  <1>18. CASE Is("items") /\ ArrayEnd /\ Then(<<>>)
    <2>1. h = "items" /\ todo' = t \o base
      BY <1>2, <1>4, <1>5, <1>6, <1>7, <1>8, <1>18 DEF Is, Then
    <2>2. Nests(t, n)
      BY <1>2, <1>6, <1>7, <1>8, <2>1 DEF n
    <2>3. /\ UNCHANGED <<currentName, currentColor, reported>>
          /\ level' = (n) + l
          /\ jobsLevel' = IF j = 0 THEN 0 ELSE (n) + j
          /\ j = 3 => ~setColor' /\ ~setName'
      BY <1>1, <1>2, <1>18, <2>1 DEF ArrayEnd, n
    <2>4. Within(base, l, j, t, n)'
      BY <2>1, <2>2, <2>3 DEF Within
    <2> QED BY <1>9, <2>3, <2>4
  <1> QED BY <1>10, <1>11, <1>12, <1>13, <1>14, <1>15, <1>16, <1>17, <1>18 DEF Value

-----------------------------------------------------------------------------
(* Where the parser is in the response, what the counters are there, and   *)
(* what has been reported.                                                 *)
Reported(n) == reported = [k \in 1 .. n |-> <<k, k>>]

AtResponse == todo = <<"response">> /\ level = -1 /\ jobsLevel = 0 /\ jobs = 0 /\ Reported(0)
AtMembers ==
    /\ \E pre, d : Within(<<"members">>, 0, 0, pre, d)
    /\ jobs = 0 /\ Reported(0)
AtArray == todo = <<"array", "end">> /\ level = 0 /\ jobsLevel = 1 /\ jobs = 0 /\ Reported(0)
AtJobs ==
    /\ todo = <<"jobs", "end">> /\ level = 0 /\ jobsLevel = 2
    /\ jobs \in Nat /\ Reported(jobs)
AtJob ==
    /\ \E pre, d : Within(<<"job", "jobs", "end">>, 1, 3, pre, d)
    /\ jobs \in Nat \ {0} /\ Reported(jobs - 1)
    /\ "name" \in given => currentName = jobs
    /\ "color" \in given => currentColor = jobs
AtString ==
    /\ todo = <<"content", "job", "jobs", "end">> /\ level = 1 /\ jobsLevel = 3
    /\ jobs \in Nat \ {0} /\ Reported(jobs - 1)
    /\ \/ setColor /\ ("name" \in given => currentName = jobs)
       \/ ~setColor /\ setName /\ ("color" \in given => currentColor = jobs)
AtEnd ==
    /\ todo = <<"end">> /\ level = 0 /\ jobsLevel = 1
    /\ jobs \in Nat /\ Reported(jobs)
AtNothing == todo = <<>> /\ jobs \in Nat /\ Reported(jobs)

StatusInv ==
    \/ AtResponse \/ AtMembers \/ AtArray \/ AtJobs
    \/ AtJob \/ AtString \/ AtEnd \/ AtNothing

(* What comes next depends on the first symbol alone.                      *)
LEMMA EventCases ==
    ASSUME Event
    PROVE  /\ todo # <<>>
           /\ Head(todo) = "response" =>
                  StructStart /\ Then(<<"members">>) /\ UNCHANGED <<jobs, given>>
           /\ Head(todo) = "members" =>
                  /\ \/ Key("other") /\ Then(<<"value", "members">>)
                     \/ Key("jobs") /\ Then(<<"array", "end">>)
                  /\ UNCHANGED <<jobs, given>>
           /\ Head(todo) = "array" =>
                  ArrayStart /\ Then(<<"jobs">>) /\ UNCHANGED <<jobs, given>>
           /\ Head(todo) = "jobs" =>
                  (ArrayEnd /\ Then(<<>>) /\ UNCHANGED <<jobs, given>>) \/ JobStart
           /\ Head(todo) = "end" =>
                  StructEnd /\ Then(<<>>) /\ UNCHANGED <<jobs, given>>
           /\ Head(todo) = "job" => JobMember \/ JobEnd
           /\ Head(todo) = "content" => JobString
           /\ Head(todo) \in Nested => Value
  <1>1. CASE Response
    BY <1>1 DEF Response, Is, Nested
  <1>2. CASE JobStart
    BY <1>2 DEF JobStart, Is, Nested
  <1>3. CASE JobMember
    BY <1>3 DEF JobMember, Is, Nested
  <1>4. CASE JobString
    BY <1>4 DEF JobString, Is, Nested
  <1>5. CASE JobEnd
    BY <1>5 DEF JobEnd, Is, Nested
  <1>6. CASE Value
    BY <1>6 DEF Value, Is, Nested
  <1> QED BY <1>1, <1>2, <1>3, <1>4, <1>5, <1>6 DEF Event

LEMMA StartStep ==
    ASSUME Event, AtResponse \/ AtArray \/ AtEnd PROVE StatusInv'
  <1>1. CASE AtResponse
    <2>1. StructStart /\ Then(<<"members">>) /\ UNCHANGED <<jobs, given>>
      BY <1>1, EventCases DEF AtResponse
    <2>2. todo' = <<>> \o <<"members">> /\ level' = 0 + 0 /\ jobsLevel' = 0
      BY <1>1, <2>1 DEF AtResponse, StructStart, Then
    <2>3. Within(<<"members">>, 0, 0, <<>>, 0)'
      BY <2>2, NestsNone DEF Within
    <2>4. AtMembers'
      BY <1>1, <2>1, <2>3 DEF AtMembers, AtResponse, Reported, StructStart
    <2> QED BY <2>4 DEF StatusInv
  <1>2. CASE AtArray
    <2>1. ArrayStart /\ Then(<<"jobs">>) /\ UNCHANGED <<jobs, given>>
      BY <1>2, EventCases DEF AtArray
    <2>2. todo' = <<"jobs", "end">>
      BY <1>2, <2>1, Bottoms DEF AtArray, Then
    <2>3. AtJobs'
      BY <1>2, <2>1, <2>2 DEF AtArray, AtJobs, ArrayStart, Reported
    <2> QED BY <2>3 DEF StatusInv
  <1>3. CASE AtEnd
    <2>1. StructEnd /\ Then(<<>>) /\ UNCHANGED <<jobs, given>>
      BY <1>3, EventCases DEF AtEnd
    <2>2. AtNothing'
      BY <1>3, <2>1 DEF AtEnd, AtNothing, StructEnd, Then, Reported
    <2> QED BY <2>2 DEF StatusInv
  <1> QED BY <1>1, <1>2, <1>3

LEMMA MembersStep == ASSUME Event, AtMembers PROVE StatusInv'
  <1>1. PICK pre, d : Within(<<"members">>, 0, 0, pre, d)
    BY DEF AtMembers
  <1>2. CASE pre = <<>>
    <2>1. d = 0 /\ todo = <<"members">> /\ level = 0 /\ jobsLevel = 0
      BY <1>1, <1>2, NestsNone DEF Within
    <2>2. /\ \/ Key("other") /\ Then(<<"value", "members">>)
             \/ Key("jobs") /\ Then(<<"array", "end">>)
          /\ UNCHANGED <<jobs, given>>
      BY <2>1, EventCases
    <2>3. CASE Key("other") /\ Then(<<"value", "members">>)
      <3>1. todo' = (<<"value">> \o <<>>) \o <<"members">> /\ level' = (0 + 0) + 0 /\ jobsLevel' = 0
        BY <2>1, <2>3 DEF Key, Then
      <3>2. Nests(<<"value">> \o <<>>, 0 + 0)
        BY NestsNone, NestsPush DEF Nested
      <3>3. Within(<<"members">>, 0, 0, <<"value">> \o <<>>, 0 + 0)'
        BY <3>1, <3>2 DEF Within
      <3>4. AtMembers'
        BY <2>2, <2>3, <3>3 DEF AtMembers, Reported, Key
      <3> QED BY <3>4 DEF StatusInv
    <2>4. CASE Key("jobs") /\ Then(<<"array", "end">>)
      <3>1. AtArray'
        BY <2>1, <2>2, <2>4 DEF AtMembers, AtArray, Reported, Key, Then
      <3> QED BY <3>1 DEF StatusInv
    <2> QED BY <2>2, <2>3, <2>4
  <1>3. CASE pre # <<>>
    <2>1. <<"members">> \in Seq(Symbols)
      BY DEF Symbols
    <2>2. Head(todo) \in Nested
      <3>1. pre \in Seq(Nested)
        BY <1>1 DEF Within, Nests
      <3> QED BY <1>1, <1>3, <2>1, <3>1, Pile, NestsPop DEF Within
    <2>3. Value
      BY <2>2, EventCases
    <2>4. /\ \E q, e : Within(<<"members">>, 0, 0, q, e)'
          /\ UNCHANGED <<currentName, currentColor, reported, jobs, given>>
      BY <1>1, <1>3, <2>1, <2>3, ValueStep
    <2>5. AtMembers'
      BY <2>4 DEF AtMembers, Reported
    <2> QED BY <2>5 DEF StatusInv
  <1> QED BY <1>2, <1>3

LEMMA JobsStep == ASSUME Event, AtJobs PROVE StatusInv'
  <1>1. (ArrayEnd /\ Then(<<>>) /\ UNCHANGED <<jobs, given>>) \/ JobStart
    BY EventCases DEF AtJobs
  <1>2. CASE ArrayEnd /\ Then(<<>>) /\ UNCHANGED <<jobs, given>>
    <2>1. todo' = <<"end">>
      BY <1>2 DEF AtJobs, Then
    <2>2. AtEnd'
      BY <1>2, <2>1 DEF AtJobs, AtEnd, ArrayEnd, Reported
    <2> QED BY <2>2 DEF StatusInv
  <1>3. CASE JobStart
    <2>1. todo' = <<>> \o <<"job", "jobs", "end">>
      <3>1. todo' = <<"job", "jobs", "end">>
        BY <1>3, Bottoms DEF JobStart, AtJobs, Then
      <3> QED BY <3>1
    <2>2. level' = 0 + 1 /\ jobsLevel' = 0 + 3
      BY <1>3 DEF JobStart, StructStart, AtJobs
    <2>3. Within(<<"job", "jobs", "end">>, 1, 3, <<>>, 0)'
      BY <2>1, <2>2, NestsNone DEF Within
    <2>4. /\ jobs \in Nat /\ jobs' = jobs + 1 /\ given' = {}
          /\ Reported(jobs) /\ reported' = reported
      BY <1>3 DEF JobStart, StructStart, AtJobs
    <2>5. jobs' \in Nat \ {0} /\ jobs' - 1 = jobs
      BY <2>4
    <2>6. Reported(jobs - 1)'
      BY <2>4, <2>5 DEF Reported
    <2>7. AtJob'
      BY <2>3, <2>4, <2>5, <2>6 DEF AtJob
    <2> QED BY <2>7 DEF StatusInv
  <1> QED BY <1>1, <1>2, <1>3

(* A job's own member or its end, where none of its other values is open.  *)
LEMMA JobBottom ==
    ASSUME Event, AtJob, todo = <<"job", "jobs", "end">>, level = 1, jobsLevel = 3
    PROVE  StatusInv'
  <1>1. JobMember \/ JobEnd
    BY EventCases
  <1>2. CASE JobMember /\ Key("other") /\ UNCHANGED given /\ Then(<<"value", "job">>)
    <2>1. todo' = (<<"value">> \o <<>>) \o <<"job", "jobs", "end">>
      BY <1>2 DEF Then
    <2>2. level' = (0 + 0) + 1 /\ jobsLevel' = (0 + 0) + 3 /\ ~setColor' /\ ~setName'
      <3>1. level' = 1 /\ jobsLevel' = 3
        BY <1>2 DEF Key
      <3>2. ~setColor' /\ ~setName'
        BY <1>2 DEF Key
      <3> QED BY <3>1, <3>2
    <2>3. Nests(<<"value">> \o <<>>, 0 + 0)
      BY NestsNone, NestsPush DEF Nested
    <2>4. Within(<<"job", "jobs", "end">>, 1, 3, <<"value">> \o <<>>, 0 + 0)'
      BY <2>1, <2>2, <2>3 DEF Within
    <2>5. UNCHANGED <<currentName, currentColor, reported, jobs, given>>
      BY <1>2 DEF Key, JobMember
    <2>6. AtJob'
      BY <2>4, <2>5 DEF AtJob, Reported
    <2> QED BY <2>6 DEF StatusInv
  <1>3. ASSUME NEW key \in {"name", "color"} \ given, JobMember, Key(key),
               given' = given \cup {key}, Then(<<"content", "job">>)
        PROVE  StatusInv'
    <2>1. todo' = <<"content", "job", "jobs", "end">>
      BY <1>3, Bottoms DEF Then
    <2>2. level' = 1 /\ jobsLevel' = 3 /\ setColor' = (key = "color") /\ setName' = (key = "name")
      BY <1>3 DEF Key
    <2>3. UNCHANGED <<currentName, currentColor, reported, jobs>>
      BY <1>3 DEF Key, JobMember
    <2>4. jobs \in Nat \ {0} /\ Reported(jobs - 1) /\ Reported(jobs - 1)'
      BY <2>3 DEF AtJob, Reported
    <2>5. AtString'
      <3>1. CASE key = "color"
        BY <1>3, <2>1, <2>2, <2>3, <2>4, <3>1 DEF AtJob, AtString
      <3>2. CASE key = "name"
        BY <1>3, <2>1, <2>2, <2>3, <2>4, <3>2 DEF AtJob, AtString
      <3> QED BY <3>1, <3>2
    <2> QED BY <2>5 DEF StatusInv
  <1>4. CASE JobEnd
    <2>1. todo' = <<"jobs", "end">> /\ UNCHANGED <<jobs, given>>
      BY <1>4 DEF JobEnd, Then
    <2>2. level' = 0 /\ jobsLevel' = 2
      BY <1>4 DEF JobEnd, StructEnd
    <2>3. reported' = Append(reported, <<jobs, jobs>>)
      BY <1>4 DEF JobEnd, StructEnd, AtJob
    <2>4. jobs \in Nat \ {0} /\ reported = [k \in 1 .. jobs - 1 |-> <<k, k>>]
      BY DEF AtJob, Reported
    <2>5. reported' = [k \in 1 .. jobs |-> <<k, k>>]
      <3> DEFINE before == [k \in 1 .. jobs - 1 |-> <<k, k>>]
                 now == [k \in 1 .. jobs |-> <<k, k>>]
      <3>1. /\ before \in Seq(Nat \X Nat) /\ Len(before) = jobs - 1
            /\ \A k \in 1 .. jobs - 1 : before[k] = <<k, k>>
        BY <2>4
      <3>2. /\ now \in Seq(Nat \X Nat) /\ Len(now) = jobs
            /\ \A k \in 1 .. jobs : now[k] = <<k, k>>
        BY <2>4
      <3>3. <<jobs, jobs>> \in Nat \X Nat
        BY <2>4
      <3> HIDE DEF before, now
      <3>4. /\ Append(before, <<jobs, jobs>>) \in Seq(Nat \X Nat)
            /\ Len(Append(before, <<jobs, jobs>>)) = jobs
            /\ \A k \in 1 .. jobs - 1 : Append(before, <<jobs, jobs>>)[k] = before[k]
            /\ Append(before, <<jobs, jobs>>)[jobs] = <<jobs, jobs>>
        BY <2>4, <3>1, <3>3
      <3>5. \A k \in 1 .. jobs : k \in 1 .. jobs - 1 \/ k = jobs
        BY <2>4
      <3>6. \A k \in 1 .. jobs : Append(before, <<jobs, jobs>>)[k] = now[k]
        BY <3>1, <3>2, <3>4, <3>5, Zenon
      <3>7. Append(before, <<jobs, jobs>>) = now
        BY <3>2, <3>4, <3>6, SameSeq
      <3>8. reported = before
        BY <2>4 DEF before
      <3> QED BY <2>3, <3>7, <3>8 DEF now
    <2>6. AtJobs'
      BY <2>1, <2>2, <2>4, <2>5 DEF AtJobs, Reported
    <2> QED BY <2>6 DEF StatusInv
  <1> QED BY <1>1, <1>2, <1>3, <1>4 DEF JobMember

LEMMA JobStep == ASSUME Event, AtJob PROVE StatusInv'
  <1> DEFINE base == <<"job", "jobs", "end">>
  <1>1. PICK pre, d : Within(base, 1, 3, pre, d)
    BY DEF AtJob
  <1>2. CASE pre = <<>>
    <2>1. d = 0 /\ todo = <<"job", "jobs", "end">> /\ level = 1 /\ jobsLevel = 3
      BY <1>1, <1>2, NestsNone DEF Within
    <2> QED BY <2>1, JobBottom
  <1>3. CASE pre # <<>>
    <2>1. base \in Seq(Symbols)
      BY DEF Symbols
    <2> HIDE DEF base
    <2>2. Head(todo) \in Nested
      <3>1. pre \in Seq(Nested)
        BY <1>1 DEF Within, Nests
      <3> QED BY <1>1, <1>3, <2>1, <3>1, Pile, NestsPop DEF Within
    <2>3. Value
      BY <2>2, EventCases
    <2>4. /\ \E q, e : Within(base, 1, 3, q, e)'
          /\ UNCHANGED <<currentName, currentColor, reported, jobs, given>>
      BY <1>1, <1>3, <2>1, <2>3, ValueStep
    <2>5. AtJob'
      BY <2>4 DEF AtJob, Reported, base
    <2> QED BY <2>5 DEF StatusInv
  <1> QED BY <1>2, <1>3

LEMMA StringStep == ASSUME Event, AtString PROVE StatusInv'
  <1>1. JobString
    BY EventCases DEF AtString
  <1>2. todo' = <<>> \o <<"job", "jobs", "end">> /\ UNCHANGED <<jobs, given>>
    BY <1>1 DEF JobString, AtString, Then
  <1>3. level' = 0 + 1 /\ jobsLevel' = 0 + 3 /\ UNCHANGED reported
    BY <1>1 DEF JobString, String, AtString
  <1>4. Within(<<"job", "jobs", "end">>, 1, 3, <<>>, 0)'
    BY <1>2, <1>3, NestsNone DEF Within
  <1>5. /\ "name" \in given => currentName' = jobs
        /\ "color" \in given => currentColor' = jobs
    BY <1>1 DEF JobString, String, AtString
  <1>6. AtJob'
    BY <1>2, <1>3, <1>4, <1>5 DEF AtString, AtJob, Reported
  <1> QED BY <1>6 DEF StatusInv

LEMMA EventStep == ASSUME Event, StatusInv PROVE StatusInv'
  <1>1. ~AtNothing
    BY EventCases DEF AtNothing
  <1> QED BY <1>1, StartStep, MembersStep, JobsStep, JobStep, StringStep DEF StatusInv

-----------------------------------------------------------------------------
(* "job" is in todo from a job's start to its end.                         *)
LEMMA InvReports == StatusInv => JobsReported
  <1> SUFFICES ASSUME StatusInv PROVE JobsReported
    OBVIOUS
  <1>1. CASE AtJob
    <2>1. PICK pre, d : Within(<<"job", "jobs", "end">>, 1, 3, pre, d)
      BY <1>1 DEF AtJob
    <2>2. todo = pre \o <<"job", "jobs", "end">> /\ pre \in Seq(Symbols)
      BY <2>1, NestedSymbols DEF Within, Nests
    <2>3. Len(pre) + 1 \in 1 .. Len(todo) /\ todo[Len(pre) + 1] = "job"
      BY <2>2
    <2> QED BY <1>1, <2>3 DEF JobsReported, AtJob, Reported
  <1>2. CASE AtString
    <2>1. 2 \in 1 .. Len(todo) /\ todo[2] = "job"
      BY <1>2 DEF AtString
    <2> QED BY <1>2, <2>1 DEF JobsReported, AtString, Reported
  <1>3. CASE AtMembers
    <2>1. PICK pre, d : Within(<<"members">>, 0, 0, pre, d)
      BY <1>3 DEF AtMembers
    <2>2. todo = pre \o <<"members">> /\ pre \in Seq(Nested) /\ pre \in Seq(Symbols)
      BY <2>1, NestedSymbols DEF Within, Nests
    <2>3. ASSUME NEW n \in 1 .. Len(todo) PROVE todo[n] # "job"
      <3>1. todo[n] \in Nested \/ todo[n] = "members"
        BY <2>2
      <3> QED BY <3>1 DEF Nested
    <2> QED BY <1>3, <2>3 DEF JobsReported, AtMembers, Reported
  <1>4. CASE AtResponse
    BY <1>4 DEF JobsReported, AtResponse, Reported
  <1>5. CASE AtArray
    BY <1>5 DEF JobsReported, AtArray, Reported
  <1>6. CASE AtJobs
    BY <1>6 DEF JobsReported, AtJobs, Reported
  <1>7. CASE AtEnd
    BY <1>7 DEF JobsReported, AtEnd, Reported
  <1>8. CASE AtNothing
    BY <1>8 DEF JobsReported, AtNothing, Reported
  <1> QED BY <1>1, <1>2, <1>3, <1>4, <1>5, <1>6, <1>7, <1>8 DEF StatusInv

LEMMA StatusStart == StatusInit => StatusInv
BY DEF StatusInit, StatusInv, AtResponse, Reported

LEMMA AgainStarts == Again => StatusInv'
BY DEF Again, StatusInv, AtResponse, Reported

LEMMA StatusKept == StatusInv /\ UNCHANGED statusVars => StatusInv'
  <1> SUFFICES ASSUME StatusInv, UNCHANGED statusVars PROVE StatusInv'
    OBVIOUS
  <1>1. UNCHANGED <<level, jobsLevel, setColor, setName, currentName, currentColor,
                    reported, todo, jobs, given>>
    BY DEF statusVars, handler, document
  <1>2. CASE AtMembers
    <2>1. PICK pre, d : Within(<<"members">>, 0, 0, pre, d)
      BY <1>2 DEF AtMembers
    <2>2. Within(<<"members">>, 0, 0, pre, d)'
      BY <1>1, <2>1 DEF Within
    <2> QED BY <1>1, <1>2, <2>2 DEF AtMembers, Reported, StatusInv
  <1>3. CASE AtJob
    <2>1. PICK pre, d : Within(<<"job", "jobs", "end">>, 1, 3, pre, d)
      BY <1>3 DEF AtJob
    <2>2. Within(<<"job", "jobs", "end">>, 1, 3, pre, d)'
      BY <1>1, <2>1 DEF Within
    <2> QED BY <1>1, <1>3, <2>2 DEF AtJob, Reported, StatusInv
  <1>4. CASE AtString
    BY <1>1, <1>4 DEF AtString, Reported, StatusInv
  <1>5. CASE AtResponse \/ AtArray \/ AtJobs \/ AtEnd \/ AtNothing
    BY <1>1, <1>5 DEF AtResponse, AtArray, AtJobs, AtEnd, AtNothing, Reported, StatusInv
  <1> QED BY <1>2, <1>3, <1>4, <1>5 DEF StatusInv

LEMMA StatusStep == StatusInv /\ [JenkinsNext]_jenkinsVars => StatusInv'
  <1> SUFFICES ASSUME StatusInv, [JenkinsNext]_jenkinsVars PROVE StatusInv'
    OBVIOUS
  <1>1. CASE Request
    BY <1>1, AgainStarts DEF Request
  <1>2. CASE Parse
    BY <1>2, EventStep DEF Parse
  <1>3. CASE UNCHANGED statusVars
    BY <1>3, StatusKept
  <1>4. JenkinsNext => Request \/ Parse \/ UNCHANGED statusVars
    BY DEF JenkinsNext, Deliver, Return, PollConnection, Unparsed
  <1> QED BY <1>1, <1>2, <1>3, <1>4 DEF jenkinsVars

(* Each job of the response is reported once, in order, with its own name  *)
(* and color: for any number of jobs, any nesting of the other members,    *)
(* and wherever the responses of earlier requests were cut off.            *)
THEOREM JobsAlwaysReported == JenkinsSpec => []JobsReported
  <1>1. JenkinsInit => StatusInv
    BY StatusStart DEF JenkinsInit
  <1> QED BY <1>1, StatusStep, InvReports, PTL DEF JenkinsSpec

-----------------------------------------------------------------------------
(* A step of the whole is one of the client or leaves it alone.            *)
LEMMA ClientStep == [JenkinsNext]_jenkinsVars => [Next]_vars
  <1> SUFFICES ASSUME JenkinsNext PROVE [Next]_vars
    BY DEF jenkinsVars
  <1> QED BY DEF JenkinsNext, Request, Deliver, Parse, Return, PollConnection, Unparsed, Next

(* With the parser and the handler in it, the client keeps the life cycle  *)
(* of its memory: it implements JenkinsClient up to its fairness.          *)
THEOREM ClientImplemented == JenkinsSpec => Init /\ [][Next]_vars
  <1>1. JenkinsInit => Init
    BY DEF JenkinsInit
  <1> QED BY <1>1, ClientStep, PTL DEF JenkinsSpec

(* The memory of a request, in the whole: there as long as its connection, *)
(* and used after it was freed only when the server closed first.          *)
THEOREM WholeKeepsState == JenkinsSpec => [](StateWithConnection /\ UndefinedOnlyAfterRemoteClose)
  <1>1. LifeInv => StateWithConnection /\ UndefinedOnlyAfterRemoteClose
    BY DEF LifeInv
  <1> QED BY <1>1, ClientImplemented, LifeInit, LifeStep, PTL

(* In the whole too, what reaches the JSON parser is what follows the      *)
(* header of the response, each byte once.                                 *)
THEOREM WholeParses == JenkinsSpec => [](TypeOK /\ ParsedFromHeaderEnd)
  <1>1. ClientInv => TypeOK
    BY DEF ClientInv
  <1> QED BY <1>1, ClientImplemented, TypeInit, TypeStep, InvParses, PTL
=============================================================================

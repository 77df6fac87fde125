-------------------------- MODULE TickTimers_proof --------------------------
(***************************************************************************)
(* No timer is called early, for every word size, tick length and list of  *)
(* intervals.  The difference of the two counter readings, wrapped, is     *)
(* never more than the real time since the last one (ReadingsInv), and the *)
(* product with TICK_MS, wrapped, never more than the product.  No timer   *)
(* is late either: within a word both are exact (LateInv).                 *)
(***************************************************************************)
EXTENDS TickTimers, TLAPS

\* The wrapped difference never exceeds the real one, and except between a
\* call and its note the call is not more recent than the note.
ReadingsInv ==
    \A k \in Timer :
        /\ Minus(tickCounter, last[k]) <= sinceNoted[k]
        /\ ~(pc = "note" /\ k = i) => sinceNoted[k] <= sinceCall[k]

\* The test that led to a call is still true when the call is made.
DueInv == pc = "call" => sinceNoted[i] * TickMs >= Interval[i]

TimerInv == TypeOK /\ ReadingsInv /\ DueInv

LEMMA WrapBound ==
    ASSUME NEW x \in Nat
    PROVE  x % Word \in Nat /\ x % Word <= x
  BY WordAssumption

LEMMA ProductMonotone ==
    ASSUME NEW a \in Nat, NEW b \in Nat, a <= b
    PROVE  a * TickMs <= b * TickMs /\ a * TickMs \in Nat /\ b * TickMs \in Nat
  <1>1. PICK d \in Nat : b = a + d
    BY b - a \in Nat
  <1>2. b * TickMs = a * TickMs + d * TickMs
    BY <1>1, TickMsAssumption
  <1>3. a * TickMs \in Nat /\ d * TickMs \in Nat /\ b * TickMs \in Nat
    BY TickMsAssumption
  <1> QED BY <1>2, <1>3

LEMMA TimerFacts ==
    /\ Len(Interval) \in Nat /\ Len(Interval) >= 1
    /\ 1 \in Timer
    /\ \A k \in Timer : Interval[k] \in Nat
    /\ \A k \in Timer : k \in Nat
    /\ \A k \in Timer : k # Len(Interval) => k + 1 \in Timer
  BY IntervalAssumption DEF Timer

LEMMA InitTimerInv == Init => TimerInv
  <1> SUFFICES ASSUME Init PROVE TimerInv
    OBVIOUS
  <1>1. /\ tickCounter \in 0 .. Word - 1
        /\ tickCounter \in 0 .. MaxLag
        /\ tickCounter \in 0 .. MaxSince
        /\ 0 \in 0 .. Word - 1
        /\ Minus(tickCounter, 0) = tickCounter
    BY WordAssumption, MaxLagAssumption, MaxSinceAssumption DEF Init, Minus
  <1>2. TypeOK
    BY <1>1, TimerFacts DEF Init, TypeOK
  <1>3. ReadingsInv
    BY <1>1 DEF Init, ReadingsInv
  <1>4. DueInv
    BY DEF Init, DueInv
  <1> QED BY <1>2, <1>3, <1>4 DEF TimerInv

\* A tick adds one to the real time and at most one to the difference.
LEMMA TickStep == TimerInv /\ SysTickIntHandler => TimerInv'
  <1> SUFFICES ASSUME TimerInv, SysTickIntHandler
               PROVE  TimerInv'
    OBVIOUS
  <1>1. TypeOK /\ ReadingsInv /\ DueInv
    BY DEF TimerInv
  <1>2. /\ tickCounter' = IF tickCounter = Word - 1 THEN 0 ELSE tickCounter + 1
        /\ lag < MaxLag /\ flag' = TRUE /\ lag' = lag + 1
        /\ sinceNoted' = [k \in Timer |-> OneMore(sinceNoted[k])]
        /\ sinceCall' = [k \in Timer |-> OneMore(sinceCall[k])]
        /\ UNCHANGED <<last, pc, i>>
    BY DEF SysTickIntHandler
  <1>3. ASSUME NEW n \in 0 .. MaxSince
        PROVE  /\ OneMore(n) \in 0 .. MaxSince
               /\ n <= OneMore(n)
               /\ OneMore(n) = n + 1 \/ OneMore(n) = MaxSince
    BY MaxSinceAssumption DEF OneMore
  <1>4. TypeOK'
    <2>1. tickCounter' \in 0 .. Word - 1 /\ lag' \in 0 .. MaxLag
      BY <1>1, <1>2, WordAssumption, MaxLagAssumption DEF TypeOK
    <2> QED BY <1>1, <1>2, <1>3, <2>1 DEF TypeOK
  <1>5. ReadingsInv'
    <2> SUFFICES ASSUME NEW k \in Timer
                 PROVE  /\ Minus(tickCounter', last[k]) <= sinceNoted'[k]
                        /\ ~(pc = "note" /\ k = i) => sinceNoted'[k] <= sinceCall'[k]
      BY <1>2 DEF ReadingsInv
    <2>1. /\ Minus(tickCounter, last[k]) <= sinceNoted[k]
          /\ ~(pc = "note" /\ k = i) => sinceNoted[k] <= sinceCall[k]
          /\ sinceNoted[k] \in 0 .. MaxSince /\ sinceCall[k] \in 0 .. MaxSince
          /\ tickCounter \in 0 .. Word - 1 /\ last[k] \in 0 .. Word - 1
      BY <1>1 DEF ReadingsInv, TypeOK
    <2>2. /\ sinceNoted'[k] = OneMore(sinceNoted[k])
          /\ sinceCall'[k] = OneMore(sinceCall[k])
      BY <1>2
    <2>3. /\ Minus(tickCounter', last[k]) <= Minus(tickCounter, last[k]) + 1
          /\ Minus(tickCounter', last[k]) <= Word - 1
          /\ Minus(tickCounter, last[k]) \in Nat
          /\ Minus(tickCounter', last[k]) \in Nat
      BY <1>2, <2>1, WordAssumption DEF Minus
    <2>4. Minus(tickCounter', last[k]) <= sinceNoted'[k]
      BY <2>1, <2>2, <2>3, <1>3, MaxSinceAssumption, WordAssumption
    <2>5. ~(pc = "note" /\ k = i) => sinceNoted'[k] <= sinceCall'[k]
      BY <2>1, <2>2, MaxSinceAssumption DEF OneMore
    <2> QED BY <2>4, <2>5
  <1>6. DueInv'
    <2> SUFFICES ASSUME pc = "call"
                 PROVE  sinceNoted'[i] * TickMs >= Interval[i]
      BY <1>2 DEF DueInv
    <2>1. /\ sinceNoted[i] * TickMs >= Interval[i]
          /\ i \in Timer /\ sinceNoted[i] \in 0 .. MaxSince
      BY <1>1 DEF DueInv, TypeOK
    <2>2. /\ sinceNoted[i] \in Nat /\ sinceNoted'[i] \in Nat
          /\ sinceNoted[i] <= sinceNoted'[i]
      BY <1>2, <1>3, <2>1, MaxSinceAssumption
    <2>3. /\ sinceNoted[i] * TickMs <= sinceNoted'[i] * TickMs
          /\ sinceNoted[i] * TickMs \in Nat /\ sinceNoted'[i] * TickMs \in Nat
      BY <2>2, ProductMonotone
    <2> QED BY <2>1, <2>3, TimerFacts
  <1> QED BY <1>4, <1>5, <1>6 DEF TimerInv

LEMMA LoopStep == TimerInv /\ Loop => TimerInv'
  <1> SUFFICES ASSUME TimerInv, Loop
               PROVE  TimerInv'
    OBVIOUS
  <1>1. TypeOK /\ ReadingsInv /\ DueInv
    BY DEF TimerInv
  <1>2. NextTimer => i' \in Timer /\ pc' \in {"idle", "check"}
    BY <1>1, TimerFacts DEF NextTimer, TypeOK
  <1>3. CASE Pass
    <2>1. /\ UNCHANGED <<tickCounter, last, sinceNoted, sinceCall>>
          /\ flag' = FALSE /\ lag' = 0 /\ i' = 1 /\ pc' = "check" /\ pc = "idle"
      BY <1>3 DEF Pass
    <2>2. TypeOK'
      <3>1. lag' \in 0 .. MaxLag
        BY <2>1, MaxLagAssumption
      <3> QED BY <1>1, <2>1, <3>1, TimerFacts DEF TypeOK
    <2> QED BY <1>1, <2>1, <2>2 DEF TimerInv, ReadingsInv, DueInv
  <1>4. CASE Check
    <2>1. /\ UNCHANGED <<tickCounter, last, flag, lag, sinceNoted, sinceCall>>
          /\ pc = "check"
          /\ \/ ElapsedMs(i) >= Interval[i] /\ pc' = "call" /\ i' = i
             \/ NextTimer
      BY <1>4 DEF Check
    <2>2. i \in Timer /\ i' \in Timer /\ pc' \in {"idle", "check", "call"}
      BY <1>1, <1>2, <2>1 DEF TypeOK
    <2>3. TypeOK'
      BY <1>1, <2>1, <2>2 DEF TypeOK
    <2>4. ReadingsInv'
      BY <1>1, <2>1, <2>2 DEF ReadingsInv
    <2>5. DueInv'
      <3> SUFFICES ASSUME pc' = "call"
                   PROVE  sinceNoted[i] * TickMs >= Interval[i]
        BY <1>2, <2>1 DEF DueInv
      <3>1. ElapsedMs(i) >= Interval[i] /\ i' = i
        BY <1>2, <2>1
      <3>2. /\ tickCounter \in 0 .. Word - 1 /\ last[i] \in 0 .. Word - 1
            /\ sinceNoted[i] \in 0 .. MaxSince
            /\ Minus(tickCounter, last[i]) <= sinceNoted[i]
        BY <1>1, <2>2 DEF TypeOK, ReadingsInv
      <3>3. PICK d \in Nat : d = Minus(tickCounter, last[i])
        BY <3>2, WordAssumption DEF Minus
      <3>4. /\ d * TickMs <= sinceNoted[i] * TickMs
            /\ d * TickMs \in Nat
            /\ sinceNoted[i] * TickMs \in Nat
        <4>1. sinceNoted[i] \in Nat /\ d <= sinceNoted[i]
          BY <3>2, <3>3
        <4> QED BY <4>1, ProductMonotone
      <3>5. (d * TickMs) % Word \in Nat /\ (d * TickMs) % Word <= d * TickMs
        BY <3>4, WrapBound
      <3>6. ElapsedMs(i) = (d * TickMs) % Word
        BY <3>3 DEF ElapsedMs
      <3>7. Interval[i] \in Nat
        BY <2>2, TimerFacts
      <3> QED BY <3>1, <3>4, <3>5, <3>6, <3>7
    <2> QED BY <2>3, <2>4, <2>5 DEF TimerInv
  <1>5. CASE Call
    <2>1. /\ UNCHANGED <<tickCounter, last, flag, i, lag, sinceNoted>>
          /\ sinceCall' = [sinceCall EXCEPT ![i] = 0]
          /\ pc = "call" /\ pc' = "note"
      BY <1>5 DEF Call
    <2>2. TypeOK'
      BY <1>1, <2>1, MaxSinceAssumption DEF TypeOK
    <2>3. ReadingsInv'
      BY <1>1, <2>1 DEF ReadingsInv, TypeOK
    <2>4. DueInv'
      BY <2>1 DEF DueInv
    <2> QED BY <2>2, <2>3, <2>4 DEF TimerInv
  <1>6. CASE Note
    <2>1. /\ UNCHANGED <<tickCounter, flag, lag, sinceCall>>
          /\ last' = [last EXCEPT ![i] = tickCounter]
          /\ sinceNoted' = [sinceNoted EXCEPT ![i] = 0]
          /\ i' \in Timer /\ pc' \in {"idle", "check"}
          /\ pc = "note"
      BY <1>2, <1>6 DEF Note
    <2>2. TypeOK'
      BY <1>1, <2>1, MaxSinceAssumption DEF TypeOK
    <2>3. ReadingsInv'
      <3> SUFFICES ASSUME NEW k \in Timer
                   PROVE  /\ Minus(tickCounter, last'[k]) <= sinceNoted'[k]
                          /\ sinceNoted'[k] <= sinceCall[k]
        BY <2>1 DEF ReadingsInv
      <3>1. CASE k = i
        <4>1. last'[k] = tickCounter /\ sinceNoted'[k] = 0
          BY <1>1, <2>1, <3>1 DEF TypeOK
        <4>2. Minus(tickCounter, tickCounter) = 0
          BY <1>1, WordAssumption DEF TypeOK, Minus
        <4>3. sinceCall[k] \in 0 .. MaxSince
          BY <1>1 DEF TypeOK
        <4> QED BY <4>1, <4>2, <4>3
      <3>2. CASE k # i
        BY <1>1, <2>1, <3>2 DEF ReadingsInv, TypeOK
      <3> QED BY <3>1, <3>2
    <2>4. DueInv'
      BY <2>1 DEF DueInv
    <2> QED BY <2>2, <2>3, <2>4 DEF TimerInv
  <1> QED BY <1>3, <1>4, <1>5, <1>6 DEF Loop

LEMMA TimerInvariance == Spec => []TimerInv
  <1>1. TimerInv /\ [Next]_vars => TimerInv'
    <2> SUFFICES ASSUME TimerInv, [Next]_vars
                 PROVE  TimerInv'
      OBVIOUS
    <2>1. CASE UNCHANGED vars
      BY <2>1 DEF TimerInv, TypeOK, ReadingsInv, DueInv, Minus, vars
    <2> QED BY <2>1, TickStep, LoopStep DEF Next
  <1> QED BY <1>1, InitTimerInv, PTL DEF Spec

(* Between two calls of an lwIP timer at least its interval passes, whatever *)
(* ticks come between the test, the call and the note of the time            *)
(* (main.cpp:449-466), and whatever wraps.                                   *)
THEOREM TimersNeverEarly == Spec => []NeverEarly
  <1>1. TimerInv => NeverEarly
    <2> SUFFICES ASSUME TimerInv, pc = "call"
                 PROVE  sinceCall[i] * TickMs >= Interval[i]
      BY DEF NeverEarly
    <2>1. /\ i \in Timer
          /\ sinceNoted[i] \in Nat /\ sinceCall[i] \in Nat
          /\ sinceNoted[i] <= sinceCall[i]
          /\ sinceNoted[i] * TickMs >= Interval[i]
      BY DEF TimerInv, TypeOK, ReadingsInv, DueInv
    <2>2. /\ sinceNoted[i] * TickMs <= sinceCall[i] * TickMs
          /\ sinceNoted[i] * TickMs \in Nat /\ sinceCall[i] * TickMs \in Nat
      BY <2>1, ProductMonotone
    <2>3. Interval[i] \in Nat
      BY <2>1, TimerFacts
    <2> QED BY <2>1, <2>2, <2>3
  <1> QED BY <1>1, TimerInvariance, PTL

(* Type correctness of the timers, for any word size, tick and intervals:   *)
(* tickCounter and the noted times stay within an unsigned long             *)
(* (main.cpp:424-468).                                                      *)
THEOREM TimerTypes == Spec => []TypeOK
  <1>1. TimerInv => TypeOK
    BY DEF TimerInv
  <1> QED BY <1>1, TimerInvariance, PTL

-----------------------------------------------------------------------------
\* The pass that runs is through with timer k, or none runs.
Checked(k) == pc = "idle" \/ k < i

\* How many ticks timer k may be behind.
Allowance(k) == IF Checked(k) THEN lag ELSE MaxLag + lag

(* The wrapped difference is the real time, unless that is a whole word;   *)
(* and a timer is behind by what came since the pass that checked it.      *)
Exact(k) == sinceNoted[k] < Word => Minus(tickCounter, last[k]) = sinceNoted[k]
Within(k) == sinceNoted[k] * TickMs < Interval[k] + Allowance(k) * TickMs

LateInv == TypeOK /\ \A k \in Timer : Exact(k) /\ Within(k)

\* A timer that is late still sees how late within one word.
Fits == \A k \in Timer : Interval[k] + 2 * (MaxLag * TickMs) <= Word

LEMMA ProductSum ==
    ASSUME NEW a \in Nat, NEW b \in Nat
    PROVE  (a + b) * TickMs = a * TickMs + b * TickMs
  BY TickMsAssumption

LEMMA AllowanceBound ==
    ASSUME LateInv, NEW k \in Timer
    PROVE  /\ Allowance(k) \in Nat
           /\ Allowance(k) * TickMs <= 2 * (MaxLag * TickMs)
           /\ sinceNoted[k] * TickMs < Interval[k] + 2 * (MaxLag * TickMs)
           /\ sinceNoted[k] \in Nat /\ sinceNoted[k] * TickMs \in Nat
  <1>1. lag \in Nat /\ lag <= MaxLag /\ MaxLag \in Nat /\ sinceNoted[k] \in Nat
    BY MaxLagAssumption, MaxSinceAssumption DEF LateInv, TypeOK
  <1>2. Allowance(k) \in Nat /\ Allowance(k) <= MaxLag + MaxLag
    BY <1>1 DEF Allowance
  <1>3. Allowance(k) * TickMs <= (MaxLag + MaxLag) * TickMs
    BY <1>1, <1>2, ProductMonotone
  <1>4. (MaxLag + MaxLag) * TickMs = MaxLag * TickMs + MaxLag * TickMs
    BY <1>1, ProductSum
  <1>5. /\ MaxLag * TickMs \in Nat /\ Allowance(k) * TickMs \in Nat
        /\ sinceNoted[k] * TickMs \in Nat
    BY <1>1, <1>2, ProductMonotone
  <1>6. Allowance(k) * TickMs <= 2 * (MaxLag * TickMs)
    BY <1>3, <1>4, <1>5
  <1>7. sinceNoted[k] * TickMs < Interval[k] + Allowance(k) * TickMs
    BY DEF LateInv, Within
  <1> QED BY <1>1, <1>2, <1>5, <1>6, <1>7, TimerFacts

LEMMA InitLateInv == Init => LateInv
  <1> SUFFICES ASSUME Init, NEW k \in Timer PROVE Exact(k) /\ Within(k)
    BY InitTimerInv DEF LateInv, TimerInv
  <1>1. /\ tickCounter \in Nat /\ sinceNoted[k] = tickCounter /\ lag = tickCounter
        /\ last[k] = 0 /\ pc = "idle"
    BY MaxLagAssumption DEF Init
  <1>2. Exact(k)
    BY <1>1 DEF Exact, Minus
  <1>3. tickCounter * TickMs \in Nat /\ Interval[k] \in Nat \ {0}
    <2>1. tickCounter * TickMs \in Nat
      BY <1>1, TickMsAssumption
    <2>2. Interval[k] \in Nat \ {0}
      BY IntervalAssumption DEF Timer
    <2> QED BY <2>1, <2>2
  <1>4. Within(k)
    BY <1>1, <1>3 DEF Within, Allowance, Checked
  <1> QED BY <1>2, <1>4

LEMMA TickLate == LateInv /\ SysTickIntHandler /\ TypeOK' => LateInv'
  <1> SUFFICES ASSUME LateInv, SysTickIntHandler, NEW k \in Timer
               PROVE  Exact(k)' /\ Within(k)'
    BY DEF LateInv
  <1>1. /\ tickCounter' = IF tickCounter = Word - 1 THEN 0 ELSE tickCounter + 1
        /\ lag' = lag + 1
        /\ sinceNoted' = [n \in Timer |-> OneMore(sinceNoted[n])]
        /\ UNCHANGED <<last, pc, i>>
    BY DEF SysTickIntHandler
  <1>2. /\ tickCounter \in 0 .. Word - 1 /\ last[k] \in 0 .. Word - 1
        /\ sinceNoted[k] \in 0 .. MaxSince /\ lag \in Nat
        /\ MaxLag \in Nat /\ Word \in Nat /\ MaxSince \in Nat /\ MaxSince >= Word
    BY WordAssumption, MaxLagAssumption, MaxSinceAssumption DEF LateInv, TypeOK
  <1>3. sinceNoted'[k] = OneMore(sinceNoted[k])
    BY <1>1
  <1>4. Exact(k)'
    <2>1. CASE sinceNoted[k] + 1 < Word
      <3>1. sinceNoted'[k] = sinceNoted[k] + 1
        BY <1>2, <1>3, <2>1 DEF OneMore
      <3>2. Minus(tickCounter, last[k]) = sinceNoted[k]
        BY <1>2, <2>1 DEF LateInv, Exact
      <3>3. Minus(tickCounter', last[k]) = sinceNoted[k] + 1
        BY <1>1, <1>2, <2>1, <3>2 DEF Minus
      <3> QED BY <1>1, <3>1, <3>3 DEF Exact, Minus
    <2>2. CASE ~(sinceNoted[k] + 1 < Word)
      <3>1. ~(sinceNoted'[k] < Word)
        BY <1>2, <1>3, <2>2 DEF OneMore
      <3> QED BY <3>1 DEF Exact
    <2> QED BY <2>1, <2>2
  <1>5. Within(k)'
    <2>1. Allowance(k) \in Nat /\ Allowance(k)' = Allowance(k) + 1
      BY <1>1, <1>2 DEF Allowance, Checked
    <2>2. (Allowance(k) + 1) * TickMs = Allowance(k) * TickMs + TickMs
      BY <2>1, ProductSum, TickMsAssumption
    <2>3. sinceNoted'[k] \in Nat /\ sinceNoted'[k] <= sinceNoted[k] + 1
      BY <1>2, <1>3 DEF OneMore
    <2>4. sinceNoted'[k] * TickMs <= (sinceNoted[k] + 1) * TickMs
      BY <1>2, <2>3, ProductMonotone
    <2>5. (sinceNoted[k] + 1) * TickMs = sinceNoted[k] * TickMs + TickMs
      BY <1>2, ProductSum, TickMsAssumption
    <2>6. sinceNoted[k] * TickMs < Interval[k] + Allowance(k) * TickMs
      BY DEF LateInv, Within
    <2>7. /\ sinceNoted[k] * TickMs \in Nat /\ sinceNoted'[k] * TickMs \in Nat
          /\ Allowance(k) * TickMs \in Nat /\ TickMs \in Nat /\ Interval[k] \in Nat
      BY <1>2, <2>1, <2>3, ProductMonotone, TickMsAssumption, TimerFacts
    <2>8. sinceNoted'[k] * TickMs < Interval[k] + (Allowance(k) + 1) * TickMs
      BY <2>2, <2>4, <2>5, <2>6, <2>7
    <2> QED BY <2>1, <2>8 DEF Within
  <1> QED BY <1>4, <1>5

\* A timer that has been checked and not called is not late.
LEMMA NotDue ==
    ASSUME LateInv, Fits, pc = "check", ElapsedMs(i) < Interval[i]
    PROVE  sinceNoted[i] * TickMs < Interval[i]
  <1>1. i \in Timer /\ Word \in Nat
    BY WordAssumption DEF LateInv, TypeOK
  <1>2. /\ sinceNoted[i] * TickMs < Interval[i] + 2 * (MaxLag * TickMs)
        /\ sinceNoted[i] \in Nat /\ sinceNoted[i] * TickMs \in Nat
    BY <1>1, AllowanceBound
  <1>3. /\ Interval[i] + 2 * (MaxLag * TickMs) <= Word
        /\ MaxLag * TickMs \in Nat /\ Interval[i] \in Nat
    BY <1>1, MaxLagAssumption, ProductMonotone, TimerFacts DEF Fits
  <1>4. sinceNoted[i] * TickMs < Word
    BY <1>1, <1>2, <1>3
  <1>5. sinceNoted[i] <= sinceNoted[i] * TickMs
    BY <1>2, TickMsAssumption
  <1>6. Minus(tickCounter, last[i]) = sinceNoted[i]
    BY <1>1, <1>2, <1>4, <1>5 DEF LateInv, Exact
  <1>7. (sinceNoted[i] * TickMs) % Word = sinceNoted[i] * TickMs
    BY <1>1, <1>2, <1>4
  <1> QED BY <1>6, <1>7 DEF ElapsedMs

LEMMA LoopLate == Fits /\ LateInv /\ Loop /\ TypeOK' => LateInv'
  <1> SUFFICES ASSUME Fits, LateInv, Loop, NEW k \in Timer
               PROVE  Exact(k)' /\ Within(k)'
    BY DEF LateInv
  <1>1. /\ Exact(k) /\ Within(k)
        /\ i \in Timer /\ k \in Nat /\ i \in Nat /\ lag \in Nat /\ lag <= MaxLag /\ MaxLag \in Nat
        /\ sinceNoted \in [Timer -> 0 .. MaxSince] /\ last \in [Timer -> 0 .. Word - 1]
        /\ tickCounter \in 0 .. Word - 1
    BY MaxLagAssumption, TimerFacts DEF LateInv, TypeOK
  <1>2. /\ sinceNoted[k] * TickMs \in Nat /\ lag * TickMs \in Nat
        /\ lag * TickMs <= MaxLag * TickMs /\ MaxLag * TickMs \in Nat
        /\ lag * TickMs <= (MaxLag + lag) * TickMs /\ (MaxLag + lag) * TickMs \in Nat
        /\ Interval[k] \in Nat \ {0}
    <2>1. sinceNoted[k] \in Nat /\ lag <= MaxLag + lag /\ MaxLag + lag \in Nat
      BY <1>1, MaxSinceAssumption
    <2>2. Interval[k] \in Nat \ {0}
      BY IntervalAssumption DEF Timer
    <2> QED BY <1>1, <2>1, <2>2, ProductMonotone
  <1>3. CASE Pass
    <2>1. Exact(k)'
      BY <1>1, <1>3 DEF Pass, Exact, Minus
    <2>2. Allowance(k) = lag
      BY <1>3 DEF Pass, Allowance, Checked
    <2>3. Allowance(k)' = MaxLag
      BY <1>1, <1>3, TimerFacts DEF Pass, Allowance, Checked, Timer
    <2>4. sinceNoted'[k] = sinceNoted[k]
      BY <1>3 DEF Pass
    <2>5. sinceNoted[k] * TickMs < Interval[k] + lag * TickMs
      BY <1>1, <2>2 DEF Within
    <2>6. sinceNoted[k] * TickMs < Interval[k] + MaxLag * TickMs
      BY <1>2, <2>5
    <2>7. Within(k)'
      BY <2>3, <2>4, <2>6 DEF Within
    <2> QED BY <2>1, <2>7
  <1>4. ASSUME NextTimer, UNCHANGED lag, UNCHANGED sinceNoted, pc # "idle",
               sinceNoted[i] * TickMs < Interval[i]
        PROVE  Within(k)'
    <2>1. CASE k = i
      <3>1. Allowance(k)' \in {lag, MaxLag + lag}
        BY <1>4 DEF Allowance
      <3>2. sinceNoted[k] * TickMs < Interval[k] + Allowance(k)' * TickMs
        BY <1>2, <1>4, <2>1, <3>1
      <3> QED BY <1>4, <3>2 DEF Within
    <2>2. CASE k < i
      <3>1. Checked(k) /\ Checked(k)'
        BY <1>1, <1>4, <2>2 DEF Checked, NextTimer
      <3>2. Allowance(k)' = Allowance(k)
        BY <1>4, <3>1 DEF Allowance
      <3> QED BY <1>1, <1>4, <3>2 DEF Within
    <2>3. CASE k > i
      <3>1. i # Len(Interval)
        BY <1>1, <2>3, TimerFacts DEF Timer
      <3>2. ~Checked(k) /\ ~Checked(k)'
        BY <1>1, <1>4, <2>3, <3>1 DEF Checked, NextTimer
      <3>3. Allowance(k)' = Allowance(k)
        BY <1>4, <3>2 DEF Allowance
      <3> QED BY <1>1, <1>4, <3>3 DEF Within
    <2> QED BY <1>1, <2>1, <2>2, <2>3
  <1>5. CASE Check
    <2>1. UNCHANGED <<tickCounter, last, lag, sinceNoted>> /\ pc = "check"
      BY <1>5 DEF Check
    <2>2. Exact(k)'
      BY <1>1, <2>1 DEF Exact, Minus
    <2>3. CASE pc' = "call" /\ i' = i
      BY <1>1, <2>1, <2>2, <2>3 DEF Within, Allowance, Checked
    <2>4. CASE ElapsedMs(i) < Interval[i] /\ NextTimer
      <3>1. Within(k)'
        BY <1>4, <2>1, <2>4, NotDue
      <3> QED BY <2>2, <3>1
    <2> QED BY <1>5, <2>3, <2>4 DEF Check
  <1>6. CASE Call
    BY <1>1, <1>6 DEF Call, Exact, Minus, Within, Allowance, Checked
  <1>7. CASE Note
    <2>1. /\ UNCHANGED <<tickCounter, lag>> /\ pc = "note" /\ NextTimer
          /\ last' = [last EXCEPT ![i] = tickCounter]
          /\ sinceNoted' = [sinceNoted EXCEPT ![i] = 0]
      BY <1>7 DEF Note
    <2>2. CASE k = i
      <3>1. last'[k] = tickCounter /\ sinceNoted'[k] = 0
        BY <1>1, <2>1, <2>2
      <3>2. Exact(k)'
        BY <1>1, <2>1, <3>1, WordAssumption DEF Exact, Minus
      <3>3. Allowance(k)' \in {lag, MaxLag + lag}
        BY <2>1 DEF Allowance
      <3>4. 0 * TickMs = 0
        BY TickMsAssumption
      <3>5. 0 * TickMs < Interval[k] + Allowance(k)' * TickMs
        BY <1>2, <3>3, <3>4
      <3> QED BY <3>1, <3>2, <3>5 DEF Within
    <2>3. CASE k # i
      <3>1. last'[k] = last[k] /\ sinceNoted'[k] = sinceNoted[k]
        BY <1>1, <2>1, <2>3
      <3>2. Exact(k)'
        BY <1>1, <2>1, <3>1 DEF Exact, Minus
      <3>3. Checked(k)' <=> Checked(k)
        BY <1>1, <2>1, <2>3, TimerFacts DEF Checked, NextTimer, Timer
      <3>4. Allowance(k)' = Allowance(k)
        BY <2>1, <3>3 DEF Allowance
      <3> QED BY <1>1, <3>1, <3>2, <3>4 DEF Within
    <2> QED BY <2>2, <2>3
  <1> QED BY <1>3, <1>5, <1>6, <1>7 DEF Loop

(* A timer is late by no more than the loop fell behind, twice: no tick is *)
(* lost between clearing the flag and reading the counter                  *)
(* (main.cpp:446-466).  It needs that an interval and that time together   *)
(* are less than a word; the intervals of the firmware are far from it.    *)
THEOREM TimersPunctual ==
    ASSUME Fits
    PROVE  Spec => []Punctual
  <1>1. LateInv /\ [Next]_vars /\ TypeOK' => LateInv'
    <2> SUFFICES ASSUME LateInv, [Next]_vars, TypeOK'
                 PROVE  LateInv'
      OBVIOUS
    <2>1. CASE UNCHANGED vars
      BY <2>1 DEF LateInv, TypeOK, Exact, Within, Allowance, Checked, Minus, vars
    <2> QED BY <2>1, TickLate, LoopLate DEF Next
  <1>2. LateInv => Punctual
    <2> SUFFICES ASSUME LateInv, NEW k \in Timer
                 PROVE  sinceNoted[k] * TickMs < Interval[k] + 2 * MaxLag * TickMs
      BY DEF Punctual
    <2>1. sinceNoted[k] * TickMs < Interval[k] + 2 * (MaxLag * TickMs)
      BY AllowanceBound
    <2>2. 2 * MaxLag * TickMs = 2 * (MaxLag * TickMs)
      BY MaxLagAssumption, TickMsAssumption
    <2> QED BY <2>1, <2>2
  <1> QED BY <1>1, <1>2, InitLateInv, TimerTypes, PTL DEF Spec
=============================================================================

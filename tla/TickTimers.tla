----------------------------- MODULE TickTimers -----------------------------
(***************************************************************************)
(* The lwIP timers of the main loop (main.cpp:446-468).  SysTickIntHandler *)
(* counts ticks in an unsigned word that wraps and sets FLAG_SYSTICK; the  *)
(* loop clears the flag and then, timer by timer, compares the time since  *)
(* the timer's last call with its interval, calls it, and reads the        *)
(* counter AGAIN to note when.  The SysTick can come between any two of    *)
(* these steps.                                                            *)
(***************************************************************************)
EXTENDS Integers, Sequences

CONSTANTS
    Word,           \* values of an unsigned long: 2^32
    TickMs,         \* TICK_MS
    Interval,       \* intervals in ms, in the order of the source:
                    \* etharp_tmr, tcp_tmr, dhcp_coarse_tmr, dhcp_fine_tmr
    MaxLag,         \* bound: ticks between the start of two passes
    MaxSince        \* bound: where the history counters stop counting

ASSUME WordAssumption == Word \in Nat /\ Word >= 2
ASSUME TickMsAssumption == TickMs \in Nat \ {0}
ASSUME IntervalAssumption == Interval \in Seq(Nat \ {0}) /\ Len(Interval) >= 1
ASSUME MaxLagAssumption == MaxLag \in Nat \ {0}
ASSUME MaxSinceAssumption == MaxSince \in Nat /\ MaxSince >= Word

Timer == 1 .. Len(Interval)

VARIABLES
    tickCounter,    \* tickCounter
    last,           \* last_arp_time, last_tcp_time, last_dhcp_...
    flag,           \* FLAG_SYSTICK
    pc, i,          \* the loop: "idle", or at timer i
    \* history
    lag,            \* ticks since the last pass started
    sinceNoted,     \* ticks since last[k] was written
    sinceCall       \* ticks since timer k was called

vars == <<tickCounter, last, flag, pc, i, lag, sinceNoted, sinceCall>>

\* Unsigned subtraction, and the product with TICK_MS, both modulo Word.
Minus(a, b) == IF a >= b THEN a - b ELSE (a - b) + Word

\* Fault: the subtraction is done on signed numbers.
ElapsedMsSigned(k) == (tickCounter - last[k]) * TickMs

ElapsedMs(k) == (Minus(tickCounter, last[k]) * TickMs) % Word

OneMore(n) == IF n < MaxSince THEN n + 1 ELSE n

\* Some ticks have passed by the time the loop is reached.
Init ==
    /\ tickCounter \in 0 .. MaxLag
    /\ tickCounter < Word
    /\ last = [k \in Timer |-> 0]
    /\ flag = (tickCounter > 0)
    /\ pc = "idle" /\ i = 1
    /\ lag = tickCounter
    /\ sinceNoted = [k \in Timer |-> tickCounter]
    /\ sinceCall = [k \in Timer |-> tickCounter]

\* Fault: the counter is wider than the times it is compared with.
SysTickNoWrap ==
    /\ lag < MaxLag
    /\ tickCounter' = tickCounter + 1
    /\ flag' = TRUE
    /\ lag' = lag + 1
    /\ sinceNoted' = [k \in Timer |-> OneMore(sinceNoted[k])]
    /\ sinceCall' = [k \in Timer |-> OneMore(sinceCall[k])]
    /\ UNCHANGED <<last, pc, i>>

(* SysTickIntHandler.  MaxLag bounds how far the loop can fall behind: it  *)
(* stands for the time a pass, the drain and the calls in it can take.     *)
SysTickIntHandler ==
    /\ lag < MaxLag
    /\ tickCounter' = IF tickCounter = Word - 1 THEN 0 ELSE tickCounter + 1
    /\ flag' = TRUE
    /\ lag' = lag + 1
    /\ sinceNoted' = [k \in Timer |-> OneMore(sinceNoted[k])]
    /\ sinceCall' = [k \in Timer |-> OneMore(sinceCall[k])]
    /\ UNCHANGED <<last, pc, i>>

\* The flag is seen and cleared; the pass starts with the first timer.
Pass ==
    /\ pc = "idle" /\ flag
    /\ flag' = FALSE
    /\ lag' = 0
    /\ i' = 1
    /\ pc' = "check"
    /\ UNCHANGED <<tickCounter, last, sinceNoted, sinceCall>>

NextTimer ==
    IF i = Len(Interval) THEN pc' = "idle" /\ i' = 1
                         ELSE pc' = "check" /\ i' = i + 1

\* Fault: the counter is compared with a deadline.
CheckDeadline ==
    /\ pc = "check"
    /\ \/ tickCounter * TickMs >= last[i] * TickMs + Interval[i] /\ pc' = "call" /\ i' = i
       \/ tickCounter * TickMs < last[i] * TickMs + Interval[i] /\ NextTimer
    /\ UNCHANGED <<tickCounter, last, flag, lag, sinceNoted, sinceCall>>

Check ==
    /\ pc = "check"
    /\ \/ ElapsedMs(i) >= Interval[i] /\ pc' = "call" /\ i' = i
       \/ ElapsedMs(i) < Interval[i] /\ NextTimer
    /\ UNCHANGED <<tickCounter, last, flag, lag, sinceNoted, sinceCall>>

Call ==
    /\ pc = "call"
    /\ sinceCall' = [sinceCall EXCEPT ![i] = 0]
    /\ pc' = "note"
    /\ UNCHANGED <<tickCounter, last, flag, i, lag, sinceNoted>>

\* Fault: the time noted is when the call was due.
NoteDue ==
    /\ pc = "note"
    /\ last' = [last EXCEPT ![i] = (last[i] + (Interval[i] \div TickMs)) % Word]
    /\ sinceNoted' = [sinceNoted EXCEPT ![i] = 0]
    /\ NextTimer
    /\ UNCHANGED <<tickCounter, flag, lag, sinceCall>>

\* last_..._time = tickCounter
Note ==
    /\ pc = "note"
    /\ last' = [last EXCEPT ![i] = tickCounter]
    /\ sinceNoted' = [sinceNoted EXCEPT ![i] = 0]
    /\ NextTimer
    /\ UNCHANGED <<tickCounter, flag, lag, sinceCall>>

Loop == Pass \/ Check \/ Call \/ Note

Next == SysTickIntHandler \/ Loop

\* The loop runs and the SysTick goes on.
Spec == Init /\ [][Next]_vars /\ WF_vars(Loop) /\ WF_vars(SysTickIntHandler)
-----------------------------------------------------------------------------
TypeOK ==
    /\ tickCounter \in 0 .. Word - 1
    /\ last \in [Timer -> 0 .. Word - 1]
    /\ flag \in BOOLEAN
    /\ pc \in {"idle", "check", "call", "note"}
    /\ i \in Timer
    /\ lag \in 0 .. MaxLag
    /\ sinceNoted \in [Timer -> 0 .. MaxSince]
    /\ sinceCall \in [Timer -> 0 .. MaxSince]

(* Two calls of a timer are at least its interval apart in real time, also *)
(* when the counter, or the product with TICK_MS, wraps in between.        *)
NeverEarly == pc = "call" => sinceCall[i] * TickMs >= Interval[i]

(* A timer is late by no more than the ticks the loop itself fell behind:  *)
(* no tick is lost between clearing the flag and reading the counter.      *)
Punctual ==
    \A k \in Timer :
        sinceNoted[k] * TickMs < Interval[k] + 2 * MaxLag * TickMs

(* Every timer goes on being called for ever, across wraps of the counter. *)
EachTimerRuns == \A k \in Timer : []<>(pc = "note" /\ i = k)
=============================================================================

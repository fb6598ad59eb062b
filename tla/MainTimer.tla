------------------------------ MODULE MainTimer ------------------------------
(* The timer interrupt (mainTimer.c): tc_callback divides the clock into 4 ms,  *)
(* seconds, minutes and hours, a flag of timers1 each, for the main loop.       *)
EXTENDS Integers

CONSTANTS T1, T2, T3, T4    \* ms in 4 ms, of these in a second, ... : 4, 250, 60, 60

ASSUME DividersAssumption == {T1, T2, T3, T4} \subseteq Nat \ {0}

VARIABLES
    timers1,          \* the flags that are set
    t1, t2, t3, t4,
    falta,            \* history: by unit, set in time and not handled
    tickTarde         \* history: 4 ms found the previous ones not yet taken

clockVars == <<timers1, t1, t2, t3, t4, falta, tickTarde>>

Units == {"seg1", "min1", "hora1"}
Flags == {"mseg4"} \cup Units

MTypeOK ==
    /\ timers1 \subseteq Flags
    /\ t1 \in 0 .. T1 - 1 /\ t2 \in 0 .. T2 - 1 /\ t3 \in 0 .. T3 - 1 /\ t4 \in 0 .. T4 - 1
    /\ falta \in [Units -> Int]
    /\ tickTarde \in BOOLEAN

MInit ==
    /\ timers1 = {}
    /\ t1 = 0 /\ t2 = 0 /\ t3 = 0 /\ t4 = 0
    /\ falta = [u \in Units |-> 0]
    /\ tickTarde = FALSE

Slip_Up(t, n) == IF t > n THEN 0 ELSE t + 1
Up(t, n) == IF t + 1 >= n THEN 0 ELSE t + 1

\* The flags that a millisecond sets.
Due ==
    LET m == t1 + 1 >= T1
        s == m /\ t2 + 1 >= T2
        i == s /\ t3 + 1 >= T3
        h == i /\ t4 + 1 >= T4
    IN  {f \in Flags : \/ f = "mseg4" /\ m
                       \/ f = "seg1" /\ s
                       \/ f = "min1" /\ i
                       \/ f = "hora1" /\ h}

\* tc_callback, once a millisecond, but for softTimer_handler.  taking: the main loop is clearing mseg4.
tc_callback(taking) ==
    /\ timers1' = timers1 \cup Due
    /\ t1' = Up(t1, T1)
    /\ t2' = IF "mseg4" \in Due THEN Up(t2, T2) ELSE t2
    /\ t3' = IF "seg1" \in Due THEN Up(t3, T3) ELSE t3
    /\ t4' = IF "min1" \in Due THEN Up(t4, T4) ELSE t4
    /\ tickTarde' = (tickTarde \/ ("mseg4" \in Due /\ ("mseg4" \in timers1 \/ taking)))
    /\ falta' = IF tickTarde' THEN falta
                ELSE [u \in Units |-> IF u \in Due THEN falta[u] + 1 ELSE falta[u]]

\* The store of maintTimer_clearExpired, of the value it has read.
Slip_Store(f, reg) == timers1' = reg \ Flags
Store(f, reg) == timers1' = reg \ {f}

Handled(f) ==
    falta' = IF tickTarde \/ f \notin Units THEN falta ELSE [falta EXCEPT ![f] = @ - 1]
=============================================================================

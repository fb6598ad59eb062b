----------------------------- MODULE SoftTimers -----------------------------
(* The software timers (softTimers.c): the 32-bit count of milliseconds and one *)
(* of the timers that the state machines start and poll.                       *)
EXTENDS Integers

CONSTANTS
    Word,        \* the values of a uint32_t, 2^32
    Reach,       \* the 65535 with which softTimer_expired goes over the wrap
    Intervals    \* the intervals that are asked for

ASSUME WordAssumption == Word \in Nat /\ Reach \in Nat /\ Reach < Word
ASSUME IntervalsAssumption == Intervals \subseteq 0 .. Word - 1

VARIABLES
    systemTicks,
    timer,       \* SoftTimer_t: state, start and interval
    age          \* history: milliseconds since the timer was started, up to Word

softVars == <<systemTicks, timer, age>>

STypeOK ==
    /\ systemTicks \in 0 .. Word - 1
    /\ timer \in [state : {"running", "stopped"}, start : 0 .. Word - 1,
                  interval : Intervals \cup {0}]
    /\ age \in 0 .. Word

SInit ==
    /\ systemTicks = 0
    /\ timer = [state |-> "stopped", start |-> 0, interval |-> 0]
    /\ age = 0

softTimer_init(i) ==
    /\ timer' = [state |-> "running", start |-> systemTicks, interval |-> i]
    /\ age' = 0
    /\ UNCHANGED systemTicks

softTimer_restart ==
    /\ timer' = [timer EXCEPT !.state = "running", !.start = systemTicks]
    /\ age' = 0
    /\ UNCHANGED systemTicks

softTimer_stop ==
    /\ timer' = [timer EXCEPT !.state = "stopped"]
    /\ UNCHANGED <<systemTicks, age>>

softTimer_handler ==
    /\ systemTicks' = IF systemTicks + 1 = Word THEN 0 ELSE systemTicks + 1
    /\ age' = IF age < Word THEN age + 1 ELSE age
    /\ UNCHANGED timer

\* A sum or a difference of two uint32_t.
Wraps(n) == IF n < 0 THEN n + Word ELSE IF n >= Word THEN n - Word ELSE n

Wrapped == systemTicks < timer.start

Slip_softTimer_expired ==
    /\ timer.state = "running"
    /\ systemTicks - timer.start > timer.interval

softTimer_expired ==
    /\ timer.state = "running"
    /\ IF ~Wrapped
       THEN systemTicks - timer.start > timer.interval
       ELSE Wraps(Wraps(Reach - timer.start) + systemTicks) > timer.interval

\* A timer is never late, within the age up to which the sum over the wrap fits; and it
\* is early only when the count has wrapped since it was started, by at most Reach
\* milliseconds (65535 where 2^32 is meant: softTimers.c:36).
TimerSound ==
    timer.state = "running" /\ age < Word - Reach =>
        /\ age > timer.interval => softTimer_expired
        /\ softTimer_expired => \/ age > timer.interval
                                \/ Wrapped /\ age + Reach > timer.interval
=============================================================================

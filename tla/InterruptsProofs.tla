-------------------------- MODULE InterruptsProofs --------------------------
(* Theorems about the main loop against the timer interrupt, for every value   *)
(* of the constants.                                                           *)
EXTENDS Interrupts, TLAPS

-----------------------------------------------------------------------------
(* The software timers. *)

\* What the code works with, against the age it stands for.
AgeInv ==
    timer.state = "running" /\ age < Word =>
        age = IF Wrapped THEN systemTicks - timer.start + Word ELSE systemTicks - timer.start

SoftInv == STypeOK /\ AgeInv

\* The steps of SoftTimers.
SoftStep == \/ \E i \in Intervals : softTimer_init(i)
            \/ softTimer_restart
            \/ softTimer_stop
            \/ softTimer_handler
            \/ UNCHANGED softVars

LEMMA SoftStepInv == SoftInv /\ SoftStep => SoftInv'
<1> SUFFICES ASSUME SoftInv, SoftStep PROVE SoftInv'
  OBVIOUS
<1> USE WordAssumption, IntervalsAssumption DEF SoftInv, STypeOK, AgeInv, Wrapped, softVars
<1>1. ASSUME NEW i \in Intervals, softTimer_init(i) PROVE SoftInv'
  <2> USE <1>1 DEF softTimer_init
  <2>1. STypeOK' OBVIOUS
  <2>2. timer'.start = systemTicks' /\ age' = 0 OBVIOUS
  <2>3. AgeInv' BY <2>1, <2>2
  <2> QED BY <2>1, <2>3
<1>2. CASE softTimer_restart
  <2> USE <1>2 DEF softTimer_restart
  <2>0. timer' = [state |-> "running", start |-> systemTicks, interval |-> timer.interval]
    OBVIOUS
  <2>1. STypeOK' BY <2>0
  <2>2. timer'.start = systemTicks' /\ age' = 0 OBVIOUS
  <2>3. AgeInv' BY <2>1, <2>2
  <2> QED BY <2>1, <2>3
<1>3. CASE softTimer_stop
  <2> USE <1>3 DEF softTimer_stop
  <2>1. STypeOK' OBVIOUS
  <2>2. timer'.state = "stopped" OBVIOUS
  <2> QED BY <2>1, <2>2
<1>4. CASE softTimer_handler
  <2> USE <1>4 DEF softTimer_handler
  <2>1. STypeOK' OBVIOUS
  <2>2. AgeInv' OBVIOUS
  <2> QED BY <2>1, <2>2
<1>5. CASE UNCHANGED softVars BY <1>5
<1> QED BY <1>1, <1>2, <1>3, <1>4, <1>5 DEF SoftStep

\* The comparison of the code, by the age of the timer.
LEMMA SoftInvSound == SoftInv => TimerSound
<1> SUFFICES ASSUME SoftInv, timer.state = "running", age < Word - Reach
             PROVE /\ age > timer.interval => softTimer_expired
                   /\ softTimer_expired => \/ age > timer.interval
                                           \/ Wrapped /\ age + Reach > timer.interval
  BY DEF TimerSound
<1> USE WordAssumption, IntervalsAssumption DEF SoftInv, STypeOK, AgeInv, softTimer_expired
<1>1. timer.interval \in Nat /\ timer.start \in 0 .. Word - 1
  <2>1. timer.interval \in Intervals \cup {0} /\ timer.start \in 0 .. Word - 1 OBVIOUS
  <2>2. CASE timer.interval = 0 BY <2>1, <2>2
  <2>3. CASE timer.interval \in Intervals
    <3>1. timer.interval \in 0 .. Word - 1 BY <2>3
    <3> QED BY <2>1, <3>1
  <2> QED BY <2>1, <2>2, <2>3
<1>2. CASE ~Wrapped
  <2>1. age = systemTicks - timer.start BY <1>2
  <2>2. softTimer_expired <=> age > timer.interval BY <1>2, <2>1
  <2> QED BY <2>2
<1>3. CASE Wrapped
  <2>1. age = systemTicks - timer.start + Word /\ systemTicks < timer.start
    BY <1>3 DEF Wrapped
  <2>2. Reach - timer.start < 0 BY <2>1, <1>1
  <2>3. Wraps(Reach - timer.start) = Reach - timer.start + Word BY <2>2, <1>1 DEF Wraps
  <2>4. Wraps(Reach - timer.start) + systemTicks = age + Reach BY <2>1, <2>3, <1>1
  <2>5. Wraps(Wraps(Reach - timer.start) + systemTicks) = age + Reach
    BY <2>4, <1>1 DEF Wraps
  <2>6. softTimer_expired <=> age + Reach > timer.interval BY <1>3, <2>5
  <2> QED BY <2>6, <1>1, <1>3
<1> QED BY <1>2, <1>3

LEMMA SoftStepOfNext == [Next]_vars => SoftStep
BY DEF Next, Clock, Bus, MainLoop, TestClock, ClearClock, TestFrame, ClearFrame, ReadFrame,
       Handlers, UseTimer, vars, softVars, SoftStep

\* A software timer is never late, and early only after the wrap of the count, by at most
\* 65535 ms, whatever the interval (softTimers.c:29-42).
THEOREM SoftTimersSound == Spec => []TimerSound
<1>1. Init => SoftInv
  BY WordAssumption DEF Init, SInit, SoftInv, STypeOK, AgeInv
<1>2. SoftInv /\ [Next]_vars => SoftInv'
  BY SoftStepInv, SoftStepOfNext
<1> QED BY <1>1, <1>2, SoftInvSound, PTL DEF Spec

-----------------------------------------------------------------------------
(* The bus. *)

\* Attempts are counted only while there is something to send.
SentInv == /\ sending => sendActivo # "none"
           /\ sendActivo # "none" => nSent < MaxSent

BusInv == BTypeOK /\ SentInv

\* What the main loop does to the variables of the bus.
LoopOnBus == \/ \E k \in Kinds : Arm(k)
             \/ ClearFrame
             \/ ReadFrame
             \/ UNCHANGED busVars

\* The flags that the loop has read are flags of the bus while it is at a frame.
RegType == punto \in Kinds => reg \subseteq Kinds \cup {"receiving"}

LEMMA BusStepInv ==
    BusInv /\ RegType /\ (LoopOnBus \/ \E p \in BOOLEAN : Analizar(p)) => BusInv'
<1> SUFFICES ASSUME BusInv, RegType, LoopOnBus \/ \E p \in BOOLEAN : Analizar(p)
             PROVE BusInv'
  OBVIOUS
<1> USE KindsAssumption, SentAssumption
    DEF BusInv, BTypeOK, SentInv, Frame, Silence, Broken, sendVars, recVars
<1>1. ASSUME NEW f \in Heard, OtherStarts(f) PROVE BusInv'
  BY <1>1 DEF OtherStarts, Heard
<1>2. ASSUME NEW f \in Heard, OwnFails(f) PROVE BusInv'
  <2> USE <1>2 DEF OwnFails
  <2>0. bus' \in Frame BY DEF Heard
  <2>1. BTypeOK'
    <3>1. nSent' \in 0 .. MaxSent OBVIOUS
    <3>2. sendActivo' \in Kinds \cup {"none"} /\ sending' \in BOOLEAN OBVIOUS
    <3> QED BY <2>0, <3>1, <3>2
  <2>2. SentInv' OBVIOUS
  <2> QED BY <2>1, <2>2
<1>3. CASE OwnStarts
  <2> USE <1>3 DEF OwnStarts, Quiet, Receiving
  <2>1. BTypeOK' OBVIOUS
  <2>2. SentInv' OBVIOUS
  <2> QED BY <2>1, <2>2
<1>4. CASE OwnEnds
  <2> USE <1>4 DEF OwnEnds
  <2>1. BTypeOK' OBVIOUS
  <2>2. SentInv' OBVIOUS
  <2> QED BY <2>1, <2>2
<1>5. CASE FrameEnds BY <1>5 DEF FrameEnds
<1>6. ASSUME NEW p \in BOOLEAN, FrameReceived(p) PROVE BusInv'
  <2> USE <1>6 DEF FrameReceived
  <2>1. received' \subseteq Kinds \cup {"receiving"} OBVIOUS
  <2>2. rec' \in Frame \cup {Silence} BY DEF Layered
  <2>3. wRec' \in Data \cup {"junk"} OBVIOUS
  <2>4. porEntregar' \in Frame \cup {Silence} OBVIOUS
  <2>5. recTarde' \in BOOLEAN OBVIOUS
  <2>6. SentInv' OBVIOUS
  <2> QED BY <2>1, <2>2, <2>3, <2>4, <2>5, <2>6
<1>7. ASSUME NEW k \in Kinds, Arm(k) PROVE BusInv' BY <1>7 DEF Arm
<1>8. CASE ClearFrame BY <1>8 DEF ClearFrame, RegType
<1>9. CASE ReadFrame BY <1>9 DEF ReadFrame
<1>10. CASE UNCHANGED busVars BY <1>10 DEF busVars
<1> QED
  BY <1>1, <1>2, <1>3, <1>4, <1>5, <1>6, <1>7, <1>8, <1>9, <1>10 DEF LoopOnBus, Analizar

-----------------------------------------------------------------------------
(* The frames that the main loop reads. *)

\* At the store the loop has read the flag of the one frame there is, and at the read
\* of the frame no other has come.
StoreInv == paso = "store" /\ punto \in Kinds /\ ~recTarde => reg \cap Kinds = {punto}
ReadInv == paso = "read" /\ ~recTarde => received \cap Kinds = {}
PasoInv == /\ paso \in {"test", "store", "read"}
           /\ paso = "read" => punto \in Kinds

ReadingInv == BusInv /\ RegType /\ PasoInv /\ Faithful /\ StoreInv /\ ReadInv

LEMMA BusOfNext == [Next]_vars => LoopOnBus \/ \E p \in BOOLEAN : Analizar(p)
<1> SUFFICES ASSUME [Next]_vars PROVE LoopOnBus \/ \E p \in BOOLEAN : Analizar(p)
  OBVIOUS
<1>1. CASE Bus
  <2>1. (Pending # {}) \in BOOLEAN OBVIOUS
  <2> QED BY <1>1, <2>1 DEF Bus
<1> QED
  BY <1>1 DEF Next, Clock, MainLoop, TestClock, ClearClock, TestFrame, Handlers, UseTimer, vars,
              LoopOnBus

LEMMA ReadingStep == ReadingInv /\ [Next]_vars => ReadingInv'
<1> SUFFICES ASSUME ReadingInv, [Next]_vars PROVE ReadingInv'
  OBVIOUS
<1>0. BusInv' BY BusStepInv, BusOfNext DEF ReadingInv
<1> USE KindsAssumption
    DEF ReadingInv, RegType, PasoInv, Faithful, StoreInv, ReadInv, Pending, Attended, GoOn, Flags,
        Units, BusInv, BTypeOK, loopVars
<1>1. CASE Clock BY <1>0, <1>1 DEF Clock, busVars, recVars
<1>2. CASE Bus
  <2> UNCHANGED loopVars BY <1>2 DEF Bus
  <2> USE DEF sendVars, recVars, Silence, Frame, Broken
  <2>1. ASSUME NEW f \in Heard, OtherStarts(f) PROVE ReadingInv' BY <1>0, <2>1 DEF OtherStarts
  <2>2. ASSUME NEW f \in Heard, OwnFails(f) PROVE ReadingInv' BY <1>0, <2>2 DEF OwnFails
  <2>3. CASE OwnStarts BY <1>0, <2>3 DEF OwnStarts
  <2>4. CASE OwnEnds BY <1>0, <2>4 DEF OwnEnds
  <2>5. CASE FrameEnds BY <1>0, <2>5 DEF FrameEnds
  <2>6. CASE FrameReceived(Pending # {})
    <3> USE <1>0, <2>6 DEF FrameReceived
    <3>1. CASE recTarde' BY <3>1
    <3>2. CASE ~recTarde' /\ (sending \/ rec.kind = "parity") BY <3>2
    <3>3. CASE ~recTarde' /\ ~sending /\ rec.kind # "parity"
      <4>1. Pending = {} /\ ~recTarde BY <3>3
      <4>2. paso = "test" \/ punto \notin Kinds BY <4>1
      <4>3. CASE rec.kind \in Kinds BY <3>3, <4>1, <4>2, <4>3
      <4>4. CASE rec.kind \notin Kinds BY <3>3, <4>1, <4>2, <4>4
      <4> QED BY <4>3, <4>4
    <3> QED BY <3>1, <3>2, <3>3
  <2> QED BY <1>2, <2>1, <2>2, <2>3, <2>4, <2>5, <2>6 DEF Bus, Analizar
<1>3. CASE TestClock BY <1>0, <1>3 DEF TestClock, busVars, recVars
<1>4. CASE ClearClock BY <1>0, <1>4 DEF ClearClock, busVars, recVars
<1>5. CASE TestFrame BY <1>0, <1>5 DEF TestFrame, busVars, recVars
<1>6. CASE ClearFrame BY <1>0, <1>6 DEF ClearFrame
<1>7. CASE ReadFrame BY <1>0, <1>7 DEF ReadFrame, recVars
<1>8. CASE Handlers BY <1>0, <1>8 DEF Handlers, Arm, busVars, recVars
<1>9. CASE UseTimer BY <1>0, <1>9 DEF UseTimer, busVars, recVars
<1>10. CASE UNCHANGED vars BY <1>0, <1>10 DEF vars, busVars, recVars
<1> QED
  BY <1>1, <1>2, <1>3, <1>4, <1>5, <1>6, <1>7, <1>8, <1>9, <1>10 DEF Next, MainLoop

LEMMA ReadingInit == Init => ReadingInv
<1> SUFFICES ASSUME Init PROVE ReadingInv
  OBVIOUS
<1> USE KindsAssumption, SentAssumption
    DEF Init, BInit, ReadingInv, RegType, PasoInv, Faithful, StoreInv, ReadInv, Pending, Attended
<1>1. nSent \in 0 .. MaxSent BY DEF Init, BInit
<1>2. BTypeOK BY <1>1 DEF BTypeOK
<1>3. SentInv BY DEF SentInv
<1>4. Pending = {} OBVIOUS
<1> QED BY <1>2, <1>3, <1>4 DEF BusInv

\* As long as each frame finds the one before it read, the loop reads every frame once,
\* as it was received and under its kind, although the interrupt may come between the
\* read and the store that clear its flag (mpxh.c:642-652, main.c:215-280).
THEOREM FramesFaithful == Spec => []Faithful
<1>1. ReadingInv => Faithful BY DEF ReadingInv
<1> QED BY ReadingInit, <1>1, ReadingStep, PTL DEF Spec

-----------------------------------------------------------------------------
(* Types. *)

LEMMA AfterKindInKinds == \A p \in Kinds : After(p) \in Kinds \cup {"handlers"}
<1> SUFFICES ASSUME NEW p \in Kinds PROVE After(p) \in Kinds \cup {"handlers"}
  OBVIOUS
<1> DEFINE i == CHOOSE i \in DOMAIN KindOrder : KindOrder[i] = p
<1>1. i \in DOMAIN KindOrder BY OrderAssumption
<1>2. AfterKind(i) \in Kinds \cup {"handlers"}
  <2>1. CASE i = Len(KindOrder) BY <2>1 DEF AfterKind
  <2>2. CASE i # Len(KindOrder)
    <3>1. i + 1 \in DOMAIN KindOrder BY <1>1, <2>2, OrderAssumption
    <3> QED BY <3>1, <2>2, OrderAssumption DEF AfterKind
  <2> QED BY <2>1, <2>2
<1>3. p \notin {"mseg4", "handlers", "seg1", "min1", "hora1"} BY KindsAssumption
<1>4. After(p) = AfterKind(i) BY <1>3 DEF After
<1> QED BY <1>2, <1>4

LEMMA AfterInPoints == \A p \in Points : After(p) \in Points
<1> SUFFICES ASSUME NEW p \in Points PROVE After(p) \in Points
  OBVIOUS
<1>1. FirstKind \in Points BY OrderAssumption DEF FirstKind, Points
<1>2. CASE p \in Kinds BY <1>2, AfterKindInKinds DEF Points
<1>3. CASE p = "mseg4"
  <2>1. After(p) = FirstKind BY <1>3, KindsAssumption DEF After
  <2> QED BY <1>1, <2>1
<1>4. CASE p = "handlers"
  <2>1. After(p) = "seg1" BY <1>4, KindsAssumption DEF After
  <2> QED BY <2>1 DEF Points
<1>5. CASE p = "seg1"
  <2>1. After(p) = "min1" BY <1>5, KindsAssumption DEF After
  <2> QED BY <2>1 DEF Points
<1>6. CASE p = "min1"
  <2>1. After(p) = "hora1" BY <1>6, KindsAssumption DEF After
  <2> QED BY <2>1 DEF Points
<1>7. CASE p = "hora1"
  <2>1. After(p) = "mseg4" BY <1>7, KindsAssumption DEF After
  <2> QED BY <2>1 DEF Points
<1> QED BY <1>2, <1>3, <1>4, <1>5, <1>6, <1>7 DEF Points

LoopType ==
    /\ punto \in Points
    /\ reg \subseteq Flags \cup Kinds \cup {"receiving"}
    /\ punto \in Flags => reg \subseteq Flags
    /\ scenario \in Scenarios

ClockInv == MTypeOK /\ LoopType

LEMMA UpInRange == ASSUME NEW n \in Nat \ {0}, NEW t \in 0 .. n - 1 PROVE Up(t, n) \in 0 .. n - 1
BY DEF Up

LEMMA ClockStep == ClockInv /\ ReadingInv /\ [Next]_vars => ClockInv'
<1> SUFFICES ASSUME ClockInv, ReadingInv, [Next]_vars PROVE ClockInv'
  OBVIOUS
<1>0. received \subseteq Kinds \cup {"receiving"} BY DEF ReadingInv, BusInv, BTypeOK
<1> USE AfterInPoints, KindsAssumption
    DEF ClockInv, MTypeOK, LoopType, GoOn, clockVars, loopVars, Flags, Units, Points
<1>1. CASE Clock
  <2> USE <1>1 DEF Clock
  <2>1. CASE "clock" \notin scenario
    <3>1. timers1' = timers1 \cup {"mseg4"} /\ UNCHANGED <<t1, t2, t3, t4, falta, tickTarde>>
      BY <2>1
    <3> QED BY <3>1 DEF Next, vars
  <2>2. CASE "clock" \in scenario
    <3> tc_callback(punto = "mseg4" /\ paso = "store") BY <2>2
    <3> USE DEF tc_callback
    <3>1. timers1' \subseteq Flags BY DEF Due
    <3>2. /\ t1' \in 0 .. T1 - 1 /\ t2' \in 0 .. T2 - 1
          /\ t3' \in 0 .. T3 - 1 /\ t4' \in 0 .. T4 - 1
      BY UpInRange, DividersAssumption
    <3>3. falta' \in [Units -> Int] OBVIOUS
    <3>4. tickTarde' \in BOOLEAN OBVIOUS
    <3> QED BY <3>1, <3>2, <3>3, <3>4 DEF Next, vars
  <2> QED BY <2>1, <2>2
<1>2. CASE Bus BY <1>2 DEF Bus, Next, vars
<1>3. CASE TestClock BY <1>3, ZenonT(40) DEF TestClock, Next, vars
<1>4. CASE ClearClock
  <2> USE <1>4 DEF ClearClock, Store, Handled
  <2>1. timers1' \subseteq Flags OBVIOUS
  <2>2. falta' \in [Units -> Int] OBVIOUS
  <2>3. LoopType' BY DEF Next, vars
  <2> QED BY <2>1, <2>2, <2>3
<1>5. CASE TestFrame BY <1>0, <1>5, ZenonT(40) DEF TestFrame, Next, vars
<1>6. CASE ClearFrame BY <1>6 DEF ClearFrame, Next, vars
<1>7. CASE ReadFrame BY <1>7 DEF ReadFrame, Next, vars
<1>8. CASE Handlers BY <1>8 DEF Handlers, Next, vars
<1>9. CASE UseTimer BY <1>9 DEF UseTimer, Next, vars
<1>10. CASE UNCHANGED vars BY <1>10 DEF vars
<1> QED
  BY <1>1, <1>2, <1>3, <1>4, <1>5, <1>6, <1>7, <1>8, <1>9, <1>10 DEF Next, MainLoop

LEMMA InitClock == Init => ClockInv
<1> SUFFICES ASSUME Init PROVE ClockInv
  OBVIOUS
<1>1. 0 \in 0 .. T1 - 1 /\ 0 \in 0 .. T2 - 1 /\ 0 \in 0 .. T3 - 1 /\ 0 \in 0 .. T4 - 1
  BY DividersAssumption
<1>2. MTypeOK
  <2>1. falta \in [Units -> Int] BY DEF Init, MInit
  <2>2. timers1 \subseteq Flags BY DEF Init, MInit
  <2> QED BY <1>1, <2>1, <2>2 DEF Init, MInit, MTypeOK
<1>3. LoopType BY DEF Init, LoopType, Points
<1> QED BY <1>2, <1>3 DEF ClockInv

\* Type correctness: in particular the attempts to send never go beyond the limit, and the
\* bytes of flags only ever hold flags of their own.
THEOREM InterruptsTypeCorrect == Spec => []TypeOK
<1>1. Init => SoftInv /\ ClockInv
  <2>1. Init => SoftInv BY WordAssumption DEF Init, SInit, SoftInv, STypeOK, AgeInv
  <2> QED BY <2>1, InitClock
<1>2. Init => ReadingInv BY ReadingInit
<1>3. SoftInv /\ [Next]_vars => SoftInv' BY SoftStepInv, SoftStepOfNext
<1>4. SoftInv /\ ClockInv /\ ReadingInv => TypeOK
  BY DEF TypeOK, SoftInv, ClockInv, ReadingInv, BusInv, LoopType, PasoInv
<1> QED BY <1>1, <1>2, <1>3, <1>4, ReadingStep, ClockStep, PTL DEF Spec

-----------------------------------------------------------------------------
(* The clock.  A 4 ms tick that comes between the read and the store of the flag  *)
(* of a second, a minute or an hour is lost with what it sets, so the proof has to *)
(* say that no second can fall due there: the loop clears at most three such flags *)
(* in a pass, and loses at most one tick at each.                                  *)

\* How far the pass is since the 4 ms were taken.
Rank(p) == IF p = "seg1" THEN 1 ELSE IF p = "min1" THEN 2 ELSE IF p = "hora1" THEN 3
           ELSE IF p = "mseg4" THEN 4 ELSE 0

\* The ticks that may have been lost before the point p of the pass.
Lost(p) == IF Rank(p) = 0 THEN 0 ELSE Rank(p) - 1

Storing == punto \in Flags /\ paso = "store"
UnitsDue == timers1 \cap Units

\* The second has just begun, and the 4 ms that began it are not taken yet.
Fresh == t2 = 0 /\ "mseg4" \in timers1 /\ (Storing => "mseg4" \in reg)

\* The 4 ms that began the second are taken: what is due is still ahead in the pass.
Ahead ==
    /\ \A u \in UnitsDue : Rank(u) >= Rank(punto)
    /\ t2 <= Lost(punto) + (IF "mseg4" \in timers1 THEN 1 ELSE 0)

\* Between the read and the store no flag but that of the 4 ms is set.
StoreKeeps ==
    Storing => /\ punto \in reg
               /\ reg \subseteq timers1
               /\ timers1 \subseteq reg \cup {"mseg4"}

SecondInv ==
    ~tickTarde => /\ StoreKeeps
                  /\ UnitsDue # {} => Fresh \/ Ahead
                  /\ \A u \in Units : falta[u] = IF u \in timers1 THEN 1 ELSE 0

\* Where seconds are at least four ticks long none falls due between a read and a store.
LEMMA NoSecondWhileStoring ==
    ASSUME T2 >= 4, ClockInv, SecondInv, ~tickTarde, UnitsDue # {},
           "mseg4" \notin timers1
    PROVE  "seg1" \notin Due
<1> USE DEF ClockInv, MTypeOK, LoopType
<1>1. Ahead BY DEF SecondInv, Fresh
<1>2. Rank(punto) <= 3
  <2>1. PICK u \in UnitsDue : Rank(u) >= Rank(punto) BY <1>1 DEF Ahead
  <2> QED BY <2>1 DEF UnitsDue, Units, Rank
<1>3. t2 \in Nat /\ t2 <= 2 BY <1>1, <1>2, DividersAssumption DEF Ahead, Lost, Rank
<1> QED BY <1>3, DividersAssumption DEF Due, Flags, Units

LEMMA TickKeepsSeconds ==
    ASSUME T2 >= 4, ClockInv, SecondInv, UNCHANGED loopVars,
           tc_callback(punto = "mseg4" /\ paso = "store")
    PROVE  SecondInv'
<1> SUFFICES ASSUME ~tickTarde' PROVE SecondInv'
  BY DEF SecondInv
<1> USE DEF ClockInv, MTypeOK, LoopType, loopVars
<1>0. ~tickTarde /\ ("mseg4" \in Due => "mseg4" \notin timers1 /\ ~(punto = "mseg4" /\ paso = "store"))
  BY DEF tc_callback
<1>1. timers1' = timers1 \cup Due BY DEF tc_callback
<1>2. Due \cap Units # {} => "seg1" \in Due /\ "mseg4" \in Due
  BY DEF Due, Units, Flags
<1>3. falta' = [u \in Units |-> IF u \in Due THEN falta[u] + 1 ELSE falta[u]]
  BY DEF tc_callback
<1>4. CASE "mseg4" \notin Due
  <2>1. Due = {} BY <1>4 DEF Due, Flags, Units
  <2>2. timers1' = timers1 /\ t2' = t2 BY <1>1, <1>4, <2>1 DEF tc_callback
  <2>3. falta' = falta BY <1>3, <2>1
  <2> QED BY <1>0, <2>2, <2>3 DEF SecondInv, StoreKeeps, Storing, UnitsDue, Fresh, Ahead
<1>5. CASE "mseg4" \in Due /\ "seg1" \notin Due
  <2>1. Due = {"mseg4"} BY <1>2, <1>5 DEF Due, Flags, Units
  <2>2. timers1' = timers1 \cup {"mseg4"} /\ "mseg4" \notin timers1 BY <1>0, <1>1, <1>5, <2>1
  <2>3. t2' = t2 + 1
    <3>1. t2 + 1 < T2 BY <1>5, DividersAssumption DEF Due, Flags, Units
    <3> QED BY <1>5, <3>1, DividersAssumption DEF tc_callback, Up
  <2>4. StoreKeeps' BY <1>0, <2>2 DEF SecondInv, StoreKeeps, Storing
  <2>5. UnitsDue' = UnitsDue BY <2>2 DEF UnitsDue, Units
  <2>6. UnitsDue # {} => Ahead' 
    <3> SUFFICES ASSUME UnitsDue # {} PROVE Ahead'
      OBVIOUS
    <3>1. Ahead BY <1>0, <2>2 DEF SecondInv, Fresh
    <3> QED BY <2>2, <2>3, <2>5, <3>1, DividersAssumption DEF Ahead, Lost, Rank
  <2>7. \A u \in Units : falta'[u] = IF u \in timers1' THEN 1 ELSE 0
    BY <1>0, <1>3, <2>1, <2>2 DEF SecondInv, Units
  <2> QED BY <2>4, <2>5, <2>6, <2>7 DEF SecondInv
<1>6. CASE "seg1" \in Due
  <2>1. "mseg4" \in Due BY <1>2, <1>6 DEF Units
  <2>2. UnitsDue = {} BY <1>0, <1>6, <2>1, NoSecondWhileStoring
  <2>3. ~Storing BY <1>0, <2>1, <2>2 DEF SecondInv, StoreKeeps, Storing, UnitsDue, Flags
  <2>4. t2' = 0
    <3>1. t2 + 1 >= T2 BY <1>6 DEF Due, Flags, Units
    <3> QED BY <2>1, <3>1, DividersAssumption DEF tc_callback, Up
  <2>5. Fresh' /\ StoreKeeps' BY <1>1, <2>1, <2>3, <2>4 DEF Fresh, StoreKeeps, Storing
  <2>6. \A u \in Units : falta'[u] = IF u \in timers1' THEN 1 ELSE 0
    BY <1>0, <1>1, <1>3, <2>2 DEF SecondInv, UnitsDue
  <2> QED BY <2>5, <2>6 DEF SecondInv
<1> QED BY <1>4, <1>5, <1>6

LEMMA SecondStep ==
    T2 >= 4 /\ ClockInv /\ ReadingInv /\ SecondInv /\ [Next]_vars => SecondInv'
<1> SUFFICES ASSUME T2 >= 4, ClockInv, ReadingInv, SecondInv, [Next]_vars, ~tickTarde'
             PROVE  SecondInv'
  BY DEF SecondInv
<1> USE DEF SecondInv
<1>0. PasoInv BY DEF ReadingInv
<1>1. CASE Clock
  <2>1. CASE "clock" \in scenario
    <3>1. tc_callback(punto = "mseg4" /\ paso = "store") BY <1>1, <2>1 DEF Clock
    <3>2. UNCHANGED loopVars BY <1>1 DEF Clock
    <3> QED BY <3>1, <3>2, TickKeepsSeconds
  <2>2. CASE "clock" \notin scenario
    <3>1. /\ timers1' = timers1 \cup {"mseg4"}
          /\ UNCHANGED <<t2, falta, tickTarde, punto, paso, reg>>
      BY <1>1, <2>2 DEF Clock, loopVars
    <3>2. UnitsDue' = UnitsDue BY <3>1 DEF UnitsDue, Units
    <3>3. StoreKeeps' BY <3>1 DEF StoreKeeps, Storing
    <3>4. Fresh => Fresh' BY <3>1 DEF Fresh, Storing
    <3>5. Ahead => Ahead'
      BY <3>1, <3>2, DividersAssumption DEF Ahead, Lost, Rank, ClockInv, MTypeOK
    <3>6. \A u \in Units : falta'[u] = IF u \in timers1' THEN 1 ELSE 0 BY <3>1 DEF Units
    <3> QED BY <3>1, <3>2, <3>3, <3>4, <3>5, <3>6
  <2> QED BY <2>1, <2>2
<1>2. CASE Bus BY <1>2 DEF Bus, clockVars, loopVars, StoreKeeps, Storing, UnitsDue, Fresh, Ahead
<1>3. CASE TestClock
  <2> USE <1>3 DEF TestClock, clockVars
  <2>1. CASE punto \in timers1
    BY <2>1 DEF StoreKeeps, Storing, UnitsDue, Fresh, Ahead
  <2>2. CASE punto \notin timers1
    <3>1. /\ punto' = IF punto = "mseg4" THEN "seg1" ELSE After(punto)
          /\ paso' = "test"
          /\ UNCHANGED <<timers1, t2, falta, tickTarde>>
      BY <2>2 DEF GoOn
    <3>2. StoreKeeps' /\ UnitsDue' = UnitsDue BY <3>1 DEF StoreKeeps, Storing, UnitsDue
    <3>3. Fresh => Fresh' BY <3>1 DEF Fresh, Storing
    <3>4. UnitsDue # {} /\ Ahead => Ahead'
      <4> SUFFICES ASSUME UnitsDue # {}, Ahead PROVE Ahead'
        OBVIOUS
      <4>1. punto # "mseg4" BY DEF Ahead, Rank, UnitsDue, Units
      <4>2. punto \in Units BY <4>1 DEF Flags
      <4>3. punto' = IF punto = "seg1" THEN "min1" ELSE IF punto = "min1" THEN "hora1" ELSE "mseg4"
        BY <3>1, <4>1, <4>2, KindsAssumption DEF After, Units
      <4>4. t2 \in Nat BY DividersAssumption DEF ClockInv, MTypeOK
      <4> QED BY <2>2, <3>1, <4>2, <4>3, <4>4 DEF Ahead, Rank, Lost, UnitsDue, Units
    <3> QED BY <3>1, <3>2, <3>3, <3>4
  <2> QED BY <2>1, <2>2
<1>4. CASE ClearClock
  <2>1. Storing /\ ~tickTarde /\ UNCHANGED <<t2, tickTarde>>
    BY <1>4 DEF ClearClock, Storing, Handled
  <2>2. timers1' = reg \ {punto} /\ punto' = After(punto) /\ paso' = "test" /\ ~Storing'
    BY <1>4 DEF ClearClock, Store, GoOn, Storing
  <2>3. punto \in reg /\ reg \subseteq timers1 /\ timers1 \subseteq reg \cup {"mseg4"}
    BY <2>1 DEF StoreKeeps
  <2>4. UnitsDue' = UnitsDue \ {punto} BY <2>2, <2>3 DEF UnitsDue, Units
  <2>5. \A u \in Units : falta'[u] = IF u \in timers1' THEN 1 ELSE 0
    <3>1. falta \in [Units -> Int] BY DEF ClockInv, MTypeOK
    <3>2. falta' = IF punto \notin Units THEN falta ELSE [falta EXCEPT ![punto] = @ - 1]
      BY <1>4, <2>1 DEF ClearClock, Handled
    <3> QED BY <2>1, <2>2, <2>3, <2>4, <3>1, <3>2 DEF UnitsDue
  <2>6. CASE punto = "mseg4"
    <3>1. UnitsDue # {} => Fresh BY <2>1, <2>6 DEF Ahead, Rank, UnitsDue, Units
    <3>2. Rank(punto') = 0
      <4>1. punto' = FirstKind BY <2>2, <2>6, KindsAssumption DEF After
      <4>2. FirstKind \in Kinds \cup {"handlers"} BY OrderAssumption DEF FirstKind
      <4> QED BY <4>1, <4>2, KindsAssumption DEF Rank
    <3>3. UnitsDue' # {} => Ahead'
      <4>1. \A u : Rank(u) >= 0 BY DEF Rank
      <4> QED BY <2>1, <2>4, <3>1, <3>2, <4>1 DEF Fresh, Ahead, Lost
    <3> QED BY <2>2, <2>5, <3>3 DEF StoreKeeps
  <2>7. CASE punto # "mseg4"
    <3>1. punto \in Units BY <2>1, <2>7 DEF Storing, Flags
    <3>2. punto' = IF punto = "seg1" THEN "min1" ELSE IF punto = "min1" THEN "hora1" ELSE "mseg4"
      BY <2>2, <3>1, KindsAssumption DEF After, Units
    <3>3. Fresh => Fresh' BY <2>1, <2>2, <2>7 DEF Fresh
    <3>4. t2 \in Nat BY DividersAssumption DEF ClockInv, MTypeOK
    <3>5. UnitsDue' # {} /\ Ahead => Ahead'
      <4>1. UnitsDue' # {} => punto # "hora1" \/ ~Ahead
        BY <2>4 DEF Ahead, Rank, UnitsDue, Units
      <4> QED BY <2>1, <2>4, <3>1, <3>2, <3>4, <4>1 DEF Ahead, Rank, Lost, UnitsDue, Units
    <3>6. UnitsDue' # {} => Fresh' \/ Ahead' BY <2>1, <2>4, <3>3, <3>5
    <3> QED BY <2>2, <2>5, <3>6 DEF StoreKeeps
  <2> QED BY <2>6, <2>7
<1>5. ASSUME punto \in Kinds \cup {"handlers"}, UNCHANGED clockVars,
             punto' \in Kinds \cup {"handlers"} \/ (punto' = "seg1" /\ paso' = "test")
      PROVE  SecondInv'
  <2>1. Rank(punto) = 0 /\ Lost(punto) = 0 BY <1>5, KindsAssumption DEF Rank, Lost
  <2>2. Rank(punto') <= 1 /\ Lost(punto') = 0 /\ \A u \in Units : Rank(u) >= Rank(punto')
    BY <1>5, KindsAssumption DEF Rank, Lost, Units
  <2>3. ~Storing /\ ~Storing' BY <1>5, KindsAssumption, <2>2 DEF Storing, Flags, Units
  <2> QED BY <1>5, <2>1, <2>2, <2>3 DEF clockVars, StoreKeeps, UnitsDue, Fresh, Ahead
<1>6. punto \in Kinds => After(punto) \in Kinds \cup {"handlers"}
  BY AfterKindInKinds
<1>7. CASE TestFrame
  <2>1. CASE punto \in received BY <1>5, <1>7, <2>1 DEF TestFrame
  <2>2. CASE punto \notin received BY <1>5, <1>6, <1>7, <2>2 DEF TestFrame, GoOn
  <2> QED BY <2>1, <2>2
<1>8. CASE ClearFrame
  <2>1. UNCHANGED clockVars /\ UNCHANGED punto BY <1>8 DEF ClearFrame, clockVars
  <2> QED BY <1>5, <1>8, <2>1 DEF ClearFrame
<1>9. CASE ReadFrame BY <1>5, <1>6, <1>9 DEF ReadFrame, GoOn
<1>10. CASE Handlers BY <1>5, <1>10, KindsAssumption DEF Handlers, GoOn, After
<1>11. CASE UseTimer
  BY <1>11 DEF UseTimer, clockVars, loopVars, StoreKeeps, Storing, UnitsDue, Fresh, Ahead
<1>12. CASE UNCHANGED vars
  BY <1>12 DEF vars, clockVars, loopVars, StoreKeeps, Storing, UnitsDue, Fresh, Ahead
<1> QED
  BY <1>1, <1>2, <1>3, <1>4, <1>7, <1>8, <1>9, <1>10, <1>11, <1>12 DEF Next, MainLoop

\* Where a second lasts at least four ticks of 4 ms (250 in mainTimer.c), none is lost,
\* nor a minute nor an hour, although the interrupt may come between the read and the
\* store that clear its flag (mainTimer.c:70-74): what such a store can lose is the next
\* tick of 4 ms, and each is lost only after the loop took the one before.
THEOREM NoSecondLost == T2 >= 4 => (Spec => []SecondsKept)
<1> SUFFICES ASSUME T2 >= 4 PROVE Spec => []SecondsKept
  OBVIOUS
<1>1. Init => ClockInv BY InitClock
<1>2. Init => SecondInv
  BY DEF Init, MInit, SecondInv, StoreKeeps, Storing, UnitsDue
<1>3. SecondInv => SecondsKept BY DEF SecondInv, SecondsKept
<1> QED BY <1>1, <1>2, <1>3, ReadingInit, ReadingStep, ClockStep, SecondStep, PTL DEF Spec
=============================================================================

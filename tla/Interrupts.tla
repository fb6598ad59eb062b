----------------------------- MODULE Interrupts -----------------------------
(* The main loop (main.c) against the timer interrupt: the flags of the clock   *)
(* and of the bus, that the interrupt sets and the loop clears by reading a     *)
(* byte and storing it back, with the interrupt in between.                     *)
EXTENDS MainTimer, SoftTimers, Mpxh, Sequences

CONSTANTS
    KindOrder,    \* the order in which the loop looks at the kinds of frame
    Scenarios     \* the parts that are on: "bus", "clock", "timer"

ASSUME OrderAssumption ==
    KindOrder \in Seq(Kinds) /\ Kinds = {KindOrder[i] : i \in DOMAIN KindOrder}
ASSUME ScenariosAssumption == Scenarios \subseteq SUBSET {"bus", "clock", "timer"}

VARIABLES
    punto,      \* the flag, or the part, of the pass that the loop is at
    paso,       \* "test", "store" after the read of the byte, "read" of the frame
    reg,        \* the byte that has been read
    scenario    \* the parts that are on in this behaviour

loopVars == <<punto, paso, reg>>
vars == <<softVars, clockVars, busVars, loopVars, scenario>>

Points == {"mseg4", "handlers", "seg1", "min1", "hora1"} \cup Kinds

TypeOK ==
    /\ STypeOK /\ MTypeOK /\ BTypeOK
    /\ punto \in Points
    /\ paso \in {"test", "store", "read"}
    /\ reg \subseteq Flags \cup Kinds \cup {"receiving"}
    /\ scenario \in Scenarios

Init ==
    /\ SInit /\ MInit /\ BInit
    /\ punto = "mseg4" /\ paso = "test" /\ reg = {}
    /\ scenario \in Scenarios

\* Where the pass goes on after the point p.
FirstKind == IF KindOrder = <<>> THEN "handlers" ELSE KindOrder[1]
AfterKind(i) == IF i = Len(KindOrder) THEN "handlers" ELSE KindOrder[i + 1]
After(p) ==
    CASE p = "mseg4" -> FirstKind
      [] p \in Kinds -> AfterKind(CHOOSE i \in DOMAIN KindOrder : KindOrder[i] = p)
      [] p = "handlers" -> "seg1"
      [] p = "seg1" -> "min1"
      [] p = "min1" -> "hora1"
      [] p = "hora1" -> "mseg4"

GoOn(p) == punto' = p /\ paso' = "test" /\ reg' = {}

\* The frame whose flag the loop has seen and that it has not read yet.
Attended == IF punto \in Kinds /\ paso # "test" THEN {punto} ELSE {}
Pending == (received \cap Kinds) \cup Attended

-----------------------------------------------------------------------------
(* The interrupt. *)

\* tc_callback.  Without the part "clock" only the 4 ms within a second are told apart.
Clock ==
    /\ IF "clock" \in scenario
       THEN tc_callback(punto = "mseg4" /\ paso = "store")
       ELSE timers1' = timers1 \cup {"mseg4"} /\ UNCHANGED <<t1, t2, t3, t4, falta, tickTarde>>
    /\ IF "timer" \in scenario THEN softTimer_handler ELSE UNCHANGED softVars
    /\ UNCHANGED <<busVars, loopVars>>

Bus ==
    /\ "bus" \in scenario
    /\ Analizar(Pending # {})
    /\ UNCHANGED <<softVars, clockVars, loopVars>>

-----------------------------------------------------------------------------
(* The main loop. *)

\* mainTimer_expired, and the read of maintTimer_clearExpired.  Frames and handlers
\* have their turn only every 4 ms.
TestClock ==
    /\ punto \in Flags /\ paso = "test"
    /\ IF punto \in timers1
       THEN paso' = "store" /\ reg' = timers1 /\ UNCHANGED punto
       ELSE GoOn(IF punto = "mseg4" THEN "seg1" ELSE After(punto))
    /\ UNCHANGED <<softVars, clockVars, busVars>>

ClearClock ==
    /\ punto \in Flags /\ paso = "store"
    /\ Store(punto, reg)
    /\ Handled(punto)
    /\ GoOn(After(punto))
    /\ UNCHANGED <<softVars, t1, t2, t3, t4, tickTarde, busVars>>

\* mpxh_recibio, and the read of mpxh_clearRecFlag.
TestFrame ==
    /\ punto \in Kinds /\ paso = "test"
    /\ IF punto \in received
       THEN paso' = "store" /\ reg' = received /\ UNCHANGED punto
       ELSE GoOn(After(punto))
    /\ UNCHANGED <<softVars, clockVars, busVars>>

\* The store: receiving goes back to what it was at the read.
ClearFrame ==
    /\ punto \in Kinds /\ paso = "store"
    /\ received' = reg \ {punto}
    /\ paso' = "read"
    /\ reg' = {}
    /\ UNCHANGED <<softVars, clockVars, rec, wRec, bus, sendVars, porEntregar, recTarde, punto>>

\* mpxh_getRecibido: the frame is handed over.
ReadFrame ==
    /\ punto \in Kinds /\ paso = "read"
    /\ porEntregar' = Silence
    /\ GoOn(After(punto))
    /\ UNCHANGED <<softVars, clockVars, recVars, bus, sendVars, recTarde>>

\* The handlers of the pass, which may have something to send.
Handlers ==
    /\ punto = "handlers"
    /\ \/ "bus" \in scenario /\ \E k \in Kinds : Arm(k)
       \/ UNCHANGED busVars
    /\ GoOn(After(punto))
    /\ UNCHANGED <<softVars, clockVars>>

\* A state machine starts, restarts or stops its timer, somewhere in the pass.
UseTimer ==
    /\ "timer" \in scenario
    /\ \/ \E i \in Intervals : softTimer_init(i)
       \/ softTimer_restart
       \/ softTimer_stop
    /\ UNCHANGED <<clockVars, busVars, loopVars>>

-----------------------------------------------------------------------------
MainLoop == TestClock \/ ClearClock \/ TestFrame \/ ClearFrame \/ ReadFrame \/ Handlers \/ UseTimer

Next == (Clock \/ Bus \/ MainLoop) /\ UNCHANGED scenario

Spec == Init /\ [][Next]_vars

\* The interrupt always comes, frames end, and the bus is not taken by others for ever.
FairSpec ==
    /\ Spec
    /\ WF_vars(Bus /\ (FrameEnds \/ FrameReceived(Pending # {}) \/ OwnEnds) /\ UNCHANGED scenario)
    /\ SF_vars(Bus /\ OwnStarts /\ UNCHANGED scenario)

-----------------------------------------------------------------------------
(* Properties. *)

\* No second, minute or hour is lost, although its flag is cleared by a read and a store
\* that the interrupt may come between, as long as every 4 ms tick finds the one before
\* it taken by the loop: then each is handled, or waits for it, exactly once.
SecondsKept ==
    ~tickTarde => \A u \in Units : falta[u] = IF u \in timers1 THEN 1 ELSE 0

\* As long as each frame finds the one before it read, the loop reads exactly the frame
\* that was received, under its kind, and none twice, whatever the clearing of its flag
\* does to the flag receiving.
Faithful ==
    ~recTarde =>
        IF porEntregar = Silence THEN Pending = {}
        ELSE Pending = {porEntregar.kind} /\ wRec = porEntregar.data

\* A message that is armed leaves the transmitter, sent or given up, whatever the other
\* nodes do: mpxh_Ocupado, on which every sender waits, does not last for ever.
EveryMessageLeaves == sendActivo # "none" ~> sendActivo = "none"
=============================================================================

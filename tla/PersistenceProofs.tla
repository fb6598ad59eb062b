------------------------- MODULE PersistenceProofs -------------------------
(***************************************************************************)
(* Proofs about Persistence, for a queue of any length, any automations,   *)
(* any values, any value that pga_saveRAM may find in i, any cells that    *)
(* its writes may land on, and any number of commands and of power cuts:   *)
(* the type invariant, that the queue counts right where it comes round,   *)
(* and that a setting that is not in the EEPROM is pending, or among those *)
(* that have been lost.                                                    *)
(*                                                                         *)
(* The strengthening says three more things.  A device that has not read   *)
(* its configuration has nothing to report, nobody at its menu and no save *)
(* running, so that the pass that reads it cannot be skipped and finds     *)
(* what the EEPROM held at power up.  Whoever saves the flag has it in RAM *)
(* with the value that makes a start read the EEPROM.  And while a reset   *)
(* is still to be made, it is what was asked for last of each cell but     *)
(* those lost, which is what lets the defaults serve it.                   *)
(***************************************************************************)
EXTENDS Persistence, Integers, TLAPS

Quiet == ~Booted => errores = "no" /\ ~enProgramacion /\ ~saving /\ orden = eeprom

FlagIsDefault ==
    /\ \A e \in Positions : "flag" \in queue[e] => pga["flag"] = "default"
    /\ \A k \in DOMAIN llamadas : "flag" \in llamadas[k] => pga["flag"] = "default"

ResetIsLast ==
    fullResetRequested => \A c \in Kept \ perdidas : orden[c] = "default"

IInv ==
    /\ TypeOK
    /\ QueueHoldsPending
    /\ SavedOrPending
    /\ Quiet
    /\ FlagIsDefault
    /\ ResetIsLast

----------------------------------------------------------------------------
\* pga_enqueueSave adds its entry to the pending ones and touches no other,
\* unless the queue becomes as full as it is long.
LEMMA EnqueueAdds ==
    ASSUME TypeOK, EnqueueSave, Distance + 1 < SaveQueueLength
    PROVE  /\ EntriesPending' = EntriesPending \cup {queueIn}
           /\ queueIn \notin EntriesPending
           /\ Distance' = Distance + 1
<1> USE QueueAssumption
<1>1. /\ queueIn \in 0 .. SaveQueueLength - 1
      /\ queueOut \in 0 .. SaveQueueLength
      /\ queueIn' = IF queueIn + 1 >= SaveQueueLength THEN 0 ELSE queueIn + 1
      /\ queueOut' = queueOut
    BY DEF TypeOK, Positions, EnqueueSave, Wrap
<1>2. Distance' = Distance + 1
    BY <1>1 DEF Distance, Start
<1>3. queueIn \notin EntriesPending
    BY <1>1 DEF EntriesPending, Start
<1>4. EntriesPending' = EntriesPending \cup {queueIn}
  <2> DEFINE out == Start(queueOut)
  <2>0. /\ out \in 0 .. SaveQueueLength - 1
        /\ out' = out
        /\ Distance = IF out <= queueIn THEN queueIn - out ELSE queueIn + SaveQueueLength - out
        /\ EntriesPending = IF out <= queueIn
                             THEN out .. queueIn - 1
                             ELSE (out .. SaveQueueLength - 1) \cup (0 .. queueIn - 1)
        /\ EntriesPending' = IF out <= queueIn'
                              THEN out .. queueIn' - 1
                              ELSE (out .. SaveQueueLength - 1) \cup (0 .. queueIn' - 1)
      BY <1>1 DEF EntriesPending, Distance, Start
  <2>2. EntriesPending \subseteq Int /\ EntriesPending' \subseteq Int
      BY <1>1, <2>0
  <2> HIDE DEF out
  <2>1. ASSUME NEW e \in Int PROVE e \in EntriesPending' <=> e \in EntriesPending \/ e = queueIn
    <3>1. CASE out <= queueIn /\ queueIn + 1 < SaveQueueLength
        BY <1>1, <2>0, <3>1
    <3>2. CASE out <= queueIn /\ queueIn + 1 >= SaveQueueLength
        BY <1>1, <2>0, <3>2
    <3>3. CASE ~(out <= queueIn)
        BY <1>1, <2>0, <3>3
    <3>4. QED
        BY <1>1, <2>0, <3>1, <3>2, <3>3
  <2>3. queueIn \in Int
      BY <1>1
  <2>4. EntriesPending' \subseteq EntriesPending \cup {queueIn}
      BY <2>1, <2>2
  <2>5. EntriesPending \cup {queueIn} \subseteq EntriesPending'
      BY <2>1, <2>2, <2>3
  <2>6. QED
      BY <2>4, <2>5
<1>5. QED
    BY <1>2, <1>3, <1>4

\* A turn of the loop of pga_saveRAM serves one pending entry, the one at the
\* position that it has come round to.
LEMMA TurnServesOne ==
    ASSUME TypeOK, SaveEntry
    PROVE  /\ EntriesPending \subseteq EntriesPending' \cup {Start(queueOut)}
           /\ Start(queueOut) \in Positions
           /\ Distance' = Distance - 1
           /\ Distance \in Nat \ {0}
<1> USE QueueAssumption
<1>1. /\ queueIn \in 0 .. SaveQueueLength - 1
      /\ queueOut \in 0 .. SaveQueueLength
      /\ queueIn' = queueIn
      /\ queueIn # queueOut
      /\ queueIn # Start(queueOut)
      /\ queueOut' = Start(queueOut) + 1
    BY DEF TypeOK, Positions, SaveEntry
<1>2. Distance' = Distance - 1 /\ Distance \in Nat \ {0}
    BY <1>1 DEF Distance, Start
<1>3. Start(queueOut) \in Positions
    BY <1>1 DEF Start, Positions
<1>4. ASSUME NEW e \in Int, e \in EntriesPending
      PROVE  e \in EntriesPending' \/ e = Start(queueOut)
    BY <1>1, <1>4 DEF EntriesPending, Start
<1>5. EntriesPending \subseteq Int
    BY <1>1 DEF EntriesPending, Start
<1>6. QED
    BY <1>2, <1>3, <1>4, <1>5

\* The end of the loop leaves the queue as it is, with queueOut come round.
LEMMA EndKeepsQueue ==
    ASSUME TypeOK, EndSave
    PROVE  /\ EntriesPending' = EntriesPending
           /\ Distance' = Distance
           /\ queueOut' \in Positions
<1> USE QueueAssumption
<1>1. /\ queueIn \in 0 .. SaveQueueLength - 1
      /\ queueOut \in 0 .. SaveQueueLength
      /\ queueIn' = queueIn
      /\ queueOut' = Start(queueOut)
    BY DEF TypeOK, Positions, EndSave, Start
<1>2. Start(queueOut)' = Start(queueOut) /\ queueOut' \in Positions
    BY <1>1 DEF Start, Positions
<1>3. QED
    BY <1>1, <1>2 DEF Distance, EntriesPending

----------------------------------------------------------------------------
LEMMA InitIInv == Init => IInv
<1> SUFFICES ASSUME Init PROVE IInv
    OBVIOUS
<1>1. TypeOK
  <2>1. FsmTypeOK
      BY DEF Init, PowerUp, FsmPowerUp, FsmTypeOK, States, Errores
  <2>2. /\ eeprom \in [Cells -> Values] /\ pga \in [Cells -> Values] /\ orden \in [Cells -> Values]
        /\ queue \in [Positions -> SUBSET Cells] /\ perdidas \subseteq Cells
      BY DEF Init, PowerUp, Values
  <2>3. queueIn \in Positions /\ queueOut \in 0 .. SaveQueueLength
      BY QueueAssumption DEF Init, PowerUp, Positions
  <2>4. QED
      BY <2>1, <2>2, <2>3 DEF Init, PowerUp, TypeOK
<1>2. QueueHoldsPending
    BY QueueAssumption DEF Init, PowerUp, QueueHoldsPending, Distance, Start
<1>3. SavedOrPending /\ Quiet
    BY DEF Init, PowerUp, FsmPowerUp, SavedOrPending, Booted, Quiet
<1>5. FlagIsDefault /\ ResetIsLast
    BY DEF Init, PowerUp, FlagIsDefault, ResetIsLast, Positions
<1>4. QED
    BY <1>1, <1>2, <1>3, <1>5 DEF IInv

\* What the handlers ask for is a sequence of sets of cells.
LEMMA DefaultSavesTyped == DefaultSaves \in Seq(SUBSET Cells)
<1>1. /\ {"flag"} \in SUBSET Cells /\ {"nombre"} \in SUBSET Cells /\ Units \in SUBSET Cells
      /\ {"port"} \in SUBSET Cells /\ {"url"} \in SUBSET Cells
    BY DEF Cells, Fixed
<1>2. QED
    BY <1>1 DEF DefaultSaves

LEMMA CambiaTyped ==
    ASSUME TypeOK, NEW cells, NEW v \in Settings \cup {"default"}, NEW saves \in Seq(SUBSET Cells),
           Cambia(cells, v, saves)
    PROVE  TypeOK'
<1>1. /\ pga' \in [Cells -> Values] /\ pedidos' \in Nat
      /\ orden' \in [Cells -> Values] /\ perdidas' \subseteq Cells
    BY DEF Cambia, TypeOK, Values
<1>2. QED
    BY <1>1 DEF Cambia, TypeOK, FsmTypeOK, fsmVars

\* What is pending is in entries of the queue.
LEMMA EntriesArePositions ==
    ASSUME TypeOK
    PROVE  EntriesPending \subseteq Positions
<1>1. queueIn \in 0 .. SaveQueueLength - 1 /\ Start(queueOut) \in 0 .. SaveQueueLength - 1
    BY QueueAssumption DEF TypeOK, Positions, Start
<1>2. QED
    BY <1>1, QueueAssumption DEF EntriesPending, Positions

\* Types: an action gives its variables values of their types.
LEMMA TypeStep ==
    ASSUME IInv, [Next]_vars
    PROVE  TypeOK'
<1> USE QueueAssumption DEF IInv
<1>1. CASE EnqueueSave
  <2>1. llamadas' \in Seq(SUBSET Cells) /\ Head(llamadas) \in SUBSET Cells
      BY <1>1 DEF EnqueueSave, TypeOK
  <2>2. queue' \in [Positions -> SUBSET Cells]
      BY <1>1, <2>1 DEF EnqueueSave, TypeOK
  <2>5. queueIn' \in Positions
      BY <1>1 DEF EnqueueSave, TypeOK, Positions, Wrap
  <2>3. pendientes' \in Nat /\ desborde' \in BOOLEAN
      BY <1>1 DEF EnqueueSave, TypeOK
  <2>4. QED
      BY <1>1, <2>1, <2>2, <2>3, <2>5 DEF EnqueueSave, TypeOK, FsmTypeOK, fsmVars
<1>2. CASE InitDevice
  <2>1. pga' \in [Cells -> Values]
      BY <1>2 DEF InitDevice, TypeOK, Defaults, Values
  <2>2. llamadas' \in Seq(SUBSET Cells)
    <3>1. CASE Formatted
        BY <1>2, <3>1 DEF InitDevice
    <3>2. CASE ~Formatted
        BY <1>2, <3>2, DefaultSavesTyped DEF InitDevice
    <3>3. QED
        BY <3>1, <3>2
  <2>3. FsmTypeOK'
      BY <1>2 DEF InitDevice, EnterInit, Stay, TypeOK, FsmTypeOK, States
  <2>5. orden' \in [Cells -> Values]
      BY <1>2 DEF InitDevice, TypeOK, Defaults, Values
  <2>6. perdidas' \subseteq Cells
    <3>1. CellsPending \subseteq Cells
        BY EntriesArePositions DEF CellsPending, TypeOK
    <3>2. QED
        BY <1>2, <3>1 DEF InitDevice, TypeOK
  <2>4. QED
      BY <1>2, <2>1, <2>2, <2>3, <2>5, <2>6 DEF InitDevice, TypeOK
<1>3. CASE Fsm
  <2>1. FsmTypeOK'
      BY <1>3, FallasAssumption DEF Fsm, FsmPass, Falla, ToError, ToProgramacion,
         LeaveInit, ConexionCambia,
                  LeaveProgramacion, EnterState, GotoState, Stay, TypeOK, FsmTypeOK, States,
                  Vigilados, Errores
  <2>2. QED
      BY <1>3, <2>1 DEF Fsm, TypeOK, pgaVars, historia
<1>4. CASE Menu
  <2>1. FsmTypeOK' /\ pedidos' \in Nat
      BY <1>4 DEF Menu, CambiaProgramacion, TypeOK, FsmTypeOK
  <2>2. QED
      BY <1>4, <2>1 DEF Menu, TypeOK, pgaVars
<1>5. CASE SetSomething
  <2>1. /\ {"nombre"} \in SUBSET Cells /\ {"retardo8"} \in SUBSET Cells
        /\ {"port"} \in SUBSET Cells /\ {"url"} \in SUBSET Cells
      BY DEF Cells, Fixed
  <2>2. PICK v \in Settings \cup {"default"} :
          \/ SetNombre(v)
          \/ \E c \in {"nombre", "retardo8"} : SetRetardo(c, v)
          \/ SetBroker(v)
          \/ \E us \in UnitLists : SetUnits(us, v)
      BY <1>5 DEF SetSomething, SetConfiguration, SetSomeUnits
  <2>3. CASE SetNombre(v)
    <3>1. << {"nombre"} >> \in Seq(SUBSET Cells)
        BY <2>1
    <3>2. QED
        BY <2>3, <3>1, CambiaTyped DEF SetNombre
  <2>4. CASE \E c \in {"nombre", "retardo8"} : SetRetardo(c, v)
    <3>1. PICK c \in {"nombre", "retardo8"} : SetRetardo(c, v)
        BY <2>4
    <3>2. << {c} >> \in Seq(SUBSET Cells)
        BY <2>1, <3>1
    <3>3. QED
        BY <3>1, <3>2, CambiaTyped DEF SetRetardo
  <2>5. CASE SetBroker(v)
    <3>1. << {"port"}, {"url"} >> \in Seq(SUBSET Cells)
        BY <2>1
    <3>2. QED
        BY <2>5, <3>1, CambiaTyped DEF SetBroker
  <2>6. CASE \E us \in UnitLists : SetUnits(us, v)
    <3>1. PICK us \in UnitLists : SetUnits(us, v)
        BY <2>6
    <3>2. PICK n \in 1 .. UnitsPerMessage : us \in [1 .. n -> Units]
        BY DEF UnitLists
    <3>3. [k \in DOMAIN us |-> {us[k]}] \in Seq(SUBSET Cells)
        BY <3>2, BoundsAssumption DEF Cells
    <3>4. QED
        BY <3>1, <3>3, CambiaTyped DEF SetUnits
  <2>7. QED
      BY <2>2, <2>3, <2>4, <2>5, <2>6
<1>6. CASE ResetAll
  <2>1. orden' \in [Cells -> Values] /\ pedidos' \in Nat
      BY <1>6 DEF ResetAll, Defaults, Values, TypeOK
  <2>2. QED
      BY <1>6, <2>1 DEF ResetAll, TypeOK, FsmTypeOK, fsmVars
<1>7. CASE BeginSave
  <2>1. stray' \in Nat
      BY <1>7, StrayAssumption DEF BeginSave
  <2>3. pedidos' \in Nat
      BY <1>7 DEF BeginSave, TypeOK
  <2>2. QED
      BY <1>7, <2>1, <2>3 DEF BeginSave, TypeOK, FsmTypeOK, fsmVars
<1>8. CASE SaveEntry
  <2>1. eeprom' \in [Cells -> Values] /\ perdidas' \subseteq Cells
    <3>1. queue[Start(queueOut)] \subseteq Cells
        BY <1>8, TurnServesOne DEF TypeOK
    <3>2. Write(queue[Start(queueOut)])
        BY <1>8 DEF SaveEntry
    <3>3. QED
        BY <3>1, <3>2, StrayAssumption DEF Write, TypeOK, Values
  <2>2. queueOut' \in 0 .. SaveQueueLength
      BY <1>8, TurnServesOne DEF SaveEntry, Positions
  <2>3. pendientes' \in Nat
      BY <1>8, TurnServesOne DEF SaveEntry, TypeOK, QueueHoldsPending
  <2>4. QED
      BY <1>8, <2>1, <2>2, <2>3 DEF SaveEntry, TypeOK, FsmTypeOK, fsmVars
<1>9. CASE EndSave
  <2>1. queueOut' \in 0 .. SaveQueueLength
      BY <1>9, QueueAssumption, EndKeepsQueue DEF Positions
  <2>2. QED
      BY <1>9, <2>1 DEF EndSave, TypeOK, FsmTypeOK, fsmVars, historia
<1>10. CASE SaveDefaults
  <2>1. /\ pga' \in [Cells -> Values] /\ llamadas' \in Seq(SUBSET Cells)
        /\ perdidas' \subseteq Cells
      BY <1>10, DefaultSavesTyped DEF SaveDefaults, Defaults, Values, TypeOK
  <2>2. QED
      BY <1>10, <2>1 DEF SaveDefaults, TypeOK, FsmTypeOK, fsmVars
<1>11. CASE PowerCut
  <2>1. FsmTypeOK'
      BY <1>11 DEF PowerCut, FsmPowerCut, FsmTypeOK, States, Errores
  <2>2. pga' \in [Cells -> Values] /\ queue' \in [Positions -> SUBSET Cells]
      BY <1>11 DEF PowerCut, Values
  <2>3. queueIn' \in Positions /\ queueOut' \in 0 .. SaveQueueLength
      BY <1>11 DEF PowerCut, Positions
  <2>4. llamadas' \in Seq(SUBSET Cells)
      BY <1>11 DEF PowerCut
  <2>5. fullResetRequested' \in BOOLEAN /\ saving' \in BOOLEAN /\ desborde' \in BOOLEAN
      BY <1>11 DEF PowerCut
  <2>6. stray' \in Nat /\ pendientes' \in Nat /\ pedidos' \in Nat /\ cortes' \in Nat
      BY <1>11 DEF PowerCut, TypeOK
  <2>7. eeprom' \in [Cells -> Values] /\ orden' \in [Cells -> Values] /\ perdidas' \subseteq Cells
      BY <1>11 DEF PowerCut, TypeOK
  <2>8. QED
      BY <2>1, <2>2, <2>3, <2>4, <2>5, <2>6, <2>7 DEF TypeOK
<1>12. CASE UNCHANGED vars
    BY <1>12 DEF vars, fsmVars, pgaVars, historia, TypeOK, FsmTypeOK
<1>13. QED
    BY <1>1, <1>2, <1>3, <1>4, <1>5, <1>6, <1>7, <1>8, <1>9, <1>10, <1>11, <1>12 DEF Next

----------------------------------------------------------------------------
\* The queue counts right after each step.
LEMMA QueueStep ==
    ASSUME IInv, [Next]_vars
    PROVE  QueueHoldsPending'
<1> USE QueueAssumption DEF IInv
<1>0. TypeOK /\ QueueHoldsPending
    OBVIOUS
<1>1. CASE EnqueueSave
  <2>1. ASSUME ~desborde' PROVE Distance' = pendientes'
    <3>1. ~desborde /\ Distance = pendientes /\ pendientes \in Nat /\ ~(pendientes + 1 >= SaveQueueLength)
        BY <1>0, <1>1, <2>1 DEF EnqueueSave, QueueHoldsPending, TypeOK
    <3>2. Distance + 1 < SaveQueueLength
        BY <3>1
    <3>3. pendientes' = pendientes + 1
        BY <1>1, <3>1 DEF EnqueueSave
    <3>4. QED
        BY <1>0, <1>1, <3>1, <3>2, <3>3, EnqueueAdds
  <2>2. queueOut' = SaveQueueLength => saving'
      BY <1>0, <1>1 DEF EnqueueSave, QueueHoldsPending
  <2>3. QED
      BY <2>1, <2>2 DEF QueueHoldsPending
<1>2. CASE SaveEntry
  <2>1. ASSUME ~desborde' PROVE Distance' = pendientes'
    <3>1. ~desborde /\ pendientes' = pendientes - 1
        BY <1>2, <2>1 DEF SaveEntry
    <3>2. Distance' = Distance - 1 /\ Distance = pendientes
        BY <1>0, <1>2, <3>1, TurnServesOne DEF QueueHoldsPending
    <3>3. QED
        BY <3>1, <3>2
  <2>2. saving'
      BY <1>2 DEF SaveEntry
  <2>3. QED
      BY <2>1, <2>2 DEF QueueHoldsPending
<1>3. CASE EndSave
  <2>1. desborde' = desborde /\ pendientes' = pendientes
      BY <1>3 DEF EndSave, historia
  <2>2. queueOut' # SaveQueueLength
      BY <1>0, <1>3, EndKeepsQueue DEF Positions
  <2>3. QED
      BY <1>0, <1>3, <2>1, <2>2, EndKeepsQueue DEF QueueHoldsPending
<1>4. CASE PowerCut
    BY <1>4 DEF PowerCut, QueueHoldsPending, Distance, Start
<1>5. CASE \/ InitDevice \/ Fsm \/ Menu \/ SetSomething \/ ResetAll \/ BeginSave
           \/ SaveDefaults \/ UNCHANGED vars
  <2>1. /\ UNCHANGED <<queueIn, queueOut, pendientes, desborde>>
        /\ saving => saving'
      BY <1>5 DEF InitDevice, Fsm, Menu, SetSomething, SetConfiguration, SetSomeUnits,
         SetNombre, SetRetardo, SetBroker,
         SetUnits, Cambia, ResetAll, BeginSave, SaveDefaults, vars, pgaVars, historia, fsmVars
  <2>2. QED
      BY <1>0, <2>1 DEF QueueHoldsPending, Distance, Start
<1>6. QED
    BY <1>1, <1>2, <1>3, <1>4, <1>5 DEF Next

\* Only the pass that reads the configuration makes a device booted.
LEMMA BootedStep ==
    ASSUME IInv, [Next]_vars, ~InitDevice, Booted'
    PROVE  Booted
<1>1. CASE Fsm
    BY <1>1 DEF Fsm, FsmPass, Falla, ToError, ToProgramacion, LeaveInit, ConexionCambia,
       LeaveProgramacion, EnterState, IInv, Quiet, Booted, Vigilados
<1>2. CASE Menu
    BY <1>2 DEF Menu
<1>3. CASE PowerCut
    BY <1>3 DEF PowerCut, FsmPowerCut, Booted
<1>4. CASE \/ EnqueueSave \/ SetSomething \/ ResetAll \/ BeginSave \/ SaveEntry \/ EndSave
           \/ SaveDefaults \/ UNCHANGED vars
  <2>1. UNCHANGED <<fsmState, fsmState_previous, stateIn>>
      BY <1>4 DEF EnqueueSave, SetSomething, SetConfiguration, SetSomeUnits, SetNombre,
         SetRetardo, SetBroker, SetUnits,
         Cambia, ResetAll, BeginSave, SaveEntry, EndSave, SaveDefaults, vars, fsmVars
  <2>2. QED
      BY <2>1 DEF Booted
<1>5. QED
    BY <1>1, <1>2, <1>3, <1>4 DEF Next

\* And only a power cut undoes that.
LEMMA StaysBooted ==
    ASSUME [Next]_vars, ~PowerCut, Booted \/ InitDevice
    PROVE  Booted'
<1>1. CASE Fsm
    BY <1>1 DEF Fsm, FsmPass, Falla, ToError, ToProgramacion, LeaveInit, ConexionCambia,
       LeaveProgramacion, EnterState, GotoState, Stay, Booted, InitDevice, EnterInit,
       Vigilados
<1>2. CASE InitDevice
    BY <1>2 DEF InitDevice, EnterInit, Stay, Booted
<1>3. CASE /\ Booted
           /\ \/ EnqueueSave \/ Menu \/ SetSomething \/ ResetAll \/ BeginSave \/ SaveEntry
              \/ EndSave \/ SaveDefaults \/ UNCHANGED vars
  <2>1. UNCHANGED <<fsmState, fsmState_previous, stateIn>>
      BY <1>3 DEF EnqueueSave, Menu, CambiaProgramacion, SetSomething, SetConfiguration,
         SetSomeUnits, SetNombre, SetRetardo, SetBroker, SetUnits, Cambia, ResetAll,
         BeginSave, SaveEntry, EndSave, SaveDefaults, vars, fsmVars
  <2>2. QED
      BY <1>3, <2>1 DEF Booted
<1>4. QED
    BY <1>1, <1>2, <1>3 DEF Next, Fsm, Menu, InitDevice, EnterInit

LEMMA QuietStep ==
    ASSUME IInv, [Next]_vars
    PROVE  Quiet'
<1>1. CASE PowerCut
    BY <1>1 DEF PowerCut, FsmPowerCut, Quiet
<1>2. CASE ~PowerCut /\ (Booted \/ InitDevice)
    BY <1>2, StaysBooted DEF Quiet
<1>3. CASE ~PowerCut /\ ~Booted /\ ~InitDevice
  <2>1. errores = "no" /\ ~enProgramacion /\ ~saving /\ orden = eeprom
      BY <1>3 DEF IInv, Quiet
  <2>2. CASE Fsm
      BY <1>3, <2>1, <2>2 DEF Fsm, FsmPass, Falla, ToError, ToProgramacion, LeaveInit,
         ConexionCambia, LeaveProgramacion, EnterState, Quiet, Booted, Vigilados,
         pgaVars, historia
  <2>3. CASE EnqueueSave
      BY <2>1, <2>3 DEF EnqueueSave, fsmVars, Quiet
  <2>4. CASE \/ Menu \/ SetSomething \/ ResetAll \/ BeginSave \/ SaveEntry \/ EndSave
             \/ SaveDefaults
      BY <1>3, <2>1, <2>4 DEF Menu, SetSomething, SetConfiguration, SetSomeUnits, SetNombre,
         SetRetardo, SetBroker, SetUnits, CanSet, ResetAll, BeginSave, SaveEntry, EndSave,
         SaveDefaults, CanSave
  <2>5. CASE UNCHANGED vars
      BY <2>1, <2>5 DEF vars, fsmVars, pgaVars, historia, Quiet
  <2>6. QED
      BY <1>3, <2>2, <2>3, <2>4, <2>5 DEF Next
<1>4. QED
    BY <1>1, <1>2, <1>3

----------------------------------------------------------------------------
\* A call of pga_enqueueSave turns a call to come into an entry, and no entry is lost.
LEMMA EnqueueCovers ==
    ASSUME TypeOK, EnqueueSave, Distance + 1 < SaveQueueLength
    PROVE  Covered \subseteq Covered'
<1>1. ASSUME NEW c \in CellsPending PROVE c \in CellsPending'
  <2>1. PICK e \in EntriesPending : c \in queue[e]
      BY DEF CellsPending
  <2>2. e \in Positions /\ e # queueIn /\ e \in EntriesPending'
      BY EnqueueAdds, EntriesArePositions
  <2>3. queue'[e] = queue[e]
      BY <2>2 DEF EnqueueSave, TypeOK
  <2>4. QED
      BY <2>1, <2>2, <2>3 DEF CellsPending
<1>2. ASSUME NEW c \in CellsAskedFor PROVE c \in Covered'
  <2>1. PICK k \in DOMAIN llamadas : c \in llamadas[k]
      BY DEF CellsAskedFor
  <2>2. llamadas \in Seq(SUBSET Cells) /\ llamadas # <<>> /\ llamadas' = Tail(llamadas)
      BY DEF TypeOK, EnqueueSave
  <2>3. CASE k = 1
    <3>1. queue'[queueIn] = llamadas[1] /\ queueIn \in EntriesPending'
        BY <2>2, EnqueueAdds DEF EnqueueSave, TypeOK
    <3>2. c \in CellsPending'
        BY <2>1, <2>3, <3>1 DEF CellsPending
    <3>3. QED
        BY <3>2 DEF Covered
  <2>4. CASE k # 1
    <3>1. k - 1 \in DOMAIN llamadas' /\ llamadas'[k - 1] = llamadas[k]
        BY <2>1, <2>2, <2>4
    <3>2. c \in CellsAskedFor'
        BY <2>1, <3>1 DEF CellsAskedFor
    <3>3. QED
        BY <3>2 DEF Covered
  <2>5. QED
      BY <2>3, <2>4
<1>3. QED
    BY <1>1, <1>2 DEF Covered, EnqueueSave

\* A command changes settings, never the flag, and asks to save just those.
LEMMA CommandsAskToSave ==
    ASSUME SetSomething
    PROVE  /\ Free /\ Booted
           /\ \E cells \in SUBSET (Cells \ {"flag"}) : \E v, saves :
                /\ Cambia(cells, v, saves)
                /\ \A c \in cells : \E k \in DOMAIN saves : c \in saves[k]
                /\ \A k \in DOMAIN saves : saves[k] \subseteq cells
<1> DEFINE Asks(cells, v, saves) ==
             /\ Cambia(cells, v, saves)
             /\ \A c \in cells : \E k \in DOMAIN saves : c \in saves[k]
             /\ \A k \in DOMAIN saves : saves[k] \subseteq cells
<1>1. PICK v \in Settings \cup {"default"} :
        \/ SetNombre(v)
        \/ \E c \in {"nombre", "retardo8"} : SetRetardo(c, v)
        \/ SetBroker(v)
        \/ \E us \in UnitLists : SetUnits(us, v)
    BY DEF SetSomething, SetConfiguration, SetSomeUnits
<1>2. Free /\ Booted
    BY <1>1 DEF SetNombre, SetRetardo, SetBroker, SetUnits, CanSet
<1>3. \E cells \in SUBSET (Cells \ {"flag"}) : \E saves : Asks(cells, v, saves)
  <2>1. CASE SetNombre(v)
    <3>1. Asks({"nombre"}, v, << {"nombre"} >>) /\ {"nombre"} \in SUBSET (Cells \ {"flag"})
        BY <2>1 DEF SetNombre, Cells, Fixed
    <3>2. QED
        BY <3>1
  <2>2. CASE \E c \in {"nombre", "retardo8"} : SetRetardo(c, v)
    <3>1. PICK d \in {"nombre", "retardo8"} : SetRetardo(d, v)
        BY <2>2
    <3>2. Asks({d}, v, << {d} >>) /\ {d} \in SUBSET (Cells \ {"flag"})
        BY <3>1 DEF SetRetardo, Cells, Fixed
    <3>3. QED
        BY <3>2
  <2>3. CASE SetBroker(v)
    <3>1. {"port", "url"} \in SUBSET (Cells \ {"flag"})
        BY DEF Cells, Fixed
    <3>2. /\ DOMAIN << {"port"}, {"url"} >> = {1, 2}
          /\ << {"port"}, {"url"} >>[1] = {"port"} /\ << {"port"}, {"url"} >>[2] = {"url"}
        OBVIOUS
    <3>3. Asks({"port", "url"}, v, << {"port"}, {"url"} >>)
        BY <2>3, <3>2 DEF SetBroker
    <3>4. QED
        BY <3>1, <3>3
  <2>4. CASE \E us \in UnitLists : SetUnits(us, v)
    <3>1. PICK us \in UnitLists : SetUnits(us, v)
        BY <2>4
    <3>2. PICK n \in 1 .. UnitsPerMessage : us \in [1 .. n -> Units]
        BY DEF UnitLists
    <3>3. {us[k] : k \in DOMAIN us} \in SUBSET (Cells \ {"flag"})
        BY <3>2, CellsAssumption DEF Cells, Fixed
    <3>4. Asks({us[k] : k \in DOMAIN us}, v, [k \in DOMAIN us |-> {us[k]}])
        BY <3>1 DEF SetUnits
    <3>5. QED
        BY <3>3, <3>4
  <2>5. QED
      BY <1>1, <2>1, <2>2, <2>3, <2>4
<1>4. QED
    BY <1>2, <1>3

\* The defaults ask to save all that a start reads back, but for retardo8, and the flag.
LEMMA DefaultsAskToSave ==
    ASSUME llamadas' = DefaultSaves
    PROVE  Kept \cup {"flag"} \subseteq CellsAskedFor'
<1>1. ASSUME NEW c \in Kept \cup {"flag"}
      PROVE  \E k \in DOMAIN DefaultSaves : c \in DefaultSaves[k]
  <2>1. /\ DOMAIN DefaultSaves = 1 .. 5 /\ DefaultSaves[1] = {"flag"}
        /\ DefaultSaves[2] = {"nombre"} /\ DefaultSaves[3] = Units
        /\ DefaultSaves[4] = {"port"} /\ DefaultSaves[5] = {"url"}
      BY DEF DefaultSaves
  <2>2. c \in {"flag", "nombre", "port", "url"} \/ c \in Units
      BY DEF Kept, Loaded, Cells, Fixed
  <2>3. QED
      BY <2>1, <2>2
<1>2. QED
    BY <1>1 DEF CellsAskedFor

\* Nobody saves the flag but with the value that the defaults give it.
LEMMA FlagStep ==
    ASSUME IInv, [Next]_vars
    PROVE  FlagIsDefault'
<1> USE DEF IInv
<1>0. FlagIsDefault /\ TypeOK /\ "flag" \in Cells
    BY DEF Cells, Fixed
<1>1. CASE EnqueueSave
  <2>1. llamadas \in Seq(SUBSET Cells) /\ llamadas # <<>> /\ llamadas' = Tail(llamadas) /\ pga' = pga
      BY <1>0, <1>1 DEF TypeOK, EnqueueSave
  <2>2. ASSUME NEW e \in Positions, "flag" \in queue'[e] PROVE pga["flag"] = "default"
    <3>1. CASE e = queueIn
      <4>1. queue'[e] = llamadas[1] /\ 1 \in DOMAIN llamadas
          BY <1>0, <1>1, <2>1, <3>1 DEF EnqueueSave, TypeOK
      <4>2. QED
          BY <1>0, <2>2, <4>1 DEF FlagIsDefault
    <3>2. CASE e # queueIn
        BY <1>0, <1>1, <2>2, <3>2 DEF EnqueueSave, TypeOK, FlagIsDefault
    <3>3. QED
        BY <3>1, <3>2
  <2>3. ASSUME NEW k \in DOMAIN llamadas', "flag" \in llamadas'[k] PROVE pga["flag"] = "default"
    <3>1. k + 1 \in DOMAIN llamadas /\ llamadas'[k] = llamadas[k + 1]
        BY <2>1, <2>3
    <3>2. QED
        BY <1>0, <2>3, <3>1 DEF FlagIsDefault
  <2>4. QED
      BY <2>1, <2>2, <2>3 DEF FlagIsDefault
<1>2. CASE InitDevice
  <2>1. CASE Formatted
    <3>1. pga'["flag"] = pga["flag"] /\ queue' = queue /\ llamadas' = <<>>
        BY <1>0, <1>2, <2>1 DEF InitDevice, Loaded
    <3>2. QED
        BY <1>0, <3>1 DEF FlagIsDefault
  <2>2. CASE ~Formatted
      BY <1>0, <1>2, <2>2 DEF InitDevice, Defaults, FlagIsDefault
  <2>3. QED
      BY <2>1, <2>2
<1>3. CASE SetSomething
  <2>0. PICK cells \in SUBSET (Cells \ {"flag"}) : \E v, saves :
             /\ Cambia(cells, v, saves)
             /\ \A k \in DOMAIN saves : saves[k] \subseteq cells
      BY <1>3, CommandsAskToSave
  <2>1. PICK v, saves :
             /\ Cambia(cells, v, saves)
             /\ \A k \in DOMAIN saves : saves[k] \subseteq cells
      BY <2>0
  <2>2. pga'["flag"] = pga["flag"] /\ queue' = queue /\ llamadas' = saves
      BY <1>0, <2>1 DEF Cambia
  <2>3. \A k \in DOMAIN llamadas' : "flag" \notin llamadas'[k]
      BY <2>1, <2>2
  <2>4. QED
      BY <1>0, <2>2, <2>3 DEF FlagIsDefault
<1>4. CASE SaveDefaults
    BY <1>0, <1>4 DEF SaveDefaults, Defaults, FlagIsDefault
<1>5. CASE PowerCut
    BY <1>5 DEF PowerCut, FlagIsDefault
<1>6. CASE \/ Fsm \/ Menu \/ ResetAll \/ BeginSave \/ SaveEntry \/ EndSave \/ UNCHANGED vars
  <2>1. UNCHANGED <<pga, queue, llamadas>>
      BY <1>6 DEF Fsm, Menu, ResetAll, BeginSave, SaveEntry, EndSave, vars, pgaVars
  <2>2. QED
      BY <1>0, <2>1 DEF FlagIsDefault
<1>7. QED
    BY <1>1, <1>2, <1>3, <1>4, <1>5, <1>6 DEF Next

\* Until the defaults are made, nothing takes the place of a reset.
LEMMA ResetStep ==
    ASSUME IInv, [Next]_vars
    PROVE  ResetIsLast'
<1> USE DEF IInv
<1>0. ResetIsLast /\ Kept \subseteq Cells \ {"flag"}
    BY DEF Kept, Loaded
<1>1. CASE InitDevice
  <2>1. CASE Formatted
      BY <1>1, <2>1 DEF InitDevice, ResetIsLast
  <2>2. CASE ~Formatted /\ Booted
      BY <1>0, <1>1, <2>2 DEF InitDevice, ResetIsLast
  <2>3. CASE ~Formatted /\ ~Booted
      BY <1>0, <1>1, <2>3 DEF InitDevice, Defaults, ResetIsLast
  <2>4. QED
      BY <2>1, <2>2, <2>3
<1>2. CASE SetSomething
  <2>1. PICK cells, v, saves : Cambia(cells, v, saves)
      BY <1>2, CommandsAskToSave
  <2>2. QED
      BY <1>0, <2>1 DEF Cambia, ResetIsLast
<1>3. CASE ResetAll
    BY <1>0, <1>3 DEF ResetAll, Defaults, ResetIsLast
<1>4. CASE SaveEntry
    BY <1>0, <1>4 DEF SaveEntry, Write, ResetIsLast
<1>5. CASE SaveDefaults \/ PowerCut
    BY <1>5 DEF SaveDefaults, PowerCut, ResetIsLast
<1>6. CASE EnqueueSave \/ Fsm \/ Menu \/ BeginSave \/ EndSave \/ UNCHANGED vars
  <2>1. UNCHANGED <<fullResetRequested, orden, perdidas>>
      BY <1>6 DEF EnqueueSave, Fsm, Menu, BeginSave, EndSave, vars, pgaVars, historia
  <2>2. QED
      BY <1>0, <2>1 DEF ResetIsLast
<1>7. QED
    BY <1>1, <1>2, <1>3, <1>4, <1>5, <1>6 DEF Next

----------------------------------------------------------------------------
SavedSoFar ==
    /\ Formatted \/ "flag" \in Covered
    /\ \A c \in Kept :
        /\ pga[c] # eeprom[c] => c \in Covered
        /\ pga[c] # orden[c] => c \in perdidas \/ fullResetRequested

\* A start of the device: what it finds pending is lost, or nothing is.
LEMMA SavedByInit ==
    ASSUME IInv, InitDevice, ~desborde
    PROVE  SavedSoFar'
<1> USE DEF IInv
<1>0. /\ TypeOK /\ Kept \subseteq Cells \ {"flag"}
      /\ UNCHANGED <<eeprom, queue, queueIn, queueOut>> /\ Free
    BY DEF Kept, Loaded, InitDevice
<1>1. Formatted' = Formatted /\ CellsPending' = CellsPending
    BY <1>0 DEF Formatted, CellsPending, EntriesPending, Start
<1>2. CASE Formatted
  <2>1. \A c \in Kept : pga'[c] = eeprom[c]
      BY <1>0, <1>2 DEF InitDevice, Loaded
  <2>2. orden' = orden
      BY <1>2 DEF InitDevice
  <2>3. ASSUME NEW c \in Kept, eeprom[c] # orden[c] PROVE c \in perdidas'
    <3>1. Booted
        BY <2>3 DEF Quiet
    <3>2. CASE fullResetRequested
        BY <1>0, <3>1, <3>2 DEF InitDevice
    <3>3. CASE ~fullResetRequested
      <4>1. perdidas' = perdidas \cup CellsPending
          BY <1>2, <3>1, <3>3 DEF InitDevice
      <4>2. CellsAskedFor = {}
          BY <1>0 DEF Free, CellsAskedFor
      <4>3. c \in Covered
          BY <2>3, <3>1, <3>3 DEF SavedOrPending, Covered
      <4>4. QED
          BY <4>1, <4>2, <4>3 DEF Covered
    <3>4. QED
        BY <3>2, <3>3
  <2>4. QED
      BY <1>0, <1>1, <1>2, <2>1, <2>2, <2>3 DEF SavedSoFar
<1>3. CASE ~Formatted
  <2>1. llamadas' = DefaultSaves /\ fullResetRequested'
      BY <1>3 DEF InitDevice
  <2>2. Kept \cup {"flag"} \subseteq Covered'
      BY <2>1, DefaultsAskToSave DEF Covered
  <2>3. QED
      BY <2>1, <2>2 DEF SavedSoFar
<1>4. QED
    BY <1>2, <1>3

LEMMA SavedByCommands ==
    ASSUME IInv, SavedSoFar, SetSomething
    PROVE  SavedSoFar'
<1> USE DEF IInv
<1>0. PICK cells \in SUBSET (Cells \ {"flag"}) : \E v, saves :
            /\ Cambia(cells, v, saves)
            /\ \A c \in cells : \E k \in DOMAIN saves : c \in saves[k]
    BY CommandsAskToSave
<1>1. PICK v, saves :
            /\ Cambia(cells, v, saves)
            /\ \A c \in cells : \E k \in DOMAIN saves : c \in saves[k]
    BY <1>0
<1>2. /\ TypeOK /\ Kept \subseteq Cells
      /\ UNCHANGED <<eeprom, queue, queueIn, queueOut, fullResetRequested>>
      /\ pga' = [c \in Cells |-> IF c \in cells THEN v ELSE pga[c]]
      /\ llamadas' = saves
    BY <1>1 DEF Cambia, Kept, Loaded
<1>3. Formatted' = Formatted /\ CellsPending' = CellsPending
    BY <1>2 DEF Formatted, CellsPending, EntriesPending, Start
<1>4. CellsAskedFor = {}
    BY CommandsAskToSave DEF Free, CellsAskedFor
<1>5. cells \subseteq CellsAskedFor'
    BY <1>1, <1>2 DEF CellsAskedFor
<1>6. perdidas \subseteq perdidas' \cup cells
    BY <1>1 DEF Cambia
<1>7. Covered \subseteq Covered'
    BY <1>3, <1>4, <1>5, <1>6 DEF Covered
<1>8. Formatted' \/ "flag" \in Covered'
    BY <1>3, <1>7 DEF SavedSoFar
<1>9. ASSUME NEW c \in Kept
      PROVE  /\ pga'[c] # eeprom'[c] => c \in Covered'
             /\ pga'[c] # orden'[c] => c \in perdidas' \/ fullResetRequested'
  <2>1. CASE c \in cells
    <3>1. c \in Covered'
        BY <1>5, <2>1 DEF Covered
    <3>2. fullResetRequested \/ orden'[c] = v
        BY <1>1, <1>2, <2>1 DEF Cambia
    <3>3. pga'[c] = v
        BY <1>2, <2>1
    <3>4. QED
        BY <1>2, <3>1, <3>2, <3>3
  <2>2. CASE c \notin cells
    <3>1. pga'[c] = pga[c] /\ eeprom'[c] = eeprom[c]
        BY <1>2, <2>2
    <3>2. orden'[c] = orden[c] /\ (c \in perdidas => c \in perdidas')
        BY <1>1, <1>2, <2>2 DEF Cambia
    <3>3. QED
        BY <1>2, <1>7, <3>1, <3>2 DEF SavedSoFar
  <2>3. QED
      BY <2>1, <2>2
<1>10. QED
    BY <1>8, <1>9 DEF SavedSoFar

\* A turn of the loop writes what it takes from the queue, or that is lost, and so
\* is what it writes instead.
LEMMA SavedByTurn ==
    ASSUME IInv, SavedSoFar, SaveEntry
    PROVE  SavedSoFar'
<1> DEFINE entry == queue[Start(queueOut)]
<1> USE DEF IInv
<1>1. /\ UNCHANGED <<pga, queue, llamadas, orden, fullResetRequested>>
      /\ Write(entry)
      /\ eeprom \in [Cells -> Values] /\ "flag" \in Cells /\ Kept \subseteq Cells
    BY DEF SaveEntry, TypeOK, Cells, Fixed, Kept, Loaded
<1>2. CellsAskedFor' = CellsAskedFor
    BY <1>1 DEF CellsAskedFor
<1>3. ASSUME NEW c \in CellsPending PROVE c \in CellsPending' \/ c \in entry
  <2>1. PICK e \in EntriesPending : c \in queue[e]
      BY DEF CellsPending
  <2>2. e \in EntriesPending' \/ e = Start(queueOut)
      BY <2>1, TurnServesOne
  <2>3. QED
      BY <1>1, <2>1, <2>2 DEF CellsPending
<1> HIDE DEF entry
<1>4. CASE stray = 0
  <2>1. eeprom' = [c \in Cells |-> IF c \in entry THEN pga[c] ELSE eeprom[c]] /\ perdidas' = perdidas
      BY <1>1, <1>4 DEF Write
  <2>2. Covered \subseteq Covered' \cup entry
      BY <1>2, <1>3, <2>1 DEF Covered
  <2>3. Formatted' \/ "flag" \in Covered'
    <3>1. CASE "flag" \in entry
      <4>1. pga["flag"] = "default"
          BY <3>1, TurnServesOne DEF FlagIsDefault, entry
      <4>2. QED
          BY <1>1, <2>1, <3>1, <4>1 DEF Formatted
    <3>2. CASE "flag" \notin entry
        BY <1>1, <2>1, <2>2, <3>2 DEF Formatted, SavedSoFar
    <3>3. QED
        BY <3>1, <3>2
  <2>4. ASSUME NEW c \in Kept, pga[c] # eeprom'[c] PROVE c \in Covered'
    <3>1. c \notin entry /\ eeprom'[c] = eeprom[c]
        BY <1>1, <2>1, <2>4
    <3>2. QED
        BY <2>2, <2>4, <3>1 DEF SavedSoFar
  <2>5. QED
      BY <1>1, <2>1, <2>3, <2>4 DEF SavedSoFar
<1>5. CASE stray # 0
  <2>1. PICK others \in Landings :
             /\ eeprom' = [c \in Cells |-> IF c \in others THEN "blank" ELSE eeprom[c]]
             /\ perdidas' = perdidas \cup entry \cup others
      BY <1>1, <1>5 DEF Write
  <2>2. Covered \cup others \subseteq Covered'
      BY <1>2, <1>3, <2>1 DEF Covered
  <2>3. ASSUME NEW c \in Cells PROVE c \in Covered' \/ eeprom'[c] = eeprom[c]
      BY <2>1, <2>2, <2>3
  <2>4. Formatted' \/ "flag" \in Covered'
      BY <1>1, <2>2, <2>3 DEF Formatted, SavedSoFar
  <2>5. ASSUME NEW c \in Kept, pga[c] # eeprom'[c] PROVE c \in Covered'
      BY <1>1, <2>2, <2>3, <2>5 DEF SavedSoFar
  <2>6. QED
      BY <1>1, <2>1, <2>4, <2>5 DEF SavedSoFar
<1>6. QED
    BY <1>4, <1>5

LEMMA SavedByDefaults ==
    ASSUME IInv, SaveDefaults
    PROVE  SavedSoFar'
<1> USE DEF IInv
<1>1. Kept \cup {"flag"} \subseteq Covered'
    BY DefaultsAskToSave DEF SaveDefaults, Covered
<1>2. ASSUME NEW c \in Kept, pga'[c] # orden'[c] PROVE c \in perdidas'
  <2>1. orden'[c] = orden[c] /\ orden[c] # "default" /\ fullResetRequested
      BY <1>2 DEF SaveDefaults, Defaults, Kept, Loaded
  <2>2. c \in perdidas
      BY <2>1 DEF ResetIsLast
  <2>3. QED
      BY <2>1, <2>2 DEF SaveDefaults
<1>3. QED
    BY <1>1, <1>2 DEF SavedSoFar

LEMMA SavedStep ==
    ASSUME IInv, [Next]_vars
    PROVE  SavedOrPending'
<1> SUFFICES ASSUME Booted', ~desborde'
             PROVE  SavedSoFar'
    BY DEF SavedOrPending, SavedSoFar
<1> USE DEF IInv
<1>1. CASE InitDevice
    BY <1>1, SavedByInit DEF InitDevice
<1>2. CASE ~InitDevice
  <2>0. Booted
      BY <1>2, BootedStep
  <2>1. ASSUME ~desborde PROVE SavedSoFar
      BY <2>0, <2>1 DEF SavedOrPending, SavedSoFar
  <2>2. CASE EnqueueSave
    <3>1. /\ ~desborde /\ ~(pendientes + 1 >= SaveQueueLength)
          /\ UNCHANGED <<pga, eeprom, orden, perdidas, fullResetRequested>>
        BY <2>2 DEF EnqueueSave
    <3>2. Distance + 1 < SaveQueueLength
        BY <3>1, QueueAssumption DEF QueueHoldsPending, TypeOK
    <3>3. Covered \subseteq Covered'
        BY <2>2, <3>2, EnqueueCovers
    <3>4. QED
        BY <2>1, <3>1, <3>3 DEF SavedSoFar, Formatted
  <2>3. CASE SetSomething
    <3>1. ~desborde
        BY <2>3, CommandsAskToSave DEF Cambia
    <3>2. QED
        BY <2>1, <2>3, <3>1, SavedByCommands
  <2>4. CASE SaveEntry
      BY <2>1, <2>4, SavedByTurn DEF SaveEntry
  <2>5. CASE EndSave
    <3>1. UNCHANGED <<pga, eeprom, queue, llamadas, desborde, orden, perdidas, fullResetRequested>>
        BY <2>5 DEF EndSave, historia
    <3>2. Covered' = Covered
        BY <2>5, <3>1, EndKeepsQueue DEF Covered, CellsPending, CellsAskedFor
    <3>3. QED
        BY <2>1, <3>1, <3>2 DEF SavedSoFar, Formatted
  <2>6. CASE SaveDefaults
      BY <2>6, SavedByDefaults
  <2>7. CASE PowerCut
      BY <2>7 DEF PowerCut, FsmPowerCut, Booted
  <2>8. CASE Fsm \/ Menu \/ ResetAll \/ BeginSave \/ UNCHANGED vars
    <3>1. /\ UNCHANGED <<pga, eeprom, queue, queueIn, queueOut, llamadas, desborde, perdidas>>
          /\ UNCHANGED <<orden, fullResetRequested>> \/ fullResetRequested'
        BY <2>8 DEF Fsm, Menu, ResetAll, BeginSave, vars, pgaVars, historia
    <3>2. Covered' = Covered
        BY <3>1 DEF Covered, CellsPending, CellsAskedFor, EntriesPending, Start
    <3>3. QED
        BY <2>1, <3>1, <3>2 DEF SavedSoFar, Formatted
  <2>9. QED
      BY <1>2, <2>2, <2>3, <2>4, <2>5, <2>6, <2>7, <2>8 DEF Next
<1>3. QED
    BY <1>1, <1>2

----------------------------------------------------------------------------
\* Types, the count of the queue and what is saved, pending or lost are invariant
\* together, whatever pga_saveRAM finds in i (pga.c:106-196).
THEOREM PersistenceInvariant == Spec => []IInv
<1>1. IInv /\ [Next]_vars => IInv'
    BY TypeStep, QueueStep, SavedStep, QuietStep, FlagStep, ResetStep DEF IInv
<1>2. QED
    BY <1>1, InitIInv, PTL DEF Spec

\* The variables keep their types; in particular the indices stay in the queue.
THEOREM PersistenceTypeCorrect == Spec => []TypeOK
<1>1. IInv => TypeOK
    BY DEF IInv
<1>2. QED
    BY <1>1, PersistenceInvariant, PTL

\* pga_isQueueEmpty and the loop of pga_saveRAM see every save asked for, until
\* there are as many as the queue is long.
THEOREM PersistenceQueueCounts == Spec => []QueueHoldsPending
<1>1. IInv => QueueHoldsPending
    BY DEF IInv
<1>2. QED
    BY <1>1, PersistenceInvariant, PTL

\* What a start would read back is what RAM holds and what was asked for, or its save
\* is pending, or it is among what the device has lost (pga.c:21-48, 106-196).
THEOREM PersistenceSavedOrPending == Spec => []SavedOrPending
<1>1. IInv => SavedOrPending
    BY DEF IInv
<1>2. QED
    BY <1>1, PersistenceInvariant, PTL
=============================================================================

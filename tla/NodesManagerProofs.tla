------------------------- MODULE NodesManagerProofs -------------------------
(***************************************************************************)
(* Proofs about NodesManager.  It goes on within what Persistence allows,  *)
(* so that what PersistenceProofs says of the configuration holds of it;   *)
(* and from there, that an event about automations only tells what is      *)
(* stored: with the queue empty and no call pending, only what has been    *)
(* lost can differ from the EEPROM.                                        *)
(***************************************************************************)
EXTENDS NodesManager, PersistenceProofs

\* A step of the nodes is one of the configuration, or none.
LEMMA NodesStepIsAllowed ==
    ASSUME [NodesNext]_allVars
    PROVE  [Next]_vars
<1>1. CASE SetOrReset
  <2>1. PICK us \in Messages, v \in Settings \cup {"default"} : SetUnits(us, v)
      BY <1>1 DEF SetOrReset
  <2>2. us \in UnitLists
      BY MessagesAssumption
  <2>3. QED
      BY <2>1, <2>2 DEF SetSomeUnits, SetSomething, Next
<1>2. CASE Get \/ DeterminarFinProcesamiento
    BY <1>2 DEF Get, DeterminarFinProcesamiento, EventPart, AnswerPart, SendPart, Release
<1>3. CASE OfConfiguration
    BY <1>3 DEF OfConfiguration, SetSomething, Next
<1>4. CASE PowerCut
    BY <1>4 DEF Next
<1>5. CASE UNCHANGED allVars
    BY <1>5 DEF allVars
<1>6. QED
    BY <1>1, <1>2, <1>3, <1>4, <1>5 DEF NodesNext

\* Whatever the messages about automations do to the configuration, the rest of the
\* firmware could do too (nodesManager.c:682-799, 927-1002).
THEOREM NodesKeepConfiguration == NodesSpec => Spec
<1>1. NodesInit => Init
    BY DEF NodesInit
<1>2. [NodesNext]_allVars => [Next]_vars
    BY NodesStepIsAllowed
<1>3. QED
    BY <1>1, <1>2, PTL DEF NodesSpec, Spec

----------------------------------------------------------------------------
NodesTypes ==
    /\ lock \in {"no", "set", "get"}
    /\ cambios \subseteq Units
    /\ debe \subseteq Units

LEMMA NodesTypeStep ==
    ASSUME NodesTypes, [NodesNext]_allVars
    PROVE  NodesTypes'
<1> USE DEF NodesTypes
<1>1. CASE SetOrReset
  <2>1. PICK us \in Messages : /\ cambios' = cambios \cup Range(us)
                               /\ debe' = debe \cup Range(us)
                               /\ lock' \in {"set", "no"}
      BY <1>1 DEF SetOrReset
  <2>2. PICK n \in 1 .. UnitsPerMessage : us \in [1 .. n -> Units]
      BY MessagesAssumption DEF UnitLists
  <2>3. Range(us) \subseteq Units
      BY <2>2 DEF Range
  <2>4. QED
      BY <2>1, <2>3
<1>2. CASE Get
    BY <1>2 DEF Get, Configured
<1>3. CASE DeterminarFinProcesamiento
    BY <1>3 DEF DeterminarFinProcesamiento, EventPart, AnswerPart, SendPart, Parts, Release
<1>4. CASE OfConfiguration
    BY <1>4 DEF OfConfiguration, nodesVars
<1>5. CASE PowerCut /\ NodesPowerUp
    BY <1>5 DEF NodesPowerUp
<1>6. CASE UNCHANGED allVars
    BY <1>6 DEF allVars, nodesVars
<1>7. QED
    BY <1>1, <1>2, <1>3, <1>4, <1>5, <1>6 DEF NodesNext

\* The variables keep their types, those of the configuration among them.
THEOREM NodesTypeCorrect == NodesSpec => []NodesTypeOK
<1>1. NodesInit => NodesTypes
    BY DEF NodesInit, NodesTypes
<1>2. NodesTypes /\ [NodesNext]_allVars => NodesTypes'
    BY NodesTypeStep
<1>3. NodesSpec => []NodesTypes
    BY <1>1, <1>2, PTL DEF NodesSpec
<1>4. NodesSpec => []TypeOK
    BY NodesKeepConfiguration, PersistenceTypeCorrect, PTL
<1>5. TypeOK /\ NodesTypes => NodesTypeOK
    BY DEF NodesTypes, NodesTypeOK
<1>6. QED
    BY <1>3, <1>4, <1>5, PTL

----------------------------------------------------------------------------
\* With nothing in the queue and nothing about to enter it, RAM and EEPROM agree on
\* all that a start reads back, and with what was asked for, but for what has been lost
\* and for a reset that is still to be made.
LEMMA NothingPending ==
    ASSUME IInv, Booted, ~desborde, Free, QueueIsEmpty
    PROVE  \A c \in Kept \ perdidas :
               pga[c] = eeprom[c] /\ (orden[c] = eeprom[c] \/ fullResetRequested)
<1> USE QueueAssumption DEF IInv
<1>1. queueOut = queueIn /\ queueIn \in 0 .. SaveQueueLength - 1
    BY DEF QueueIsEmpty, TypeOK, Positions
<1>2. EntriesPending = {}
    BY <1>1 DEF EntriesPending, Start
<1>3. Covered = perdidas
    BY <1>2 DEF Covered, CellsPending, CellsAskedFor, Free
<1>4. QED
    BY <1>3 DEF SavedOrPending

LEMMA EventTellsStored ==
    ASSUME IInv, EventPart, ~desborde
    PROVE  \A u \in Units \ perdidas :
               pga[u] = eeprom[u] /\ (orden[u] = eeprom[u] \/ fullResetRequested)
<1>1. Booted /\ Free /\ QueueIsEmpty
    BY DEF EventPart, FinProcesamiento
<1>2. Units \subseteq Kept
    BY CellsAssumption DEF Kept, Loaded, Cells, Fixed
<1>3. QED
    BY <1>1, <1>2, NothingPending

\* armarEventoConfiguracionNodos reads the EEPROM once the queue is empty
\* (nodesManager.c:569-577): until the queue has overflowed it tells what the message
\* asked for and RAM holds, of all that has not been lost, whatever pga_saveRAM finds in i.
THEOREM NodesToldIsStored == NodesSpec => ToldIsStored
<1> DEFINE Told == lock = "set" /\ Booted' /\ ~desborde =>
                       \A u \in (debe \ debe') \ perdidas :
                           pga[u] = eeprom[u] /\ (orden[u] = eeprom[u] \/ fullResetRequested)
<1>1. IInv /\ NodesTypes /\ [NodesNext]_allVars => [Told]_allVars
  <2> SUFFICES ASSUME IInv, NodesTypes, [NodesNext]_allVars,
                      lock = "set", Booted', ~desborde, NEW u \in (debe \ debe') \ perdidas
               PROVE  pga[u] = eeprom[u] /\ (orden[u] = eeprom[u] \/ fullResetRequested)
      OBVIOUS
  <2>1. CASE EventPart
      BY <2>1, EventTellsStored DEF NodesTypes
  <2>2. CASE SetOrReset \/ Get \/ AnswerPart \/ Release \/ OfConfiguration \/ UNCHANGED allVars
      BY <2>2 DEF SetOrReset, Get, AnswerPart, FinProcesamiento, Release, OfConfiguration,
                  allVars, nodesVars
  <2>3. CASE PowerCut
      BY <2>3 DEF PowerCut, FsmPowerCut, Booted
  <2>4. QED
      BY <2>1, <2>2, <2>3 DEF NodesNext, DeterminarFinProcesamiento
<1>2. NodesSpec => []IInv
    BY NodesKeepConfiguration, PersistenceInvariant, PTL
<1>3. NodesInit => NodesTypes
    BY DEF NodesInit, NodesTypes
<1>4. NodesTypes /\ [NodesNext]_allVars => NodesTypes'
    BY NodesTypeStep
<1>5. NodesSpec => []NodesTypes
    BY <1>3, <1>4, PTL DEF NodesSpec
<1>6. NodesSpec => [][Told]_allVars
    BY <1>1, <1>2, <1>5, PTL DEF NodesSpec
<1>7. QED
    BY <1>6 DEF ToldIsStored
=============================================================================

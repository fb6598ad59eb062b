---------------------------- MODULE NodesManager ----------------------------
(* The automations of the nodes (nodesManager.c) on top of Persistence: the      *)
(* messages that set, reset and ask for them, the lock behind which all messages *)
(* of the broker wait meanwhile, and the event or the answer, which leaves in    *)
(* parts when there are free slots.  The event reads what it tells from the      *)
(* EEPROM, so it waits until nothing is pending there.                           *)
EXTENDS Persistence, FiniteSets, Functions

CONSTANTS
    Messages,        \* the lists of automations that a message can bring
    UnitsPerPart     \* how many of them fit in a slot, of 100 bytes

ASSUME MessagesAssumption == Messages \subseteq UnitLists
ASSUME PartAssumption == UnitsPerPart \in Nat \ {0}

VARIABLES
    lock,        \* procesandoMensajes: "no", or the bit of a "set" or of a "get"
    cambios,     \* the bits of cambiosParaElEventoOGet_...
    debe         \* history: automations changed by a message, not yet told to the broker

nodesVars == <<lock, cambios, debe>>
allVars == <<vars, nodesVars>>

\* The types of the configuration, of the lock and of the bits of the nodes.
NodesTypeOK ==
    /\ TypeOK
    /\ lock \in {"no", "set", "get"}
    /\ cambios \subseteq Units
    /\ debe \subseteq Units

NodesPowerUp == lock' = "no" /\ cambios' = {} /\ debe' = {}

NodesInit ==
    /\ Init
    /\ lock = "no"
    /\ cambios = {}
    /\ debe = {}

-----------------------------------------------------------------------------
\* procesarSetConfiguracionNodos and procesarResetConfiguracionNodos.  A number or
\* a kind out of range, or a tail too short, ends the handler: what came before it
\* is changed and saved, and its bits stay, but the lock is not taken.
SetOrReset ==
    /\ lock = "no"
    /\ \E us \in Messages, v \in Settings \cup {"default"} :
        /\ SetUnits(us, v)
        /\ cambios' = cambios \cup Range(us)
        /\ debe' = debe \cup Range(us)
    /\ lock' \in {"set", "no"}

\* The automations that RAM has something for.
Configured == {u \in Units : pga[u] \in Settings}

\* procesarGetConfiguracionNodos; with nothing to tell an empty answer leaves.
Get ==
    /\ lock = "no"
    /\ Free /\ Booted /\ ~HayErrorCritico
    /\ cambios' = cambios \cup Configured
    /\ lock' = IF cambios' = {} THEN "no" ELSE "get"
    /\ UNCHANGED <<vars, debe>>

-----------------------------------------------------------------------------
\* nodesManager_determinarFinProcesamiento, on every pass of the loop.
FinProcesamiento(l) == lock = l /\ Free /\ Booted /\ ~HayErrorCritico

\* A slot takes as many automations as fit.
Parts == {p \in SUBSET cambios : p # {} /\ Cardinality(p) <= UnitsPerPart}

\* Slip: the bits are cleared also when there is no slot, and nothing leaves.
Slip_SendPart ==
    /\ \E p \in Parts : cambios' = cambios \ p /\ debe' \in {debe, debe \ p}
    /\ UNCHANGED <<vars, lock>>

SendPart ==
    /\ \E p \in Parts : cambios' = cambios \ p /\ debe' = debe \ p
    /\ UNCHANGED <<vars, lock>>

\* Slip: the event leaves as soon as RAM has the new values.
Slip_EventPart == FinProcesamiento("set") /\ SendPart

\* armarEventoConfiguracionNodos with a slot; without one it is tried again.
EventPart ==
    /\ FinProcesamiento("set")
    /\ QueueIsEmpty
    /\ SendPart

\* armarGetConfiguracionNodos, which reads RAM.
AnswerPart ==
    /\ FinProcesamiento("get")
    /\ SendPart

Release ==
    /\ \/ FinProcesamiento("set") /\ QueueIsEmpty
       \/ FinProcesamiento("get")
    /\ cambios = {}
    /\ lock' = "no"
    /\ UNCHANGED <<vars, cambios, debe>>

DeterminarFinProcesamiento == EventPart \/ AnswerPart \/ Release

\* What goes on in Persistence meanwhile.  Of its commands, those that come from
\* the broker wait for the lock.
OfConfiguration ==
    /\ \/ EnqueueSave
       \/ InitDevice
       \/ Fsm
       \/ Menu
       \/ lock = "no" /\ SetConfiguration
       \/ ResetAll
       \/ BeginSave
       \/ SaveEntry
       \/ EndSave
       \/ SaveDefaults
    /\ UNCHANGED nodesVars

NodesNext ==
    \/ SetOrReset
    \/ Get
    \/ DeterminarFinProcesamiento
    \/ OfConfiguration
    \/ PowerCut /\ NodesPowerUp

NodesSpec == NodesInit /\ [][NodesNext]_allVars

\* Slots come back again and again, and some of the passes that find one free
\* find the main loop where it can use it.
FairNodesSpec ==
    /\ NodesSpec
    /\ Fairness
    /\ SF_allVars(DeterminarFinProcesamiento)

-----------------------------------------------------------------------------
\* The event about automations tells the broker what it was that the message asked for,
\* and what the device would read back if it lost power there and then, although it is
\* armed from the EEPROM and the saves are made by another part of the loop; unless the
\* queue has overflowed, the setting was lost before, or a reset is about to undo it.
ToldIsStored ==
    [][lock = "set" /\ Booted' /\ ~desborde =>
        \A u \in (debe \ debe') \ perdidas :
            pga[u] = eeprom[u] /\ (orden[u] = eeprom[u] \/ fullResetRequested)]_allVars

\* The lock is released in the end, with every change told, also those of a
\* message that was given up in the middle; unless a critical error stops the main
\* loop or the power is cut.
NodesServed == lock # "no" ~> (lock = "no" /\ debe = {}) \/ HayErrorCritico \/ ~Booted
=============================================================================

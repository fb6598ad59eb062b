---------------------------- MODULE Persistence ----------------------------
(* The configuration of the device (pga.c): its image in RAM, the queue of     *)
(* pending saves, the external EEPROM, and who changes them: the commands that *)
(* change a setting, the factory reset, the start of the device, the programming *)
(* mode that may start it again (MainFsm), and power cuts at any moment.        *)
EXTENDS MainFsm, Naturals, Sequences

CONSTANTS
    Units,              \* the automations of the nodes, each saved by itself
    Settings,           \* values that a command can give to a setting
    SaveQueueLength,    \* PGA_SAVE_QUEUE_LENGTH, 50
    UnitsPerMessage,    \* how many saves one message about nodes can ask for, 50
    StrayReads,         \* what pga_saveRAM may read in i, which has no value yet
    Landings,           \* the cells that a save may land on where it does not read 0
    MaxSettings,        \* bound on the commands, the times the menu is used and the times that
                        \* i is not 0, all together, in a behaviour
    MaxCuts             \* bound on its power cuts

\* The name and the delays of the first seven partitions are saved together, so
\* they are one cell.
Fixed == {"flag", "nombre", "retardo8", "port", "url"}
Cells == Fixed \cup Units
Values == {"blank", "default"} \cup Settings

ASSUME CellsAssumption == Units \cap Fixed = {}
ASSUME QueueAssumption == SaveQueueLength \in Nat \ {0, 1}
ASSUME StrayAssumption ==
    StrayReads \subseteq Nat /\ 0 \in StrayReads /\ Landings \subseteq SUBSET Cells /\ {} \in Landings
ASSUME BoundsAssumption == MaxSettings \in Nat /\ MaxCuts \in Nat /\ UnitsPerMessage \in Nat

VARIABLES
    pga,                 \* pgaData, by groups of bytes that are saved together
    eeprom,              \* the external EEPROM
    queue,               \* the bytes that each entry saves
    queueIn, queueOut,
    fullResetRequested,
    saving,              \* the loop of pga_saveRAM is running, with the interrupts off
    stray,               \* its i
    llamadas,            \* calls of pga_enqueueSave that the running handler has still to make
    pendientes,          \* history: saves asked for that the loop has not served
    desborde,            \* history: since power up, there have been as many as the queue is long
    orden,               \* history: the value that was last asked for, cell by cell
    perdidas,            \* history: cells that have lost it, to a save that landed elsewhere or
                         \* to a start of the device that found it pending
    pedidos, cortes      \* what MaxSettings bounds, and power cuts, so far

pgaVars == <<pga, eeprom, queue, queueIn, queueOut, fullResetRequested, saving, stray,
             llamadas>>
historia == <<pendientes, desborde, orden, perdidas, pedidos, cortes>>
vars == <<fsmVars, pgaVars, historia>>

Positions == 0 .. SaveQueueLength - 1

\* loadValues reads all but the flag.
Loaded == Cells \ {"flag"}

\* The saves of defaults(), in its order.  The second has 30 bytes, of the 31 that
\* loadValues reads: it stops before the delay of the eighth partition.
Slip_DefaultSaves == << {"flag"}, {"nombre"}, Units, {"url"} >>

DefaultSaves ==
    << {"flag"}, {"nombre"}, Units, {"port"}, {"url"} >>

Defaults == [c \in Cells |-> "default"]

\* The position that the loop of pga_saveRAM looks at when queueOut has some value,
\* which may be the length of the queue until the loop comes round.
Start(out) == IF out >= SaveQueueLength THEN 0 ELSE out

\* Entries from queueOut to queueIn, in the circle.
EntriesPending ==
    LET out == Start(queueOut)
    IN IF out <= queueIn
       THEN out .. queueIn - 1
       ELSE (out .. SaveQueueLength - 1) \cup (0 .. queueIn - 1)

Distance ==
    LET out == Start(queueOut)
    IN IF out <= queueIn THEN queueIn - out ELSE queueIn + SaveQueueLength - out

QueueIsEmpty == queueIn = queueOut

-----------------------------------------------------------------------------
TypeOK ==
    /\ FsmTypeOK
    /\ pga \in [Cells -> Values]
    /\ eeprom \in [Cells -> Values]
    /\ queue \in [Positions -> SUBSET Cells]
    /\ queueIn \in Positions
    /\ queueOut \in 0 .. SaveQueueLength
    /\ fullResetRequested \in BOOLEAN
    /\ saving \in BOOLEAN
    /\ stray \in Nat
    /\ llamadas \in Seq(SUBSET Cells)
    /\ pendientes \in Nat
    /\ desborde \in BOOLEAN
    /\ orden \in [Cells -> Values]
    /\ perdidas \subseteq Cells
    /\ pedidos \in Nat
    /\ cortes \in Nat

\* The RAM of a device that has just got power.
PowerUp ==
    /\ FsmPowerUp
    /\ pga = [c \in Cells |-> "blank"]
    /\ queue = [i \in Positions |-> {}]
    /\ queueIn = 0
    /\ queueOut = 0
    /\ fullResetRequested = FALSE
    /\ saving = FALSE
    /\ stray = 0
    /\ llamadas = <<>>
    /\ pendientes = 0
    /\ desborde = FALSE
    /\ orden = eeprom
    /\ perdidas = {}

\* A device that was never switched on.
Init ==
    /\ eeprom = [c \in Cells |-> "blank"]
    /\ PowerUp
    /\ pedidos = 0
    /\ cortes = 0

-----------------------------------------------------------------------------
\* The configuration has been read: at power up the first pass of the main loop
\* begins with the entry block of the initial state.
Booted == ~(fsmState = "init" /\ stateIn /\ fsmState_previous = "init")

\* The main loop is between two handlers.
Free == llamadas = <<>> /\ ~saving

\* pga_enqueueSave, once for each call that a handler makes.  It does not look
\* whether the queue is full.
Slip_Wrap(i) == IF i >= SaveQueueLength THEN 0 ELSE i + 1

Wrap(i) == IF i + 1 >= SaveQueueLength THEN 0 ELSE i + 1

EnqueueSave ==
    /\ llamadas # <<>>
    /\ queue' = [queue EXCEPT ![queueIn] = Head(llamadas)]
    /\ queueIn' = Wrap(queueIn)
    /\ llamadas' = Tail(llamadas)
    /\ pendientes' = IF desborde THEN pendientes ELSE pendientes + 1
    /\ desborde' = (desborde \/ pendientes + 1 >= SaveQueueLength)
    /\ UNCHANGED <<fsmVars, pga, eeprom, queueOut, fullResetRequested, saving, stray,
                   orden, perdidas, pedidos, cortes>>

-----------------------------------------------------------------------------
Formatted == eeprom["flag"] = "default"

CellsPending == UNION {queue[e] : e \in EntriesPending}

\* The entry block of the initial state: pga_init and pga_checkEeprom.  What was
\* pending in the queue stays there, but RAM no longer holds it, and a reset that was
\* asked for is forgotten.
InitDevice ==
    /\ Free
    /\ EnterInit
    /\ IF Formatted
       THEN /\ pga' = [c \in Cells |-> IF c \in Loaded THEN eeprom[c] ELSE pga[c]]
            /\ fullResetRequested' = FALSE
            /\ llamadas' = <<>>
       ELSE /\ pga' = Defaults
            /\ fullResetRequested' = TRUE
            /\ llamadas' = DefaultSaves
    /\ orden' = IF Booted \/ Formatted THEN orden ELSE Defaults
    /\ perdidas' = IF ~Booted THEN perdidas
                   ELSE IF Formatted /\ ~fullResetRequested THEN perdidas \cup CellsPending
                   ELSE Cells \ {"flag"}
    /\ UNCHANGED <<enProgramacion, errores, eeprom, queue, queueIn, queueOut, saving, stray,
                   pendientes, desborde, pedidos, cortes>>

Fsm ==
    /\ Free
    /\ FsmPass \/ (Booted /\ Falla)
    /\ UNCHANGED <<pgaVars, historia>>

\* The user opens or closes the menu of the programming mode.
Menu ==
    /\ Free
    /\ Booted
    /\ CambiaProgramacion
    /\ enProgramacion \/ pedidos < MaxSettings
    /\ pedidos' = IF enProgramacion THEN pedidos ELSE pedidos + 1
    /\ UNCHANGED <<pgaVars, pendientes, desborde, orden, perdidas, cortes>>

\* What a command changes in RAM, and the saves that it asks for.  A reset that is
\* still to be made will undo it.
Cambia(cells, v, saves) ==
    /\ pga' = [c \in Cells |-> IF c \in cells THEN v ELSE pga[c]]
    /\ llamadas' = saves
    /\ IF fullResetRequested THEN UNCHANGED <<orden, perdidas>>
       ELSE /\ orden' = [c \in Cells |-> IF c \in cells THEN v ELSE orden[c]]
            /\ perdidas' = perdidas \ cells
    /\ pedidos' = pedidos + 1
    /\ UNCHANGED <<fsmVars, eeprom, queue, queueIn, queueOut, fullResetRequested, saving,
                   stray, pendientes, desborde, cortes>>

CanSet == Free /\ Booted /\ ~HayErrorCritico /\ pedidos < MaxSettings

\* procesarSetNombreCom: 16 bytes of the 30 of the group.
SetNombre(v) == CanSet /\ Cambia({"nombre"}, v, << {"nombre"} >>)

\* alarmMonitor_setRetardo: only when the delay changes.
SetRetardo(c, v) ==
    /\ CanSet
    /\ c \in {"nombre", "retardo8"}
    /\ pga[c] # v
    /\ Cambia({c}, v, << {c} >>)

\* procesarSetSocketBroker: two saves for one command.
SetBroker(v) == CanSet /\ Cambia({"port", "url"}, v, << {"port"}, {"url"} >>)

\* procesarSetConfiguracionNodos and procesarResetConfiguracionNodos: a message
\* brings any number of automations, in any order, and each is saved by itself.
SetUnits(us, v) ==
    /\ CanSet
    /\ Cambia({us[k] : k \in DOMAIN us}, v, [k \in DOMAIN us |-> {us[k]}])

UnitLists == UNION {[1 .. n -> Units] : n \in 1 .. UnitsPerMessage}

SetConfiguration ==
    \E v \in Settings :
        \/ SetNombre(v)
        \/ \E c \in {"nombre", "retardo8"} : SetRetardo(c, v)
        \/ SetBroker(v)

\* A reset gives the automation the value that the defaults give it.
SetSomeUnits == \E v \in Settings \cup {"default"}, us \in UnitLists : SetUnits(us, v)

SetSomething == SetConfiguration \/ SetSomeUnits

\* pga_resetAll, from the menu of the programming mode.
ResetAll ==
    /\ Free
    /\ Booted
    /\ enProgramacion
    /\ ~HayErrorCritico
    /\ pedidos < MaxSettings
    /\ fullResetRequested' = TRUE
    /\ orden' = Defaults
    /\ pedidos' = pedidos + 1
    /\ UNCHANGED <<fsmVars, pga, eeprom, queue, queueIn, queueOut, saving, stray, llamadas,
                   pendientes, desborde, perdidas, cortes>>

-----------------------------------------------------------------------------
\* pga_saveRAM is reached when the bus has been idle and there is nothing to send.
CanSave == Free /\ Booted /\ ~HayErrorCritico

\* The first branch: all that is pending.
BeginSave ==
    /\ CanSave
    /\ ~QueueIsEmpty
    /\ saving' = TRUE
    /\ \/ stray' = 0 /\ UNCHANGED pedidos
       \/ stray' \in StrayReads \ {0} /\ pedidos < MaxSettings /\ pedidos' = pedidos + 1
    /\ UNCHANGED <<fsmVars, pga, eeprom, queue, queueIn, queueOut, fullResetRequested,
                   llamadas, pendientes, desborde, orden, perdidas, cortes>>

\* ext_eeprom_write_bytes of an entry.  With another value than 0 in i other bytes
\* than those of the entry are written, and what lands there means nothing.
Write(cells) ==
    \/ /\ stray = 0
       /\ eeprom' = [c \in Cells |-> IF c \in cells THEN pga[c] ELSE eeprom[c]]
       /\ UNCHANGED perdidas
    \/ /\ stray # 0
       /\ \E others \in Landings :
            /\ eeprom' = [c \in Cells |-> IF c \in others THEN "blank" ELSE eeprom[c]]
            /\ perdidas' = perdidas \cup cells \cup others

\* One turn of the loop: queueOut comes round, an entry is written, queueOut ++.
SaveEntry ==
    /\ saving
    /\ queueIn # queueOut
    /\ queueIn # Start(queueOut)
    /\ Write(queue[Start(queueOut)])
    /\ queueOut' = Start(queueOut) + 1
    /\ pendientes' = IF desborde THEN pendientes ELSE pendientes - 1
    /\ UNCHANGED <<fsmVars, pga, queue, queueIn, fullResetRequested, saving, stray, llamadas,
                   desborde, orden, pedidos, cortes>>

\* The condition of the loop, or its break once queueOut has come round.
Slip_EndSave ==
    /\ saving
    /\ queueIn = queueOut \/ queueIn = Start(queueOut)
    /\ saving' = FALSE
    /\ stray' = 0
    /\ UNCHANGED <<fsmVars, pga, eeprom, queue, queueIn, queueOut, fullResetRequested,
                   llamadas, historia>>

\* Slip: the request is forgotten after either branch.
Slip_Forget ==
    /\ saving
    /\ \/ queueIn = queueOut /\ UNCHANGED queueOut
       \/ queueIn # queueOut /\ queueIn = Start(queueOut) /\ queueOut' = Start(queueOut)
    /\ saving' = FALSE
    /\ stray' = 0
    /\ fullResetRequested' = FALSE
    /\ UNCHANGED <<fsmVars, pga, eeprom, queue, queueIn, llamadas, historia>>

EndSave ==
    /\ saving
    /\ \/ queueIn = queueOut /\ UNCHANGED queueOut
       \/ queueIn # queueOut /\ queueIn = Start(queueOut) /\ queueOut' = Start(queueOut)
    /\ saving' = FALSE
    /\ stray' = 0
    /\ UNCHANGED <<fsmVars, pga, eeprom, queue, queueIn, fullResetRequested, llamadas,
                   historia>>

\* The second: defaults(), which also asks for a reset, and then the pages of the
\* names, which nobody reads; the last assignment forgets the request.
SaveDefaults ==
    /\ CanSave
    /\ QueueIsEmpty
    /\ fullResetRequested
    /\ pga' = Defaults
    /\ llamadas' = DefaultSaves
    /\ fullResetRequested' = FALSE
    /\ perdidas' = {c \in perdidas : orden[c] # "default"}
    /\ UNCHANGED <<fsmVars, eeprom, queue, queueIn, queueOut, saving, stray, pendientes,
                   desborde, orden, pedidos, cortes>>

\* The device loses power, whatever it was doing.
PowerCut ==
    /\ cortes < MaxCuts
    /\ cortes' = cortes + 1
    /\ FsmPowerCut
    /\ pga' = [c \in Cells |-> "blank"]
    /\ queue' = [i \in Positions |-> {}]
    /\ queueIn' = 0
    /\ queueOut' = 0
    /\ fullResetRequested' = FALSE
    /\ saving' = FALSE
    /\ stray' = 0
    /\ llamadas' = <<>>
    /\ pendientes' = 0
    /\ desborde' = FALSE
    /\ orden' = eeprom
    /\ perdidas' = {}
    /\ UNCHANGED <<eeprom, pedidos>>

Next ==
    \/ EnqueueSave
    \/ InitDevice
    \/ Fsm
    \/ Menu
    \/ SetSomething
    \/ ResetAll
    \/ BeginSave
    \/ SaveEntry
    \/ EndSave
    \/ SaveDefaults
    \/ PowerCut

Spec == Init /\ [][Next]_vars

\* The handler or the loop that is running comes to its end; and pga_saveRAM, which
\* takes one branch or the other.
Running == EnqueueSave \/ SaveEntry \/ EndSave

SaveRAM == BeginSave \/ SaveDefaults

\* The main loop goes on; the bus is idle again and again, and the loop takes some
\* of those occasions.
Fairness == WF_vars(InitDevice) /\ WF_vars(Running) /\ SF_vars(SaveRAM)

-----------------------------------------------------------------------------
CellsAskedFor == UNION {llamadas[k] : k \in DOMAIN llamadas}

\* What a start reads back.  The delay of the eighth partition is not among it:
\* the defaults do not save it.
Kept == Loaded \ {"retardo8"}

\* pga_isQueueEmpty and the loop of pga_saveRAM see every save asked for since the
\* last one they served, also where the queue comes round, as long as there have
\* never been as many as it is long.
QueueHoldsPending ==
    /\ ~desborde => Distance = pendientes
    /\ queueOut = SaveQueueLength => saving

\* Cells that the loop or the handler will still save, and those that have been lost.
Covered == CellsPending \cup CellsAskedFor \cup perdidas

\* A power cut costs no setting but those whose save is still pending: what a start
\* would read back is what RAM holds and what was last asked for, unless the save is
\* in an entry of the queue that the loop has not come to, the handler is about to ask
\* for it, or a reset is still to be made; and the start will read it, instead of going
\* back to the defaults.  That is so also in the middle of a save, as long as the queue
\* has not overflowed.  It is not so of what was pending when the programming mode
\* started the device again, nor of a save made with a stray i, and the cells that it
\* landed on, until they are set again.
SavedOrPending ==
    Booted /\ ~desborde =>
        /\ Formatted \/ "flag" \in Covered
        /\ \A c \in Kept :
            /\ pga[c] # eeprom[c] => c \in Covered
            /\ pga[c] # orden[c] => c \in perdidas \/ fullResetRequested

\* What was asked for is in the EEPROM, but for what has been lost.
Stored == \A c \in Kept \ perdidas : orden[c] = eeprom[c]

\* A setting that was asked for is in the EEPROM in the end, unless another one, or a
\* reset, takes its place, a critical error stops the main loop, the power is cut again
\* or the queue overflows; but for those lost to a start of the device that found them
\* pending, or to a stray i.
EventuallyStored == ~Stored ~> Stored \/ HayErrorCritico \/ desborde \/ ~Booted
=============================================================================

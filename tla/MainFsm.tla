------------------------------ MODULE MainFsm ------------------------------
(* The main state machine of mainFsm.c: which state the device is in and when *)
(* the entry block of a state runs.  What the entry block of the initial state *)
(* does to the rest of the firmware is said by the modules that extend this one. *)

CONSTANT Fallas    \* the errors that a driver can report: "critico", of the EEPROM, the
                   \* Wi-Fi module or MQTT, and "leve", of the server socket

ASSUME FallasAssumption == Fallas \subseteq {"leve", "critico"}

VARIABLES
    fsmState,            \* state of the machine
    fsmState_previous,   \* state it was in before the last change
    stateIn,             \* the entry block of the state has still to run
    enProgramacion,      \* fsmProg_enProgramacion()
    errores              \* errores1: "no", one that is not critical, or critical

fsmVars == <<fsmState, fsmState_previous, stateIn, enProgramacion, errores>>

States == {"init", "desconectado", "pruebaFabrica", "conectado", "programacion", "error"}
Errores == {"no", "leve", "critico"}

\* States in which the handler looks for errors and for the programming mode.
Vigilados == {"init", "desconectado", "conectado"}

FsmTypeOK ==
    /\ fsmState \in States
    /\ fsmState_previous \in States
    /\ stateIn \in BOOLEAN
    /\ enProgramacion \in BOOLEAN
    /\ errores \in Errores

\* At power up every variable has the value it is declared with.
FsmPowerUp ==
    /\ fsmState = "init"
    /\ fsmState_previous = "init"
    /\ stateIn = TRUE
    /\ enProgramacion = FALSE
    /\ errores = "no"

FsmPowerCut ==
    /\ fsmState' = "init"
    /\ fsmState_previous' = "init"
    /\ stateIn' = TRUE
    /\ enProgramacion' = FALSE
    /\ errores' = "no"

\* mainFsm_gotoState, and the exit block that runs at the end of the same pass.
GotoState(s) ==
    /\ fsmState' = s
    /\ fsmState_previous' = fsmState
    /\ stateIn' = TRUE

\* A pass that ends in the state it began in has run the entry block.
Stay ==
    /\ stateIn' = FALSE
    /\ UNCHANGED <<fsmState, fsmState_previous>>

\* The test before the switch finds nothing.
Tranquilo == fsmState \in Vigilados => errores = "no" /\ ~enProgramacion

\* mainFsm_hayErrorCritico: mainLoop returns before it serves anyone.
HayErrorCritico == errores = "critico"

ToError ==
    /\ fsmState \in Vigilados
    /\ errores # "no"
    /\ GotoState("error")

ToProgramacion ==
    /\ fsmState \in Vigilados
    /\ errores = "no"
    /\ enProgramacion
    /\ GotoState("programacion")

\* The entry block of the initial state, with the rest of its first pass: the
\* timer has just been started and vino_0d2 has just been cleared.
EnterInit ==
    /\ fsmState = "init"
    /\ stateIn
    /\ Tranquilo
    /\ Stay

\* The frame 0D2 came, the two seconds are over, or both: then the second wins.
LeaveInit ==
    /\ fsmState = "init"
    /\ ~stateIn
    /\ Tranquilo
    /\ \/ GotoState("pruebaFabrica")
       \/ GotoState("desconectado")
       \/ /\ fsmState' = "desconectado"
          /\ fsmState_previous' = "pruebaFabrica"
          /\ stateIn' = TRUE

ConexionCambia ==
    /\ Tranquilo
    /\ \/ fsmState = "desconectado" /\ GotoState("conectado")
       \/ fsmState = "conectado" /\ GotoState("desconectado")

LeaveProgramacion ==
    /\ fsmState = "programacion"
    /\ ~enProgramacion
    /\ GotoState(fsmState_previous)

\* The states with nothing to do but their entry block.
EnterState ==
    /\ fsmState # "init"
    /\ fsmState = "programacion" => enProgramacion
    /\ Tranquilo
    /\ stateIn
    /\ Stay

\* The user enters and leaves the menu (fsmProg.c), which no error stops but a
\* critical one.
CambiaProgramacion ==
    /\ ~HayErrorCritico
    /\ enProgramacion' = ~enProgramacion
    /\ UNCHANGED <<fsmState, fsmState_previous, stateIn, errores>>

\* A driver reports an error, which is never cleared.
Falla ==
    /\ \E e \in Fallas : errores # "critico" /\ errores # e /\ errores' = e
    /\ UNCHANGED <<fsmState, fsmState_previous, stateIn, enProgramacion>>

\* A pass of the machine other than the one that initialises the firmware.
FsmPass ==
    /\ ToError \/ ToProgramacion \/ LeaveInit \/ ConexionCambia \/ LeaveProgramacion \/ EnterState
    /\ UNCHANGED <<enProgramacion, errores>>
=============================================================================

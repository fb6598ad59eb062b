----------------------------- MODULE ImDispatch -----------------------------
(***************************************************************************)
(* The pass that main.c makes every 4 ms: one frame of the MPXH bus, one   *)
(* message of the server if no module is still busy with another, the     *)
(* handlers, and one frame sent.  Commands become key presses, which go    *)
(* out one per pass from one buffer that all partitions share, while a     *)
(* flag of procesando keeps the next message waiting.                      *)
(*                                                                         *)
(* The panel and its keypads are the environment: they send any frame of   *)
(* Tramas, MaxTramas at most.  Keys are counted, and tagged with the       *)
(* partition they are for and the activity that loaded them.  mandarPanico *)
(* stands for all the requests of one frame that come after the keys.      *)
(***************************************************************************)
EXTENDS Naturals, Sequences

CONSTANTS
    Layers,        \* partitions present on the bus, 0 among them
    Pedidos,       \* messages the server sends, [reg, part]
    Tramas,        \* kinds of frame that the panel sends
    MaxPedidos,    \* bound on the messages of a behaviour
    MaxTramas,     \* bound on the frames, and on the exits from programming
    CodeLen,       \* digits of a user code
    FyhNibbles,    \* frames that carry date and time
    ReplayZones,   \* zones of a replay, 8 in the code
    EventBytes,    \* bytes of a full event log, 250 in the code
    OldLogBytes,   \* bytes taken for the log of an old recorder, 48 in the code
    Timeout        \* seconds given to the panel, 8 in the code

Registros == {"activar", "desactivar", "activarEstoy", "activarMeVoy",
              "inclusion", "modoEstoy", "modoMeVoy", "panico",
              "borrarMemoria", "eventos", "replay", "fechaHora"}
Modos == {"estoy", "meVoy", "ninguno"}
Estados == {"desactivada", "activada", "sonando", "programacion"}
Flags == {"setEstado", "setInclusion", "getEventos", "getReplay", "setFechayHora"}

ASSUME LayersAssumption == Layers \subseteq Nat /\ 0 \in Layers
ASSUME PedidosAssumption == Pedidos \subseteq [reg : Registros, part : Layers]
ASSUME BoundsAssumption ==
    /\ MaxPedidos \in Nat
    /\ MaxTramas \in Nat
    /\ CodeLen \in Nat \ {0}
    /\ FyhNibbles \in Nat \ {0}
    /\ ReplayZones \in Nat \ {0}
    /\ EventBytes \in Nat \ {0}
    /\ OldLogBytes \in Nat
    /\ Timeout \in Nat \ {0}

VARIABLES
    step,           \* where in the pass the main loop is
    wcom,           \* messages waiting in MESSAGE_POOL_FLOW_WCOM
    pedidos,        \* messages sent by the server so far
    tramas,         \* frames of the panel so far
    estadoAlarma,   \* what each partition last reported
    modo,           \* estoy, meVoy
    cambioModo,     \* mandandoCambioModoAEstoy, mandandoCambioModoAMeVoy
    codigo,         \* codigoUsuarioAMandar and its length
    bufferTeclas,   \* whose keys the buffer holds
    ptrTeclas,
    lenTeclas,
    mandarTeclas,   \* partitions with keys to send
    mandar,         \* requests of one frame, sent before or after the keys
    fyh,            \* frames of date and time still to send
    procesando,     \* procesandoMensajes of alarmMonitor.c and dateTime.c
    replay,         \* enReplay, timer_replay, indexReplay
    eventos,        \* timer_eventos, bytes received, es_9108, mande38368
    enProg          \* fsmProg.c is in fsmProg_esperoPP or beyond

entorno == <<pedidos, tramas>>
central == <<estadoAlarma, modo, enProg>>
teclas == <<bufferTeclas, ptrTeclas, lenTeclas, mandarTeclas>>
cambio == <<cambioModo, codigo>>
vars == <<step, wcom, entorno, central, teclas, cambio, mandar, fyh,
          procesando, replay, eventos>>

Colas == {"pedirReplay", "mandarBorrarMemoria", "pedirEventos", "mandarPanico"}
Antes == <<"pedirReplay", "mandarBorrarMemoria", "pedirEventos">>

Init ==
    /\ step = "receive"
    /\ wcom = <<>>
    /\ pedidos = 0
    /\ tramas = 0
    /\ estadoAlarma = [l \in Layers |-> "desactivada"]
    /\ modo = [l \in Layers |-> "ninguno"]
    /\ enProg = FALSE
    /\ bufferTeclas = [para |-> 0, de |-> "nadie"]
    /\ ptrTeclas = 0
    /\ lenTeclas = 0
    /\ mandarTeclas = {}
    /\ cambioModo = [l \in Layers |-> {}]
    /\ codigo = [para |-> 0, largo |-> 0]
    /\ mandar = [c \in Colas |-> {}]
    /\ fyh = 0
    /\ procesando = {}
    /\ replay = [en |-> FALSE, timer |-> 0, index |-> 0]
    /\ eventos = [timer |-> 0, bytes |-> 0, es9108 |-> FALSE, mande38368 |-> FALSE]
-----------------------------------------------------------------------------
(* Helpers. *)

\* sacarLayer: the lowest bit that is set.
SacarLayer(S) == CHOOSE l \in S : \A m \in S : l <= m

\* Slip: the pointer is left where it was.
Slip_Cargar(layer, para, de, n) ==
    /\ bufferTeclas' = [para |-> para, de |-> de]
    /\ lenTeclas' = n
    /\ mandarTeclas' = mandarTeclas \cup {layer}
    /\ UNCHANGED ptrTeclas

\* The writers of the buffer start it over, whatever it still holds.
Cargar(layer, para, de, n) ==
    /\ bufferTeclas' = [para |-> para, de |-> de]
    /\ ptrTeclas' = 0
    /\ lenTeclas' = n
    /\ mandarTeclas' = mandarTeclas \cup {layer}

TeclasAfuera == ptrTeclas >= lenTeclas

Poner(cola, layer) == mandar' = [mandar EXCEPT ![cola] = @ \cup {layer}]
-----------------------------------------------------------------------------
(* Frames of the panel: alarmMonitor_analizarMpxh, dateTime_analizarMpxh. *)

NuevaTrama(kind) ==
    /\ step = "receive"
    /\ kind \in Tramas
    /\ tramas < MaxTramas
    /\ tramas' = tramas + 1
    /\ step' = "dispatch"
    /\ UNCHANGED <<wcom, pedidos>>

NoFrame ==
    /\ step = "receive"
    /\ step' = "dispatch"
    /\ UNCHANGED <<wcom, entorno, central, teclas, cambio, mandar, fyh,
                   procesando, replay, eventos>>

\* 49x: what the partition reports of itself.
TramaEstado ==
    /\ NuevaTrama("estado")
    /\ \E l \in Layers, e \in Estados : estadoAlarma' = [estadoAlarma EXCEPT ![l] = e]
    /\ UNCHANGED <<modo, enProg, teclas, cambio, mandar, fyh, procesando, replay, eventos>>

\* 4bx: the mode.  The mode asked for has come: its code follows.  Another
\* mode has come: the MODO key once more.
ModoPedido(l, m) == m \in cambioModo[l] /\ ~(m = "meVoy" /\ "estoy" \in cambioModo[l])
ModoEquivocado(l, m) ==
    \/ m = "estoy" /\ "meVoy" \in cambioModo[l] /\ "estoy" \notin cambioModo[l]
    \/ m = "meVoy" /\ "estoy" \in cambioModo[l]

TramaModo ==
    /\ NuevaTrama("modo")
    /\ \E l \in Layers, m \in Modos :
        /\ modo' = [modo EXCEPT ![l] = m]
        /\ \/ /\ modo[l] # m
              /\ ModoPedido(l, m)
              /\ cambioModo' = [cambioModo EXCEPT ![l] = @ \ {m}]
              /\ IF codigo.largo > 0
                 THEN Cargar(l, codigo.para, "codigo", codigo.largo)
                 ELSE UNCHANGED teclas
           \/ /\ modo[l] # m
              /\ ModoEquivocado(l, m)
              /\ Cargar(l, l, "modo", 1)
              /\ UNCHANGED cambioModo
           \/ /\ modo[l] = m \/ ~(ModoPedido(l, m) \/ ModoEquivocado(l, m))
              /\ UNCHANGED <<teclas, cambioModo>>
    /\ UNCHANGED <<estadoAlarma, enProg, codigo, mandar, fyh, procesando, replay, eventos>>

\* Beginning of a replay, asked for or not.
TramaReplay ==
    /\ NuevaTrama("replay")
    /\ replay' = [replay EXCEPT !.en = TRUE, !.timer = Timeout,
                                !.index = IF replay.en THEN @ ELSE 0]
    /\ UNCHANGED <<central, teclas, cambio, mandar, fyh, procesando, eventos>>

\* One more zone of the replay: the last one ends it, and leaves the timer.
TramaZona ==
    /\ NuevaTrama("zona")
    /\ replay.en
    /\ replay' = [replay EXCEPT !.index = @ + 1, !.en = replay.index + 1 < ReplayZones]
    /\ procesando' = IF replay.index + 1 < ReplayZones THEN procesando
                     ELSE procesando \ {"getReplay"}
    /\ UNCHANGED <<central, teclas, cambio, mandar, fyh, eventos>>

TramaFinReplay ==
    /\ NuevaTrama("finReplay")
    /\ replay.en
    /\ replay' = [replay EXCEPT !.timer = 0, !.en = FALSE]
    /\ procesando' = procesando \ {"getReplay"}
    /\ UNCHANGED <<central, teclas, cambio, mandar, fyh, eventos>>

\* A byte of the event log, of an old recorder (T_xx) or of a new one (U_xx).
TramaEvento(kind) ==
    /\ NuevaTrama(kind)
    /\ "getEventos" \in procesando
    /\ eventos' = [eventos EXCEPT !.es9108 = (kind = "T"), !.timer = Timeout, !.bytes = @ + 1]
    /\ procesando' = IF eventos.bytes + 1 < EventBytes THEN procesando
                     ELSE procesando \ {"getEventos"}
    /\ UNCHANGED <<central, teclas, cambio, mandar, fyh, replay>>

\* 0A9, 0AA: another clock begins to send, ours stops.
TramaFyh ==
    /\ NuevaTrama("fyh")
    /\ fyh' = 0
    /\ UNCHANGED <<central, teclas, cambio, mandar, procesando, replay, eventos>>

\* The keys W, C, O, M while partition 0 is in programming.
TramaWcom ==
    /\ NuevaTrama("wcom")
    /\ estadoAlarma[0] = "programacion"
    /\ enProg' = TRUE
    /\ UNCHANGED <<estadoAlarma, modo, teclas, cambio, mandar, fyh, procesando, replay, eventos>>

\* A wrong key while P P is awaited, or F later on; F is thanked for.
TramaSalir ==
    /\ NuevaTrama("salir")
    /\ enProg
    /\ enProg' = FALSE
    /\ mandar' = mandar \/ Poner("mandarPanico", 0)
    /\ UNCHANGED <<estadoAlarma, modo, teclas, cambio, fyh, procesando, replay, eventos>>

Recibir ==
    \/ NoFrame
    \/ TramaEstado
    \/ TramaModo
    \/ TramaReplay
    \/ TramaZona
    \/ TramaFinReplay
    \/ TramaEvento("T")
    \/ TramaEvento("U")
    \/ TramaFyh
    \/ TramaWcom
    \/ TramaSalir
-----------------------------------------------------------------------------
(* The head of the queue: alarmMonitor_analizarIm, dateTime_analizarIm.    *)
(* The answers that the handlers send are left to MessagePool.             *)

Desactivada(l) == estadoAlarma[l] \in {"desactivada", "sonando"}
PuedeDesactivarse(l) == estadoAlarma[l] \in {"activada", "sonando"}

\* Slip: the flag is forgotten.
Slip_ConCodigo(l) ==
    /\ Cargar(l, l, "setEstado", CodeLen + 1)
    /\ UNCHANGED <<cambio, mandar, fyh, procesando, replay, eventos>>

\* F and the code of the user.
ConCodigo(l) ==
    /\ Cargar(l, l, "setEstado", CodeLen + 1)
    /\ procesando' = procesando \cup {"setEstado"}
    /\ UNCHANGED <<cambio, mandar, fyh, replay, eventos>>

\* F and MODO; the code waits for the mode.
CambiarModo(l, m) ==
    /\ Cargar(l, l, "setEstado", 2)
    /\ cambioModo' = [cambioModo EXCEPT ![l] = @ \cup {m}]
    /\ codigo' = [para |-> l, largo |-> CodeLen]
    /\ procesando' = procesando \cup {"setEstado"}
    /\ UNCHANGED <<mandar, fyh, replay, eventos>>

ActivarEnModo(l, m) ==
    /\ Desactivada(l)
    /\ \/ modo[l] = m /\ ConCodigo(l)
       \/ modo[l] # m /\ CambiarModo(l, m)

SetEstado(reg, l) ==
    \/ reg = "desactivar" /\ PuedeDesactivarse(l) /\ ConCodigo(l)
    \/ reg = "activar" /\ Desactivada(l) /\ ConCodigo(l)
    \/ reg = "activarEstoy" /\ ActivarEnModo(l, "estoy")
    \/ reg = "activarMeVoy" /\ ActivarEnModo(l, "meVoy")

\* Slip: the flag is forgotten.
Slip_SetInclusion(reg, l) ==
    /\ reg = "inclusion"
    /\ Desactivada(l)
    /\ Cargar(l, l, "setInclusion", 2)
    /\ UNCHANGED <<cambio, mandar, fyh, procesando, replay, eventos>>

\* The zones that change and F.
SetInclusion(reg, l) ==
    /\ reg = "inclusion"
    /\ Desactivada(l)
    /\ Cargar(l, l, "setInclusion", 2)
    /\ procesando' = procesando \cup {"setInclusion"}
    /\ UNCHANGED <<cambio, mandar, fyh, replay, eventos>>

\* F and MODO, and no flag.
SetModo(reg, l) ==
    /\ \E m \in {"estoy", "meVoy"} :
        /\ reg = (IF m = "estoy" THEN "modoEstoy" ELSE "modoMeVoy")
        /\ modo[l] # m
        /\ cambioModo' = [cambioModo EXCEPT ![l] = @ \cup {m}]
    /\ Cargar(l, l, "modo", 2)
    /\ codigo' = [codigo EXCEPT !.largo = 0]
    /\ UNCHANGED <<mandar, fyh, procesando, replay, eventos>>

ResetMemoria(reg, l) ==
    /\ reg = "borrarMemoria"
    /\ Desactivada(l)
    /\ Poner("mandarBorrarMemoria", l)
    /\ UNCHANGED <<teclas, cambio, fyh, procesando, replay, eventos>>

Disparar(reg, l) ==
    /\ reg = "panico"
    /\ Poner("mandarPanico", l)
    /\ UNCHANGED <<teclas, cambio, fyh, procesando, replay, eventos>>

GetEventos(reg, l) ==
    /\ reg = "eventos"
    /\ Poner("pedirEventos", l)
    /\ eventos' = [timer |-> Timeout, bytes |-> 0, es9108 |-> FALSE, mande38368 |-> FALSE]
    /\ procesando' = procesando \cup {"getEventos"}
    /\ UNCHANGED <<teclas, cambio, fyh, replay>>

GetReplay(reg, l) ==
    /\ reg = "replay"
    /\ ~replay.en
    /\ Poner("pedirReplay", l)
    /\ replay' = [en |-> FALSE, timer |-> Timeout, index |-> 0]
    /\ procesando' = procesando \cup {"getReplay"}
    /\ UNCHANGED <<teclas, cambio, fyh, eventos>>

SetFechaHora(reg, l) ==
    /\ reg = "fechaHora"
    /\ fyh' = FyhNibbles
    /\ procesando' = procesando \cup {"setFechayHora"}
    /\ UNCHANGED <<teclas, cambio, mandar, replay, eventos>>

\* Nothing but an answer: the partition is in another state, the mode is
\* already there, no zone changes, the bus has failed, another clock rules.
Rechazar(reg, l) ==
    /\ CASE reg = "desactivar" -> ~PuedeDesactivarse(l)
         [] reg \in {"activar", "activarEstoy", "activarMeVoy", "borrarMemoria"} -> ~Desactivada(l)
         [] reg = "modoEstoy" -> modo[l] = "estoy"
         [] reg = "modoMeVoy" -> modo[l] = "meVoy"
         [] OTHER -> reg \in {"inclusion", "replay", "fechaHora"}
    /\ UNCHANGED <<teclas, cambio, mandar, fyh, procesando, replay, eventos>>

Atender(reg, l) ==
    \/ SetEstado(reg, l)
    \/ SetInclusion(reg, l)
    \/ SetModo(reg, l)
    \/ ResetMemoria(reg, l)
    \/ Disparar(reg, l)
    \/ GetEventos(reg, l)
    \/ GetReplay(reg, l)
    \/ SetFechaHora(reg, l)
    \/ Rechazar(reg, l)

Dispatch ==
    /\ step = "dispatch"
    /\ procesando = {}
    /\ wcom # <<>>
    /\ Atender(Head(wcom).reg, Head(wcom).part)
    /\ wcom' = Tail(wcom)
    /\ step' = "handlers"
    /\ UNCHANGED <<entorno, central>>

NoDispatch ==
    /\ step = "dispatch"
    /\ procesando # {} \/ wcom = <<>>
    /\ step' = "handlers"
    /\ UNCHANGED <<wcom, entorno, central, teclas, cambio, mandar, fyh,
                   procesando, replay, eventos>>
-----------------------------------------------------------------------------
(* Handlers, in their order. *)

\* The clock sends date and time on its own account.
PatronSaca ==
    /\ step = "handlers"
    /\ tramas < MaxTramas
    /\ tramas' = tramas + 1
    /\ fyh' = FyhNibbles
    /\ UNCHANGED <<step, wcom, pedidos, central, teclas, cambio, mandar,
                   procesando, replay, eventos>>

\* fsmProg_handler after 32 s: an F into the buffer, and no bit for it.
ProgVence ==
    /\ step = "handlers"
    /\ enProg
    /\ enProg' = FALSE
    /\ bufferTeclas' = [para |-> 0, de |-> "prog"]
    /\ ptrTeclas' = 0
    /\ lenTeclas' = 1
    /\ UNCHANGED <<step, wcom, entorno, estadoAlarma, modo, mandarTeclas, cambio,
                   mandar, fyh, procesando, replay, eventos>>

\* Slip: the last key is not waited for.
Slip_FinTeclas ==
    IF ptrTeclas + 1 < lenTeclas THEN {}
    ELSE IF "setEstado" \in procesando THEN {"setEstado"} ELSE {"setInclusion"}

\* alarmMonitor_determinarFinProcesamiento
FinTeclas ==
    IF ~TeclasAfuera THEN {}
    ELSE IF "setEstado" \in procesando THEN {"setEstado"} ELSE {"setInclusion"}

\* dateTime_determinarFinProcesamiento
FinFyh == IF fyh = 0 THEN {"setFechayHora"} ELSE {}

DeterminarFin ==
    /\ step = "handlers"
    /\ step' = "bus"
    /\ procesando' = procesando \ (FinTeclas \cup FinFyh)
    /\ UNCHANGED <<wcom, entorno, central, teclas, cambio, mandar, fyh, replay, eventos>>
-----------------------------------------------------------------------------
(* One frame out, in the order of main.c. *)

FinDelPaso == step = "bus" /\ step' = "receive" /\ UNCHANGED <<wcom, entorno, central, cambio>>

\* The driver is sending, or the bus is not idle for long enough.
BusOcupado ==
    /\ FinDelPaso
    /\ UNCHANGED <<teclas, mandar, fyh, procesando, replay, eventos>>

Sacar(cola) ==
    /\ FinDelPaso
    /\ mandar[cola] # {}
    /\ mandar' = [mandar EXCEPT ![cola] = @ \ {SacarLayer(@)}]
    /\ UNCHANGED <<teclas, fyh, procesando, replay, eventos>>

SinPedidos == \A i \in 1..3 : mandar[Antes[i]] = {}

SacarPedido ==
    \E i \in 1..3 :
        /\ \A j \in 1..(i - 1) : mandar[Antes[j]] = {}
        /\ Sacar(Antes[i])

\* Slip: the bit is cleared one key too late.
Slip_SacarTecla ==
    /\ FinDelPaso
    /\ SinPedidos
    /\ mandarTeclas # {}
    /\ ~TeclasAfuera
    /\ ptrTeclas' = ptrTeclas + 1
    /\ mandarTeclas' = IF ptrTeclas >= lenTeclas
                       THEN mandarTeclas \ {SacarLayer(mandarTeclas)}
                       ELSE mandarTeclas
    /\ UNCHANGED <<bufferTeclas, lenTeclas, mandar, fyh, procesando, replay, eventos>>

SacarTecla ==
    /\ FinDelPaso
    /\ SinPedidos
    /\ mandarTeclas # {}
    /\ ~TeclasAfuera
    /\ ptrTeclas' = ptrTeclas + 1
    /\ mandarTeclas' = IF ptrTeclas + 1 >= lenTeclas
                       THEN mandarTeclas \ {SacarLayer(mandarTeclas)}
                       ELSE mandarTeclas
    /\ UNCHANGED <<bufferTeclas, lenTeclas, mandar, fyh, procesando, replay, eventos>>

SacarFyh ==
    /\ FinDelPaso
    /\ SinPedidos
    /\ mandarTeclas = {}
    /\ fyh > 0
    /\ fyh' = fyh - 1
    /\ UNCHANGED <<teclas, mandar, procesando, replay, eventos>>

\* The requests of one frame that come after the keys.
SacarPanico ==
    /\ SinPedidos
    /\ mandarTeclas = {}
    /\ fyh = 0
    /\ Sacar("mandarPanico")
-----------------------------------------------------------------------------
(* Once a second, and the server. *)

SacaEvent ==
    /\ eventos.timer = 1
    /\ eventos.bytes \notin {EventBytes, OldLogBytes}
    /\ ~eventos.mande38368
    /\ eventos.es9108

\* Slip: the time is over and the flag is kept.
Slip_FinReplay == {}

FinReplay == IF replay.timer = 1 THEN {"getReplay"} ELSE {}
FinEventos ==
    IF eventos.timer = 1 /\ ~SacaEvent /\ eventos.bytes # EventBytes
    THEN {"getEventos"} ELSE {}

\* Slip: a timer that is off goes on counting.
Slip_LessOne(n) == n - 1

LessOne(n) == IF n = 0 THEN 0 ELSE n - 1

\* alarmMonitor_timers1s_handler.  An old recorder that falls silent is sent
\* the keys 3 8 3 6 8, with no timer for its answer.
Tick ==
    /\ step = "receive"
    /\ replay.timer > 0 \/ eventos.timer > 0
    /\ replay' = [replay EXCEPT !.timer = LessOne(@),
                                !.en = @ /\ replay.timer # 1]
    /\ eventos' = [eventos EXCEPT
            !.timer = LessOne(@),
            !.mande38368 = \/ SacaEvent
                           \/ @ /\ ~(eventos.timer = 1
                                     /\ eventos.bytes \notin {EventBytes, OldLogBytes})]
    /\ procesando' = procesando \ (FinReplay \cup FinEventos)
    /\ IF SacaEvent THEN Cargar(0, 0, "eventos", 5) ELSE UNCHANGED teclas
    /\ UNCHANGED <<step, wcom, entorno, central, cambio, mandar, fyh>>

ServerSends ==
    /\ step = "receive"
    /\ pedidos < MaxPedidos
    /\ pedidos' = pedidos + 1
    /\ \E p \in Pedidos : wcom' = Append(wcom, p)
    /\ UNCHANGED <<step, tramas, central, teclas, cambio, mandar, fyh,
                   procesando, replay, eventos>>

Next ==
    \/ Recibir
    \/ Dispatch
    \/ NoDispatch
    \/ PatronSaca
    \/ ProgVence
    \/ DeterminarFin
    \/ BusOcupado
    \/ SacarPedido
    \/ SacarTecla
    \/ SacarFyh
    \/ SacarPanico
    \/ Tick
    \/ ServerSends

Spec == Init /\ [][Next]_vars

Pasos == NoFrame \/ Dispatch \/ NoDispatch \/ DeterminarFin \/ BusOcupado

\* The loop never stops, the timer interrupt ticks and the bus is free again
\* and again: of the chances to send, infinitely many are taken.
Fairness ==
    /\ WF_vars(Pasos)
    /\ SF_vars(Tick)
    /\ SF_vars(SacarPedido \/ SacarTecla \/ SacarFyh \/ SacarPanico)

FairSpec == Spec /\ Fairness
-----------------------------------------------------------------------------
(* Properties. *)

\* Every variable has the type of its declaration in the code.
TypeOK ==
    /\ step \in {"receive", "dispatch", "handlers", "bus"}
    /\ wcom \in Seq(Pedidos)
    /\ pedidos \in 0..MaxPedidos
    /\ tramas \in 0..MaxTramas
    /\ estadoAlarma \in [Layers -> Estados]
    /\ modo \in [Layers -> Modos]
    /\ enProg \in BOOLEAN
    /\ bufferTeclas \in [para : Layers, de : {"nadie", "setEstado", "setInclusion",
                                              "modo", "codigo", "eventos", "prog"}]
    /\ ptrTeclas \in Nat
    /\ lenTeclas \in Nat
    /\ mandarTeclas \subseteq Layers
    /\ cambioModo \in [Layers -> SUBSET Modos]
    /\ codigo \in [para : Layers, largo : {0, CodeLen}]
    /\ mandar \in [Colas -> SUBSET Layers]
    /\ fyh \in 0..FyhNibbles
    /\ procesando \subseteq Flags
    /\ replay \in [en : BOOLEAN, timer : 0..Timeout, index : 0..ReplayZones]
    /\ eventos \in [timer : 0..Timeout, bytes : 0..EventBytes,
                    es9108 : BOOLEAN, mande38368 : BOOLEAN]

\* A partition that waits for keys has keys in the buffer.  Otherwise the
\* else-if of main.c:389 sends nothing, and nothing below it is sent either.
BusNotBlocked == mandarTeclas # {} => ~TeclasAfuera

\* The keys in the buffer go to the partition they were loaded for, and a
\* user code is never typed into another partition (main.c:391).
KeysGoToTheirPartition ==
    mandarTeclas # {} => bufferTeclas.para = SacarLayer(mandarTeclas)

\* A command of the server is over when its own keys, all of them, have been
\* sent (alarmMonitor.c:919-927).
KeysSentBeforeRelease ==
    [][\A f \in {"setEstado", "setInclusion"} :
         f \in procesando /\ f \notin procesando' =>
            bufferTeclas.de = f /\ TeclasAfuera]_vars

\* However a command ends, its flag is released and the next message of the
\* server is attended to (main.c:287).
EveryMessageServed == []<>(wcom = <<>> /\ procesando = {})

\* A panic asked for by the server reaches the bus, whatever else is sent.
PanicSent == mandar["mandarPanico"] # {} ~> mandar["mandarPanico"] = {}
=============================================================================

---------------------------- MODULE WiFiManager ----------------------------
(* The Wi-Fi manager (WiFiManager.c) with its server socket (socketManager.c): *)
(* the state machine that joins a network, offers an access point for the     *)
(* app, or tries WPS; the callback of the driver; the list of sockets.  The   *)
(* driver, the network, the phone and the button are the environment.  The    *)
(* factory test, in which the machine behaves otherwise, is left out.         *)
EXTENDS Naturals, Sequences

CONSTANTS
    MaxSockets,     \* MAX_N_SOCKETS, 5
    LateEvents,     \* the manager may run before the driver has told what happened
    MaxButtons,     \* bound on the presses of five seconds
    MaxFaults,      \* bound on what goes wrong in the driver and in the network
    MaxPhones,      \* bound on the visits of a phone
    MaxEvents       \* bound on the events that wait in the driver

ASSUME SocketsAssumption == MaxSockets \in Nat \ {0}
ASSUME LateAssumption == LateEvents \in BOOLEAN
ASSUME BoundsAssumption ==
    MaxButtons \in Nat /\ MaxFaults \in Nat /\ MaxPhones \in Nat /\ MaxEvents \in Nat

VARIABLES
    fsmState, stateIn,
    chequearWiFiPrevio,
    provisioningInfoAvailable,
    ap_enable, wps_enable, wifi_connected,
    apClientsCount, apClientsCountPrev,
    server,        \* socketId and listening of serverSocket: "none", "binding" or "listening"
    cliente,       \* its clientSocketId is a socket
    entradas,      \* entries of socketList that point to serverSocket
    sta,           \* the station in the driver: "down", "connecting" or "up"
    dhcp,          \* an address has been asked for
    eventos,       \* events of the driver that the callback has not got
    phone,         \* a phone is on the access point
    botones, fallas, visitas,
    infoVieja,     \* history: data used in modoWps have been left available
    wpsSuelto,     \* history: WPS has been started and not waited for
    servidorFallo  \* history: a server socket has failed

apVars == <<ap_enable, apClientsCount, apClientsCountPrev>>
serverVars == <<server, cliente, entradas>>
driverVars == <<sta, dhcp, eventos, phone>>
counts == <<botones, fallas, visitas>>
history == <<infoVieja, wpsSuelto, servidorFallo>>
fsmVars == <<fsmState, stateIn>>
flags == <<chequearWiFiPrevio, provisioningInfoAvailable, wps_enable, wifi_connected>>
vars == <<fsmVars, flags, apVars, serverVars, driverVars, counts, history>>

States == {"init", "chequearWiFiPrevio", "desconectado", "conectado", "escuchandoConexiones",
           "esperandoDatosWiFi", "modoWps", "conectando", "noSeConecto"}

\* The driver tells of its station and of a phone with the same events.
Events == {"connected", "disconnected", "dhcp", "wps"}

FsmType ==
    /\ fsmState \in States
    /\ stateIn \in BOOLEAN

FlagsType ==
    /\ chequearWiFiPrevio \in BOOLEAN
    /\ provisioningInfoAvailable \in BOOLEAN
    /\ ap_enable \in BOOLEAN
    /\ wps_enable \in BOOLEAN
    /\ wifi_connected \in BOOLEAN
    /\ cliente \in BOOLEAN
    /\ dhcp \in BOOLEAN
    /\ phone \in BOOLEAN
    /\ infoVieja \in BOOLEAN
    /\ wpsSuelto \in BOOLEAN
    /\ servidorFallo \in BOOLEAN

CountsType ==
    /\ apClientsCount \in Nat
    /\ apClientsCountPrev \in Nat
    /\ entradas \in 0 .. MaxSockets
    /\ botones \in Nat
    /\ fallas \in Nat
    /\ visitas \in Nat

DriverType ==
    /\ server \in {"none", "binding", "listening"}
    /\ sta \in {"down", "connecting", "up"}
    /\ eventos \in Seq(Events)

TypeOK == FsmType /\ FlagsType /\ CountsType /\ DriverType

\* wifiManager_init and socketManager_init.
Init ==
    /\ fsmState = "init" /\ stateIn = TRUE
    /\ chequearWiFiPrevio = TRUE
    /\ provisioningInfoAvailable = FALSE
    /\ ap_enable = FALSE /\ wps_enable = FALSE /\ wifi_connected = FALSE
    /\ apClientsCount = 0 /\ apClientsCountPrev = 0
    /\ server = "none" /\ cliente = FALSE /\ entradas = 0
    /\ sta = "down" /\ dhcp = FALSE /\ eventos = <<>> /\ phone = FALSE
    /\ botones = 0 /\ fallas = 0 /\ visitas = 0
    /\ infoVieja = FALSE /\ wpsSuelto = FALSE /\ servidorFallo = FALSE

IsWiFiConnected == wifi_connected /\ ~ap_enable /\ ~wps_enable

Fault == fallas < MaxFaults /\ fallas' = fallas + 1

-----------------------------------------------------------------------------
(* The driver and the callback wifi_cb. *)

Tell(e) == Len(eventos) < MaxEvents /\ eventos' = Append(eventos, e)

DriverConnects ==
    /\ sta = "connecting"
    /\ sta' = "up"
    /\ Tell("connected")
    /\ UNCHANGED <<fsmVars, flags, apVars, serverVars, dhcp, phone, counts, history>>

\* The attempt fails, or the network is lost.
DriverDisconnects ==
    /\ sta # "down"
    /\ Fault
    /\ sta' = "down"
    /\ dhcp' = FALSE
    /\ Tell("disconnected")
    /\ UNCHANGED <<fsmVars, flags, apVars, serverVars, phone, botones, visitas, history>>

DriverGetsAddress ==
    /\ sta = "up"
    /\ dhcp
    /\ dhcp' = FALSE
    /\ Tell("dhcp")
    /\ UNCHANGED <<fsmVars, flags, apVars, serverVars, sta, phone, counts, history>>

WpsAnswers ==
    /\ wps_enable
    /\ Tell("wps")
    /\ UNCHANGED <<fsmVars, flags, apVars, serverVars, sta, dhcp, phone, counts, history>>

PhoneJoins ==
    /\ ap_enable /\ ~phone
    /\ visitas < MaxPhones
    /\ visitas' = visitas + 1
    /\ phone' = TRUE
    /\ Tell("connected")
    /\ UNCHANGED <<fsmVars, flags, apVars, serverVars, sta, dhcp, botones, fallas, history>>

PhoneLeaves ==
    /\ phone
    /\ phone' = FALSE
    /\ Tell("disconnected")
    /\ UNCHANGED <<fsmVars, flags, apVars, serverVars, sta, dhcp, counts, history>>

Next_event == Head(eventos)
Taken == eventos # <<>> /\ eventos' = Tail(eventos)

\* M2M_WIFI_CONNECTED: the station asks for an address, the access point counts.
CbConnected ==
    /\ Taken /\ Next_event = "connected"
    /\ IF ap_enable
       THEN apClientsCount' = apClientsCount + 1 /\ UNCHANGED dhcp
       ELSE dhcp' = (sta = "up") /\ UNCHANGED apClientsCount
    /\ UNCHANGED <<fsmVars, flags, ap_enable, apClientsCountPrev, serverVars, sta, phone,
                   counts, history>>

Slip_CbDisconnected ==
    /\ Taken /\ Next_event = "disconnected"
    /\ IF ap_enable
       THEN apClientsCount' = apClientsCount - 1 /\ UNCHANGED wifi_connected
       ELSE wifi_connected' = FALSE /\ UNCHANGED apClientsCount
    /\ UNCHANGED <<fsmVars, chequearWiFiPrevio, provisioningInfoAvailable, wps_enable,
                   ap_enable, apClientsCountPrev, serverVars, sta, dhcp, phone, counts, history>>

Slip_CbDisconnectedKeepsFlag ==
    /\ Taken /\ Next_event = "disconnected"
    /\ apClientsCount' = IF ap_enable /\ apClientsCount > 0 THEN apClientsCount - 1
                                                            ELSE apClientsCount
    /\ UNCHANGED <<fsmVars, flags, ap_enable, apClientsCountPrev, serverVars, sta, dhcp,
                   phone, counts, history>>

\* M2M_WIFI_DISCONNECTED.  With the access point on, it is taken for a phone's, and
\* wifi_connected keeps its value.
CbDisconnected ==
    /\ Taken /\ Next_event = "disconnected"
    /\ IF ap_enable
       THEN /\ apClientsCount' = IF apClientsCount > 0 THEN apClientsCount - 1 ELSE 0
            /\ UNCHANGED wifi_connected
       ELSE wifi_connected' = FALSE /\ UNCHANGED apClientsCount
    /\ UNCHANGED <<fsmVars, chequearWiFiPrevio, provisioningInfoAvailable, wps_enable,
                   ap_enable, apClientsCountPrev, serverVars, sta, dhcp, phone, counts, history>>

CbDhcp ==
    /\ Taken /\ Next_event = "dhcp"
    /\ wifi_connected' = (wifi_connected \/ ~ap_enable)
    /\ UNCHANGED <<fsmVars, chequearWiFiPrevio, provisioningInfoAvailable, wps_enable, apVars,
                   serverVars, sta, dhcp, phone, counts, history>>

CbWps ==
    /\ Taken /\ Next_event = "wps"
    /\ provisioningInfoAvailable' = TRUE
    /\ wps_enable' = FALSE
    /\ UNCHANGED <<fsmVars, chequearWiFiPrevio, wifi_connected, apVars, serverVars, sta, dhcp,
                   phone, counts, history>>

-----------------------------------------------------------------------------
(* The server socket: socket_cb, and the callbacks of the manager. *)

ServerListens ==
    /\ server = "binding"
    /\ server' = "listening"
    /\ UNCHANGED <<fsmVars, flags, apVars, cliente, entradas, driverVars, counts, history>>

\* bind, listen or accept fails: socketManager_close, which leaves the entry.
ServerFails ==
    /\ server # "none" /\ ~cliente
    /\ Fault
    /\ server' = "none"
    /\ servidorFallo' = TRUE
    /\ UNCHANGED <<fsmVars, flags, apVars, cliente, entradas, driverVars, botones, visitas,
                   infoVieja, wpsSuelto>>

ClientAccepted ==
    /\ server = "listening" /\ phone /\ ~cliente
    /\ cliente' = TRUE
    /\ UNCHANGED <<fsmVars, flags, apVars, server, entradas, driverVars, counts, history>>

\* socket_client_received, with a whole SSID&password&security.
ClientData ==
    /\ cliente /\ phone
    /\ provisioningInfoAvailable' = TRUE
    /\ UNCHANGED <<fsmVars, chequearWiFiPrevio, wps_enable, wifi_connected, apVars, serverVars,
                   driverVars, counts, history>>

\* An error of recv: socketManager_closeClient.
ClientGone ==
    /\ cliente
    /\ cliente' = FALSE
    /\ UNCHANGED <<fsmVars, flags, apVars, server, entradas, driverVars, counts, history>>

CreateServerSocket ==
    IF entradas < MaxSockets
    THEN server' = "binding" /\ cliente' = FALSE /\ entradas' = entradas + 1
    ELSE UNCHANGED serverVars

Slip_DeleteServerSocket ==
    IF server = "listening"
    THEN server' = "none" /\ cliente' = FALSE /\ UNCHANGED entradas
    ELSE UNCHANGED serverVars

\* Only a socket that listens is closed and taken off the list.
DeleteServerSocket ==
    IF server = "listening"
    THEN server' = "none" /\ cliente' = FALSE /\ entradas' = entradas - 1
    ELSE UNCHANGED serverVars

\* The station goes down with the start of the access point.
EnableAp ==
    /\ sta' = "down"
    /\ dhcp' = FALSE
    /\ IF sta = "up" THEN Tell("disconnected") ELSE UNCHANGED eventos

DisableAp == ap_enable' = FALSE /\ phone' = FALSE

-----------------------------------------------------------------------------
(* A pass of wifiManager_ProvisioningFsmHandler, by the state it finds.  b: the *)
(* button has been down for five seconds; t: fsmTimer has expired.              *)

Goto(s) == fsmState' = s /\ stateIn' = TRUE
Stay == stateIn' = FALSE /\ UNCHANGED fsmState

Pass(s) == fsmState = s /\ (LateEvents \/ (eventos = <<>> /\ server # "binding"))
Entry(s) == Pass(s) /\ stateIn
Later(s) == Pass(s) /\ ~stateIn

Button(b) == IF b THEN botones < MaxButtons /\ botones' = botones + 1 ELSE UNCHANGED botones

\* The states whose entry only starts a timer.
EnterTimed(s) ==
    /\ s \in {"init", "esperandoDatosWiFi", "noSeConecto"}
    /\ Entry(s)
    /\ s = "esperandoDatosWiFi" => ~provisioningInfoAvailable /\ cliente
    /\ Stay
    /\ UNCHANGED <<flags, apVars, serverVars, driverVars, counts, history>>

InitExpires ==
    /\ Later("init")
    /\ Goto("chequearWiFiPrevio")
    /\ UNCHANGED <<flags, apVars, serverVars, driverVars, counts, history>>

\* m2m_wifi_default_connect; a flag that is still up is believed at once.
EnterCheck ==
    /\ Entry("chequearWiFiPrevio")
    /\ sta' = IF sta = "up" THEN "up" ELSE "connecting"
    /\ IF IsWiFiConnected THEN Goto("conectado") ELSE Stay
    /\ UNCHANGED <<flags, apVars, serverVars, dhcp, eventos, phone, counts, history>>

\* An attempt that is not over when its timer expires counts as a fault.
Overdue == IF sta = "down" THEN UNCHANGED fallas ELSE Fault

Check(t) ==
    /\ Later("chequearWiFiPrevio")
    /\ IF IsWiFiConnected THEN Goto("conectado") /\ UNCHANGED fallas
       ELSE t /\ Goto("desconectado") /\ Overdue
    /\ UNCHANGED <<flags, apVars, serverVars, driverVars, botones, visitas, history>>

Disconnected ==
    /\ Pass("desconectado")
    /\ Goto("escuchandoConexiones")
    /\ UNCHANGED <<flags, apVars, serverVars, driverVars, counts, history>>

\* The first pass with the access point.  Data that WPS brought before are still
\* there: the manager leaves at once, and deleteServerSocket finds that the socket
\* is not listening yet.
EnterListening(b) ==
    /\ Entry("escuchandoConexiones")
    /\ Button(b)
    /\ apClientsCount' = 0 /\ apClientsCountPrev' = 0
    /\ EnableAp
    /\ CreateServerSocket
    /\ provisioningInfoAvailable' = FALSE
    /\ IF b THEN Goto("modoWps") /\ ap_enable' = TRUE
       ELSE IF provisioningInfoAvailable THEN Goto("conectando") /\ ap_enable' = FALSE
       ELSE Stay /\ ap_enable' = TRUE
    /\ UNCHANGED <<chequearWiFiPrevio, wps_enable, wifi_connected, phone, fallas, visitas,
                   history>>

\* t2: timerApMode has expired.
Alone == apClientsCount = 0
Slip_GivesUp(t, t2) == Alone /\ chequearWiFiPrevio /\ t
GivesUp(t, t2) == Alone /\ IF chequearWiFiPrevio THEN t ELSE t2
PhoneLeft == Alone /\ apClientsCountPrev > 0

\* The tests of the case in the order of the code; the last gotoState wins.
Listening(b, t, t2) ==
    LET info == provisioningInfoAvailable /\ ~b
        closes == GivesUp(t, t2) \/ PhoneLeft
        client == cliente /\ ~(closes /\ server = "listening")
    IN
    /\ Later("escuchandoConexiones")
    /\ Button(b)
    /\ IF closes \/ info
       THEN DeleteServerSocket /\ DisableAp
       ELSE UNCHANGED <<serverVars, ap_enable, phone>>
    /\ IF info THEN Goto("conectando")
       ELSE IF client THEN Goto("esperandoDatosWiFi")
       ELSE IF PhoneLeft THEN Goto("escuchandoConexiones")
       ELSE IF b THEN Goto("modoWps")
       ELSE IF GivesUp(t, t2) THEN Goto("chequearWiFiPrevio")
       ELSE Stay
    /\ provisioningInfoAvailable' = FALSE
    /\ apClientsCountPrev' = apClientsCount
    /\ UNCHANGED <<chequearWiFiPrevio, wps_enable, wifi_connected, apClientsCount, sta, dhcp,
                   eventos, fallas, visitas, history>>

Connected(b) ==
    /\ Pass("conectado")
    /\ Button(b)
    /\ chequearWiFiPrevio' = ((stateIn \/ chequearWiFiPrevio) /\ ~b)
    /\ IF b \/ ~IsWiFiConnected THEN Goto("desconectado") ELSE Stay
    /\ IF b /\ sta # "down"
       THEN sta' = "down" /\ dhcp' = FALSE /\ Tell("disconnected")
       ELSE UNCHANGED <<sta, dhcp, eventos>>
    /\ UNCHANGED <<provisioningInfoAvailable, wps_enable, wifi_connected, apVars, serverVars,
                   phone, fallas, visitas, history>>

Slip_WaitingData(t) ==
    /\ Pass("esperandoDatosWiFi")
    /\ stateIn => ~t
    /\ \/ provisioningInfoAvailable /\ Goto("conectando")
       \/ ~provisioningInfoAvailable /\ (~cliente \/ t) /\ Goto("escuchandoConexiones")
    /\ provisioningInfoAvailable' = FALSE
    /\ DeleteServerSocket
    /\ UNCHANGED <<chequearWiFiPrevio, wps_enable, wifi_connected, apVars, driverVars, counts,
                   history>>

\* The exit closes the server and the access point, whatever the reason.
WaitingData(t) ==
    /\ Pass("esperandoDatosWiFi")
    /\ stateIn => ~t
    /\ \/ provisioningInfoAvailable /\ Goto("conectando")
       \/ ~provisioningInfoAvailable /\ (~cliente \/ t) /\ Goto("escuchandoConexiones")
    /\ provisioningInfoAvailable' = FALSE
    /\ DeleteServerSocket
    /\ DisableAp
    /\ UNCHANGED <<chequearWiFiPrevio, wps_enable, wifi_connected, apClientsCount,
                   apClientsCountPrev, sta, dhcp, eventos, counts, history>>

\* The button cannot have been down for five seconds again.  Data of a phone that came
\* since the button was seen take the manager away with WPS on: nothing stops it.
EnterWps ==
    /\ Entry("modoWps")
    /\ DeleteServerSocket
    /\ DisableAp
    /\ wps_enable' = TRUE
    /\ IF provisioningInfoAvailable THEN Goto("conectando") ELSE Stay
    /\ wpsSuelto' = (wpsSuelto \/ provisioningInfoAvailable)
    /\ infoVieja' = (infoVieja \/ provisioningInfoAvailable)
    /\ UNCHANGED <<chequearWiFiPrevio, provisioningInfoAvailable, wifi_connected,
                   apClientsCount, apClientsCountPrev, sta, dhcp, eventos, counts, servidorFallo>>

Slip_WpsMode(b, t) ==
    /\ Later("modoWps")
    /\ Button(b)
    /\ wps_enable' = (wps_enable /\ ~b)
    /\ IF provisioningInfoAvailable THEN Goto("conectando")
       ELSE (b \/ t) /\ Goto("escuchandoConexiones")
    /\ infoVieja' = (infoVieja \/ provisioningInfoAvailable)
    /\ UNCHANGED <<chequearWiFiPrevio, provisioningInfoAvailable, wifi_connected, apVars,
                   serverVars, driverVars, fallas, visitas, wpsSuelto, servidorFallo>>

\* The data are left available for the next state.
WpsMode(b, t) ==
    /\ Later("modoWps")
    /\ Button(b)
    /\ wps_enable' = (wps_enable /\ ~b /\ ~t)
    /\ IF provisioningInfoAvailable THEN Goto("conectando")
       ELSE (b \/ t) /\ Goto("escuchandoConexiones")
    /\ infoVieja' = (infoVieja \/ provisioningInfoAvailable)
    /\ UNCHANGED <<chequearWiFiPrevio, provisioningInfoAvailable, wifi_connected, apVars,
                   serverVars, driverVars, fallas, visitas, wpsSuelto, servidorFallo>>

\* m2m_wifi_connect.
EnterConnecting ==
    /\ Entry("conectando")
    /\ sta' = "connecting"
    /\ Stay
    /\ UNCHANGED <<flags, apVars, serverVars, dhcp, eventos, phone, counts, history>>

ConnectingExpires ==
    /\ Later("conectando")
    /\ IF IsWiFiConnected THEN Goto("conectado") /\ UNCHANGED fallas
       ELSE Goto("noSeConecto") /\ Overdue
    /\ UNCHANGED <<flags, apVars, serverVars, driverVars, botones, visitas, history>>

NotConnectedExpires ==
    /\ Later("noSeConecto")
    /\ Goto("escuchandoConexiones")
    /\ UNCHANGED <<flags, apVars, serverVars, driverVars, counts, history>>

-----------------------------------------------------------------------------
Driver ==
    \/ DriverConnects \/ DriverDisconnects \/ DriverGetsAddress \/ WpsAnswers
    \/ PhoneJoins \/ PhoneLeaves

Callbacks ==
    \/ CbConnected \/ CbDisconnected \/ CbDhcp \/ CbWps
    \/ ServerListens \/ ServerFails \/ ClientAccepted \/ ClientData \/ ClientGone

Handler ==
    \/ \E s \in States : EnterTimed(s)
    \/ InitExpires
    \/ EnterCheck
    \/ \E t \in BOOLEAN : Check(t)
    \/ Disconnected
    \/ \E b \in BOOLEAN : EnterListening(b)
    \/ \E b, t, t2 \in BOOLEAN : Listening(b, t, t2)
    \/ \E b \in BOOLEAN : Connected(b)
    \/ \E t \in BOOLEAN : WaitingData(t)
    \/ EnterWps
    \/ \E b, t \in BOOLEAN : WpsMode(b, t)
    \/ EnterConnecting
    \/ ConnectingExpires
    \/ NotConnectedExpires

Next == Driver \/ Callbacks \/ Handler

Spec == Init /\ [][Next]_vars

\* What the code's scheduling owes: the main loop hands over the events of the driver
\* and passes for ever, and a timer that runs expires.  What the world owes: the
\* driver answers what it is asked, and a phone goes away.
Deliver == CbConnected \/ CbDisconnected \/ CbDhcp \/ CbWps \/ ServerListens

PassWhenExpired ==
    \/ \E s \in States : EnterTimed(s)
    \/ InitExpires
    \/ EnterCheck \/ Check(TRUE)
    \/ Disconnected
    \/ EnterListening(FALSE) \/ Listening(FALSE, TRUE, TRUE)
    \/ Connected(FALSE)
    \/ \E t \in BOOLEAN : WaitingData(t)
    \/ EnterWps \/ WpsMode(FALSE, TRUE)
    \/ EnterConnecting \/ ConnectingExpires
    \/ NotConnectedExpires

Fairness ==
    /\ WF_vars(Deliver) /\ WF_vars(PassWhenExpired)
    /\ WF_vars(DriverConnects) /\ WF_vars(DriverGetsAddress) /\ WF_vars(PhoneLeaves)

FairSpec == Spec /\ Fairness

-----------------------------------------------------------------------------
(* Properties. *)

\* The access point is on only where the manager listens for the app, and WPS only
\* while the manager waits for it.  Outside of these isWiFiConnected, which denies a
\* connection under either, would keep the IM client off the network.
ApOnlyWhileListening ==
    ap_enable => \/ fsmState = "escuchandoConexiones" /\ ~stateIn
                 \/ fsmState = "esperandoDatosWiFi"
                 \/ fsmState = "modoWps" /\ stateIn

\* (Data of a phone that arrive right after the button leave it on: wpsSuelto.)
WpsOnlyInModoWps == wps_enable => (fsmState = "modoWps" /\ ~stateIn) \/ wpsSuelto

\* The server socket the manager has a use for.
Serving == \/ fsmState = "escuchandoConexiones" /\ ~stateIn
           \/ fsmState = "esperandoDatosWiFi"
           \/ fsmState = "modoWps" /\ stateIn

\* The list of five sockets keeps no entry of a server socket that is not in use,
\* unless data used in modoWps were left available or a server socket has failed.
EntriesExplained ==
    entradas > (IF Serving THEN 1 ELSE 0) => infoVieja \/ servidorFallo

\* wifi_connected speaks of the station: when the network is lost it does not stay
\* up for ever (a DISCONNECTED that finds the access point on is not heard).
Truthful == (wifi_connected /\ sta # "up") ~> (~wifi_connected \/ sta = "up")

\* Whatever the button, the phone and a bounded number of faults do, the manager is
\* on the network again and again: no state of provisioning holds it for ever, but
\* for a WPS that was left on, under which isWiFiConnected denies every connection.
OnNetwork == fsmState = "conectado" /\ sta = "up" /\ IsWiFiConnected
WpsLeftOn == wpsSuelto /\ wps_enable /\ fsmState # "modoWps"
Recovers == []<>OnNetwork \/ <>[]WpsLeftOn
=============================================================================

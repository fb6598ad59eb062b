------------------------------ MODULE ImClient ------------------------------
(***************************************************************************)
(* The client of the broker over Wi-Fi: imClient.c with the MQTT client    *)
(* below it (mqttClient.c and Paho), connectivityManager beside it, and    *)
(* the TCP link and the broker as they are seen from there.                *)
(*                                                                         *)
(* The firmware is one loop: imClient_handler, then mainLoop.  But every   *)
(* blocking call of Paho (connect, subscribe, publish, disconnect, yield)  *)
(* runs mainLoop again and again while it waits, so that events are posted *)
(* and the interface changes in the middle of imClient_handler, which then *)
(* assigns its own next state.  "pc" says where the loop is: in mainLoop,  *)
(* in mqttClient_yield, at the switch of imClient_handler, or inside one   *)
(* of the blocking calls.                                                  *)
(*                                                                         *)
(* Timers are read as expired or not at will, except those of              *)
(* connectivityManager.  Events are numbers, in the order of posting; 0 is *)
(* the frame that is built from a null message.  The output queue is the   *)
(* FIFO that MessagePool is shown to be, and is never as long as the pool. *)
(* The cellular side of the code is left out: the main loop never runs     *)
(* cellularManager_handler.                                                *)
(***************************************************************************)
EXTENDS ConnectivityManager, Sequences, SequencesExt

CONSTANTS TcpSockMax,    \* TCP_SOCK_MAX
          Scenarios      \* what can go wrong together: the kinds of disturbance that
                         \* happen, how many of them, and how many events are posted

\* wifi: Wi-Fi is lost; link: the TCP link dies, or cannot be opened; silent:
\* recv does not tell that the link has died and a PINGREQ is tried on it;
\* slow: the broker answers after Paho has given up, or a pass of the loop takes
\* more than two seconds;
\* reset: the configuration of the broker is changed; retention: ten minutes
\* go by without an event; init: client_init, which has no return statement,
\* returns a negative number; menu: the programming mode, entered in the first two
\* seconds, is left, and mainFsm initialises everything again.
FaultKinds == {"wifi", "link", "silent", "slow", "reset", "retention", "init", "menu"}

ASSUME ImClientAssumption ==
    /\ TcpSockMax \in Nat
    /\ Scenarios \subseteq [kinds : SUBSET FaultKinds, faults : Nat, events : Nat]

VARIABLES fsmState, interface, nextInterface, resetConnection,
          published, subscribed,
          sendingError,    \* 0 .. 2: the code only asks whether it is 2 or more
          tries,           \* connectToBrokerTries, likewise
          outputQueue,
          pc,
          connected,       \* mqttClient.connected, and isconnected of Paho
          pingErrors,      \* sendAckErrors of Paho, counted up to 2
          wifi,            \* wifiManager_isWiFiConnected
          sock,            \* the socket of the client: "none", "open" or "dead"
          sockets,         \* sockets in use in the driver
          toBroker, toClient,    \* the two directions of the link
          session,         \* for the broker: "none", "on" or "subscribed"
          posted, received,      \* events posted; events the broker got
          faults,          \* disturbances so far
          scenario         \* the one of this behaviour, which never changes

clientVars == <<fsmState, interface, nextInterface, resetConnection, published,
                subscribed, sendingError, tries>>
linkVars == <<sock, sockets, toBroker, toClient, session, received>>
vars == <<clientVars, outputQueue, pc, connected, pingErrors, wifi, linkVars,
          posted, faults, cmVars>>

Faults == scenario.kinds
MaxFaults == scenario.faults
MaxEvents == scenario.events

Publish(m) == [type |-> "publish", event |-> m]
Status == -1    \* the "online" and "offline" messages of the status topic
Connect == [type |-> "connect", event |-> Status]
Subscribe == [type |-> "subscribe", event |-> Status]
Disconnect == [type |-> "disconnect", event |-> Status]

\* What waitfor() waits for in each blocking call, and the state that the case
\* of the switch assigns once the call is over.
Answer == [connack |-> "CONNACK", subscribe |-> "SUBACK", publish |-> "PUBACK",
           online |-> "PUBACK", offline |-> "PUBACK"]
After == [connect |-> "WAIT_CONNECTION", connack |-> "WAIT_CONNECTION",
          subscribe |-> "WAIT_SUBSCRIBE", publish |-> "WAIT_ACK",
          online |-> "WAIT_STATUS_ONLINE_ACK", offline |-> "WAIT_STATUS_OFFLINE_ACK",
          disconnect |-> "WAIT_CLOSE"]
Calls == DOMAIN After

Init ==
    /\ CMInit
    /\ fsmState = "WAITING_INTERFACE" /\ interface = "none" /\ nextInterface = "none"
    /\ resetConnection = FALSE /\ published = FALSE /\ subscribed = FALSE
    /\ sendingError = 0 /\ tries = 0
    /\ outputQueue = <<>>
    /\ pc = "loop"
    /\ connected = FALSE /\ pingErrors = 0
    /\ wifi = FALSE
    /\ sock = "none" /\ sockets = 0
    /\ toBroker = <<>> /\ toClient = <<>> /\ session = "none"
    /\ posted = 0 /\ received = {} /\ faults = 0
    /\ scenario \in Scenarios

Fault(kind) == kind \in Faults /\ faults < MaxFaults /\ faults' = faults + 1
UpTo2(n) == IF n = 2 THEN 2 ELSE n + 1

InterfaceConnected == interface = "wifi" /\ wifi
ClientConnected == interface = "wifi" /\ connected

----------------------------------------------------------------------------
(* mainLoop, called by main() and by the blocking calls: the Wi-Fi events, *)
(* the connectivity manager with its callback, and the other modules,      *)
(* which may post an event or ask for a new connection.                    *)

\* connectivity_onChangeCallback.
OnChange(e) ==
    /\ nextInterface' = IF e.kind = "none" THEN nextInterface ELSE e.ifc
    /\ fsmState' = IF e.kind # "change" THEN fsmState
                   ELSE IF e.ifc = "none" THEN "WAITING_INTERFACE" ELSE "INIT"
    /\ resetConnection' = (resetConnection \/ e.kind = "disconnect_and_change")

KillLink ==
    /\ sock' = IF sock = "open" THEN "dead" ELSE sock
    /\ toBroker' = <<>> /\ toClient' = <<>> /\ session' = "none"
    /\ UNCHANGED <<sockets, received>>

\* Wi-Fi is lost, and the link with it; or it comes back; or nothing happens.
WifiEvents ==
    \/ wifi /\ wifi' = FALSE /\ Fault("wifi") /\ KillLink
    \/ ~wifi /\ wifi' = TRUE /\ UNCHANGED <<linkVars, faults>>
    \/ UNCHANGED <<wifi, linkVars, faults>>

\* imClient_send with a slot of the pool, or no event this time.
MayPost ==
    \/ posted < MaxEvents /\ posted' = posted + 1 /\ outputQueue' = Append(outputQueue, posted')
    \/ UNCHANGED <<posted, outputQueue>>

MainLoopBody ==
    /\ WifiEvents
    /\ CMHandler(wifi', FALSE)
    /\ OnChange(event')
    /\ MayPost
    /\ UNCHANGED <<interface, published, subscribed, sendingError, tries, connected, pingErrors>>

\* mainLoop called by main(); imClient_handler comes next, and starts with
\* mqttClient_yield when there is a connection.
MainLoop ==
    /\ pc = "loop" /\ fsmState # "ERROR"
    /\ MainLoopBody
    /\ pc' = IF ClientConnected THEN "yield" ELSE "switch"

\* mainLoop called from inside a blocking call.
NestedMainLoop ==
    /\ pc \in Calls \cup {"yield"}
    /\ MainLoopBody
    /\ UNCHANGED pc

\* configurationManager takes a new address of the broker: imClient_resetConnection.
NewBroker ==
    /\ pc \in Calls \cup {"loop", "yield"} /\ fsmState # "ERROR"
    /\ Fault("reset")
    /\ resetConnection' = TRUE
    /\ UNCHANGED <<cmVars, fsmState, interface, nextInterface, published, subscribed,
                   sendingError, tries, outputQueue, pc, connected, pingErrors, wifi,
                   linkVars, posted>>

\* The entry block of the initial state of mainFsm once more, also from inside a
\* blocking call: wifiManager_init with the reset of the Wi-Fi chip, whose driver
\* goes on counting its sockets, connectivityManager_init, and imClient_init with
\* messagePool_init.  Nothing else of the client is initialised.
Reinit ==
    /\ pc \in Calls \cup {"loop", "yield"} /\ fsmState # "ERROR"
    /\ Fault("menu")
    /\ wifi' = FALSE /\ KillLink
    /\ ReinitCM
    /\ fsmState' = "WAITING_INTERFACE" /\ resetConnection' = FALSE
    /\ outputQueue' = <<>>
    /\ UNCHANGED <<interface, nextInterface, published, subscribed, sendingError, tries, pc,
                   connected, pingErrors, posted>>

\* With errorMqtt set, mainLoop returns before it gets to any of this.
MainLoopInError ==
    /\ pc = "loop" /\ fsmState = "ERROR"
    /\ pc' = "switch"
    /\ UNCHANGED <<cmVars, clientVars, outputQueue, connected, pingErrors, wifi, linkVars,
                   posted, faults>>

----------------------------------------------------------------------------
(* The link and the broker, while the firmware is anywhere.                *)

LinkDies ==
    /\ sock = "open" /\ Fault("link") /\ KillLink
    /\ UNCHANGED <<cmVars, clientVars, outputQueue, pc, connected, pingErrors, wifi, posted>>

\* The broker takes the next packet, and answers it.
BrokerReceives ==
    /\ sock = "open" /\ toBroker # <<>>
    /\ toBroker' = Tail(toBroker)
    /\ LET p == Head(toBroker)
       IN \/ /\ p.type = "connect"
             /\ session' = "on" /\ toClient' = Append(toClient, "CONNACK")
             /\ UNCHANGED <<sock, received>>
          \/ /\ p.type = "subscribe"
             /\ session' = "subscribed" /\ toClient' = Append(toClient, "SUBACK")
             /\ UNCHANGED <<sock, received>>
          \/ /\ p.type = "publish"
             /\ received' = received \cup ({p.event} \ {Status})
             /\ toClient' = Append(toClient, "PUBACK")
             /\ UNCHANGED <<sock, session>>
          \/ /\ p.type = "disconnect"
             /\ session' = "none" /\ sock' = "dead"
             /\ UNCHANGED <<toClient, received>>
    /\ UNCHANGED <<cmVars, clientVars, outputQueue, pc, connected, pingErrors, wifi,
                   sockets, posted, faults>>

\* A minute is long: the manager looks at an error that has been reported to
\* it, which it does on every pass of mainLoop, before one goes by.
MinutePasses ==
    /\ ~(errorWifi /\ cmState = "HAY_WIFI")
    /\ Minute
    /\ UNCHANGED <<clientVars, outputQueue, pc, connected, pingErrors, wifi, linkVars,
                   posted, faults>>

----------------------------------------------------------------------------
(* mqttClient_yield: one packet at least is read if there is one.          *)

Unchanged_Yield == UNCHANGED <<clientVars, outputQueue, wifi, posted, faults,
                               sock, sockets, toBroker, session, received>>

YieldReads ==
    /\ pc = "yield" /\ pingErrors < 2 /\ toClient # <<>>
    /\ toClient' = Tail(toClient) /\ pc' = "switch"
    /\ UNCHANGED <<cmVars, connected, pingErrors>> /\ Unchanged_Yield

YieldReadsNothing ==
    /\ pc = "yield" /\ pingErrors < 2 /\ toClient = <<>>
    /\ sock = "open" \/ "silent" \in Faults
    /\ pc' = "switch"
    /\ UNCHANGED <<cmVars, connected, pingErrors, toClient>> /\ Unchanged_Yield

\* Slip: the connection is still taken for good.
Slip_YieldAborted ==
    /\ pc = "yield" /\ pingErrors < 2 /\ sock = "dead"
    /\ fsmState' = "CONNECT_BROKER" /\ pc' = "switch"
    /\ UNCHANGED <<cmVars, interface, nextInterface, resetConnection, published, subscribed,
                   sendingError, tries, outputQueue, connected, pingErrors, wifi, linkVars,
                   posted, faults>>

\* CONN_ABORTED: callback_connection_error.
YieldAborted ==
    /\ pc = "yield" /\ pingErrors < 2 /\ sock = "dead"
    /\ connected' = FALSE /\ fsmState' = "CONNECT_BROKER"
    /\ pc' = "switch"
    /\ UNCHANGED <<cmVars, interface, nextInterface, resetConnection, published, subscribed,
                   sendingError, tries, outputQueue, pingErrors, wifi, linkVars, posted, faults>>

\* PINGREQ_SEND_ERROR: callback_pingreq_error.
YieldPingError ==
    /\ pc = "yield" /\ pingErrors = 2
    /\ InterfaceError(interface)
    /\ toClient' = (IF toClient = <<>> THEN <<>> ELSE Tail(toClient)) /\ pc' = "switch"
    /\ UNCHANGED <<connected, pingErrors>> /\ Unchanged_Yield

\* keepalive(), in any cycle of Paho: sendAckErrors is never reset.
PingFails ==
    /\ pc \in {"yield", "subscribe", "publish", "online", "offline"}
    /\ "silent" \in Faults /\ sock = "dead" /\ pingErrors < 2
    /\ pingErrors' = pingErrors + 1
    /\ UNCHANGED <<cmVars, connected, pc, toClient>> /\ Unchanged_Yield

----------------------------------------------------------------------------
(* The blocking calls.  When a call is over, the case of the switch that   *)
(* made it assigns fsmState, whatever a callback put there meanwhile.      *)

\* A call on a client that is not connected is over at once.
Call(k, packet) ==
    IF ClientConnected
    THEN /\ pc' = k /\ UNCHANGED fsmState
         /\ toBroker' = IF sock = "open" THEN Append(toBroker, packet) ELSE toBroker
    ELSE pc' = "loop" /\ fsmState' = After[k] /\ UNCHANGED toBroker

Return(k) == pc' = "loop" /\ fsmState' = After[k]

Unchanged_Call == UNCHANGED <<cmVars, interface, nextInterface, resetConnection, sendingError,
                              tries, outputQueue, pingErrors, wifi, posted>>

\* ConnectNetwork gives up: no address; no socket; or no connection, with a socket
\* that the client keeps.
NoSocket == sock = "none" /\ sockets = TcpSockMax
NewSocket == sock = "none" /\ sockets < TcpSockMax /\ sockets' = sockets + 1

ConnectFails ==
    /\ pc = "connect"
    /\ \/ NoSocket /\ UNCHANGED <<sock, sockets, faults>>
       \/ /\ (~wifi /\ UNCHANGED faults) \/ Fault("link")
          /\ \/ UNCHANGED <<sock, sockets>>
             \/ NewSocket /\ sock' = "dead"
    /\ connected' = FALSE /\ Return("connect")
    /\ UNCHANGED <<published, subscribed, toBroker, toClient, session, received>>
    /\ Unchanged_Call

\* Slip: the limit of the driver off by one.
Slip_NetworkConnected ==
    /\ pc = "connect" /\ wifi
    /\ sock = "none" /\ sockets <= TcpSockMax /\ sockets' = sockets + 1 /\ sock' = "open"
    /\ toBroker' = <<Connect>> /\ toClient' = <<>> /\ session' = "none"
    /\ pc' = "connack"
    /\ UNCHANGED <<fsmState, connected, published, subscribed, received, faults>>
    /\ Unchanged_Call

\* A socket is opened, or the one of the last connection is used again: then
\* the driver may or may not make a link of it, but reports a connection in
\* both cases, since the result of SOCKET_MSG_CONNECT is not looked at.
NetworkConnected ==
    /\ pc = "connect" /\ wifi
    /\ \/ NewSocket /\ sock' = "open"
       \/ sock # "none" /\ sock' \in {"open", "dead"} /\ UNCHANGED sockets
    /\ toBroker' = IF sock' = "open" THEN <<Connect>> ELSE <<>>
    /\ toClient' = <<>> /\ session' = "none"
    /\ pc' = "connack"
    /\ UNCHANGED <<fsmState, connected, published, subscribed, received, faults>>
    /\ Unchanged_Call

\* waitfor() finds the type of packet that it looks for.  It does not look at
\* the packet id, and drops what comes before.
CallAnswered(k) ==
    /\ pc = k /\ pingErrors < 2 /\ Contains(toClient, Answer[k])
    /\ toClient' = SubSeq(toClient, SelectInSeq(toClient, LAMBDA a : a = Answer[k]) + 1,
                          Len(toClient))
    /\ connected' = (connected \/ k = "connack")
    /\ subscribed' = (subscribed \/ k = "subscribe")
    /\ published' = (published \/ Answer[k] = "PUBACK")
    /\ Return(k)
    /\ UNCHANGED <<sock, sockets, toBroker, session, received, faults>> /\ Unchanged_Call

\* Slip: mqtt_publish calls its callback whatever MQTTPublish returns.
Slip_CallUnanswered(k) ==
    /\ pc = k /\ sock = "dead" /\ ~Contains(toClient, Answer[k])
    /\ toClient' = <<>>
    /\ connected' = (connected /\ k # "connack")
    /\ published' = (published \/ Answer[k] = "PUBACK")
    /\ Return(k)
    /\ UNCHANGED <<subscribed, sock, sockets, toBroker, session, received, faults>>
    /\ Unchanged_Call

\* waitfor() times out, or the packet could not even be sent.
CallUnanswered(k) ==
    /\ pc = k
    /\ \/ pingErrors = 2 /\ UNCHANGED faults
       \/ ~Contains(toClient, Answer[k])
          /\ \/ sock = "dead" /\ UNCHANGED faults
             \/ sock = "open" /\ Fault("slow")
    /\ toClient' = <<>>
    /\ connected' = (connected /\ k # "connack")
    /\ Return(k)
    /\ UNCHANGED <<subscribed, published, sock, sockets, toBroker, session, received>>
    /\ Unchanged_Call

DisconnectReturns ==
    /\ pc = "disconnect"
    /\ connected' = FALSE /\ Return("disconnect")
    /\ UNCHANGED <<published, subscribed, linkVars, faults>> /\ Unchanged_Call

----------------------------------------------------------------------------
(* The switch of imClient_handler, one action per outcome of a case.       *)

\* Before the switch the output queue is flushed if nothing was posted for
\* ten minutes; q is the queue that the case then finds.
Retention(q) ==
    \/ q = outputQueue /\ UNCHANGED faults
    \/ outputQueue # <<>> /\ q = <<>> /\ Fault("retention")

Case(state, q) ==
    /\ pc = "switch" /\ fsmState = state
    /\ Retention(q)
    /\ UNCHANGED <<nextInterface, pingErrors, wifi, sockets, received, posted>>

Goto(state) == pc' = "loop" /\ fsmState' = state

KeepLink == UNCHANGED <<connected, sock, toClient, session>>
KeepClient == UNCHANGED interface /\ KeepLink
KeepAnswers == UNCHANGED <<published, subscribed, resetConnection>>
KeepCounts == UNCHANGED <<sendingError, tries>>

WaitingInterface(q) ==
    /\ Case("WAITING_INTERFACE", q)
    /\ interface' = nextInterface
    /\ Goto("WAITING_INTERFACE") /\ outputQueue' = q
    /\ UNCHANGED <<cmVars, toBroker>> /\ KeepLink /\ KeepAnswers /\ KeepCounts

\* client_init: the MQTT client starts afresh and forgets its socket, which
\* stays open in the driver.
Initialize(q) ==
    /\ Case("INIT", q)
    /\ interface' = nextInterface
    /\ IF nextInterface = "wifi"
       THEN /\ connected' = FALSE /\ sock' = "none" /\ session' = "none"
            /\ toBroker' = <<>> /\ toClient' = <<>>
       ELSE UNCHANGED toBroker /\ KeepLink
    /\ tries' = 0
    /\ \/ sendingError' = 0 /\ Goto("CONNECT_BROKER")
       \/ "init" \in Faults /\ UNCHANGED sendingError /\ Goto("ERROR")
    /\ outputQueue' = q
    /\ UNCHANGED cmVars /\ KeepAnswers

ConnectBroker(q) ==
    /\ Case("CONNECT_BROKER", q)
    /\ IF InterfaceConnected /\ ~ClientConnected
       THEN pc' = "connect" /\ UNCHANGED fsmState ELSE Goto("IDLE")
    /\ outputQueue' = q
    /\ UNCHANGED <<cmVars, toBroker>> /\ KeepClient /\ KeepAnswers /\ KeepCounts

\* Slip: "subscribed" is left as the last connection set it.
Slip_WaitConnection(q) ==
    /\ Case("WAIT_CONNECTION", q) /\ ClientConnected
    /\ Call("subscribe", Subscribe)
    /\ outputQueue' = q
    /\ UNCHANGED <<cmVars, subscribed, published, resetConnection>> /\ KeepClient /\ KeepCounts

WaitConnection(q) ==
    /\ Case("WAIT_CONNECTION", q) /\ ClientConnected
    /\ subscribed' = FALSE
    /\ Call("subscribe", Subscribe)
    /\ outputQueue' = q
    /\ UNCHANGED <<cmVars, published, resetConnection>> /\ KeepClient /\ KeepCounts

\* Slip: connectivityManager is not told after the second failure.
Slip_ConnectionTimeout(q) ==
    /\ Case("WAIT_CONNECTION", q) /\ ~ClientConnected
    /\ tries' = UpTo2(tries)
    /\ Goto(IF tries' < 2 THEN "CONNECT_BROKER" ELSE "IDLE")
    /\ outputQueue' = q
    /\ UNCHANGED <<cmVars, toBroker, sendingError>> /\ KeepClient /\ KeepAnswers

ConnectionTimeout(q) ==
    /\ Case("WAIT_CONNECTION", q) /\ ~ClientConnected
    /\ tries' = UpTo2(tries)
    /\ IF tries' < 2 THEN Goto("CONNECT_BROKER") /\ UNCHANGED cmVars
       ELSE Goto("IDLE") /\ InterfaceError(interface)
    /\ outputQueue' = q
    /\ UNCHANGED <<toBroker, sendingError>> /\ KeepClient /\ KeepAnswers

IdleReset(q) ==
    /\ Case("IDLE", q) /\ resetConnection
    /\ resetConnection' = FALSE /\ published' = FALSE
    /\ Call("offline", Publish(Status))
    /\ outputQueue' = q
    /\ UNCHANGED <<cmVars, subscribed>> /\ KeepClient /\ KeepCounts

\* timerCheckConnection has expired.
IdleCheck(q) ==
    /\ Case("IDLE", q) /\ ~resetConnection
    /\ Goto("CONNECT_BROKER") /\ outputQueue' = q
    /\ UNCHANGED <<cmVars, toBroker>> /\ KeepClient /\ KeepAnswers /\ KeepCounts

IdleSend(q) ==
    /\ Case("IDLE", q) /\ ~resetConnection
    /\ q # <<>> /\ InterfaceConnected /\ ClientConnected
    /\ Goto("MSG_SEND") /\ outputQueue' = q
    /\ UNCHANGED <<cmVars, toBroker>> /\ KeepClient /\ KeepAnswers /\ KeepCounts

\* Slip: "published" is not reset before the call.
Slip_MsgSend(q) ==
    /\ Case("MSG_SEND", q)
    /\ IF InterfaceConnected /\ ClientConnected
       THEN Call("publish", Publish(IF q = <<>> THEN 0 ELSE Head(q)))
       ELSE Goto("WAIT_ACK") /\ UNCHANGED toBroker
    /\ outputQueue' = q
    /\ UNCHANGED <<cmVars, published, subscribed, resetConnection>> /\ KeepClient /\ KeepCounts

\* Without a connection nothing is sent, and "published" is left as it was.
MsgSend(q) ==
    /\ Case("MSG_SEND", q)
    /\ IF InterfaceConnected /\ ClientConnected
       THEN /\ published' = FALSE
            /\ Call("publish", Publish(IF q = <<>> THEN 0 ELSE Head(q)))
       ELSE Goto("WAIT_ACK") /\ UNCHANGED <<published, toBroker>>
    /\ outputQueue' = q
    /\ UNCHANGED <<cmVars, subscribed, resetConnection>> /\ KeepClient /\ KeepCounts

\* The PUBACK has come: whatever is now at the head of the queue leaves it.
WaitAckPublished(q) ==
    /\ Case("WAIT_ACK", q) /\ published
    /\ outputQueue' = IF q = <<>> THEN <<>> ELSE Tail(q)
    /\ sendingError' = 0
    /\ Goto("IDLE")
    /\ UNCHANGED <<cmVars, toBroker, tries>> /\ KeepClient /\ KeepAnswers

\* timerResponseTimeout, started when the call was over, has expired: no PUBACK
\* came, or the pass of the loop since then took two seconds.
ResponseTimeout(state, next, q) ==
    /\ Case(state, q)
    /\ published => "slow" \in Faults
    /\ sendingError' = UpTo2(sendingError)
    /\ IF sendingError' = 2 THEN InterfaceError(interface) ELSE UNCHANGED cmVars
    /\ Goto(next) /\ outputQueue' = q
    /\ UNCHANGED <<toBroker, tries>> /\ KeepClient /\ KeepAnswers

StatusOfflinePublished(q) ==
    /\ Case("WAIT_STATUS_OFFLINE_ACK", q) /\ published
    /\ Call("disconnect", Disconnect) /\ outputQueue' = q
    /\ UNCHANGED cmVars /\ KeepClient /\ KeepAnswers /\ KeepCounts

WaitClose(q) ==
    /\ Case("WAIT_CLOSE", q) /\ ~ClientConnected
    /\ tries' = 0
    /\ Goto("INIT") /\ outputQueue' = q
    /\ UNCHANGED <<cmVars, toBroker, sendingError>> /\ KeepClient /\ KeepAnswers

WaitSubscribe(q) ==
    /\ Case("WAIT_SUBSCRIBE", q) /\ subscribed
    /\ published' = FALSE
    /\ Call("online", Publish(Status)) /\ outputQueue' = q
    /\ UNCHANGED <<cmVars, subscribed, resetConnection>> /\ KeepClient /\ KeepCounts

StatusOnlinePublished(q) ==
    /\ Case("WAIT_STATUS_ONLINE_ACK", q) /\ published
    /\ Goto("IDLE") /\ outputQueue' = q
    /\ UNCHANGED <<cmVars, toBroker>> /\ KeepClient /\ KeepAnswers /\ KeepCounts

\* What the state waits for has not happened, and no timer has expired.
NothingToDo(q) ==
    \/ fsmState = "WAIT_CONNECTION" /\ ~ClientConnected
    \/ fsmState \in {"WAIT_ACK", "WAIT_STATUS_OFFLINE_ACK", "WAIT_STATUS_ONLINE_ACK"}
       /\ ~published
    \/ fsmState = "WAIT_CLOSE" /\ ClientConnected
    \/ fsmState = "WAIT_SUBSCRIBE" /\ ~subscribed
    \/ fsmState = "IDLE" /\ ~resetConnection
       /\ (q = <<>> \/ ~InterfaceConnected \/ ~ClientConnected)
    \/ fsmState = "ERROR"

StayInState(q) ==
    /\ Case(fsmState, q) /\ NothingToDo(q)
    /\ Goto(fsmState) /\ outputQueue' = q
    /\ UNCHANGED <<cmVars, toBroker>> /\ KeepClient /\ KeepAnswers /\ KeepCounts

Switch(q) ==
    \/ WaitingInterface(q)
    \/ Initialize(q)
    \/ ConnectBroker(q)
    \/ WaitConnection(q)
    \/ ConnectionTimeout(q)
    \/ IdleReset(q)
    \/ IdleCheck(q)
    \/ IdleSend(q)
    \/ MsgSend(q)
    \/ WaitAckPublished(q)
    \/ ResponseTimeout("WAIT_ACK", "IDLE", q)
    \/ ResponseTimeout("WAIT_STATUS_OFFLINE_ACK", "CONNECT_BROKER", q)
    \/ ResponseTimeout("WAIT_STATUS_ONLINE_ACK", "IDLE", q)
    \/ StatusOfflinePublished(q)
    \/ WaitClose(q)
    \/ WaitSubscribe(q)
    \/ StatusOnlinePublished(q)
    \/ StayInState(q)

----------------------------------------------------------------------------
Firmware ==
    \/ MainLoop
    \/ MainLoopInError
    \/ YieldReads
    \/ YieldReadsNothing
    \/ YieldAborted
    \/ YieldPingError
    \/ ConnectFails
    \/ NetworkConnected
    \/ \E k \in DOMAIN Answer : CallAnswered(k) \/ CallUnanswered(k)
    \/ DisconnectReturns
    \/ \E q \in {outputQueue, <<>>} : Switch(q)

Next ==
    \/ Firmware
    \/ NestedMainLoop
    \/ NewBroker
    \/ Reinit
    \/ PingFails
    \/ LinkDies
    \/ BrokerReceives
    \/ MinutePasses

Spec == Init /\ [][Next /\ UNCHANGED scenario]_<<vars, scenario>>

\* The loop never stops, a living broker answers, time goes by.  Timers do
\* expire, and do not always expire before what they wait for is looked at: a
\* pass takes milliseconds, the shortest of them two seconds.
FairSpec ==
    /\ Spec
    /\ WF_vars(Firmware) /\ WF_vars(BrokerReceives) /\ WF_vars(MinutePasses)
    /\ SF_vars(ConnectionTimeout(outputQueue))
    /\ SF_vars(IdleCheck(outputQueue)) /\ SF_vars(IdleSend(outputQueue))
    /\ SF_vars(WaitAckPublished(outputQueue))
    /\ SF_vars(ResponseTimeout("WAIT_ACK", "IDLE", outputQueue))
    /\ SF_vars(ResponseTimeout("WAIT_STATUS_OFFLINE_ACK", "CONNECT_BROKER", outputQueue))
    /\ SF_vars(ResponseTimeout("WAIT_STATUS_ONLINE_ACK", "IDLE", outputQueue))

----------------------------------------------------------------------------
\* The types of the variables of imClient.c and of the link; in particular the queue
\* only holds events that were posted and the driver never has more sockets in use
\* than it has sockets.
TypeOK ==
    /\ CMTypeOK
    /\ fsmState \in {"WAITING_INTERFACE", "INIT", "CONNECT_BROKER", "IDLE", "MSG_SEND", "ERROR"}
                       \cup {After[k] : k \in Calls}
    /\ interface \in {"none", "wifi"} /\ nextInterface \in {"none", "wifi"}
    /\ {resetConnection, published, subscribed, connected, wifi} \subseteq BOOLEAN
    /\ sendingError \in 0 .. 2 /\ tries \in 0 .. 2 /\ pingErrors \in 0 .. 2
    /\ posted \in 0 .. MaxEvents /\ faults \in 0 .. MaxFaults
    /\ outputQueue \in Seq(1 .. posted)
    /\ received \subseteq 0 .. posted
    /\ pc \in Calls \cup {"loop", "yield", "switch"}
    /\ sock \in {"none", "open", "dead"} /\ sockets \in 0 .. TcpSockMax
    /\ session \in {"none", "on", "subscribed"}
    /\ toBroker \in Seq([type : {"connect", "subscribe", "publish", "disconnect"},
                         event : Status .. posted])
    /\ toClient \in Seq({"CONNACK", "SUBACK", "PUBACK"})

\* "Llego un PUBACK": the event that leaves the queue when the PUBACK of a
\* publication is acted upon is one that the broker has got.
AckedIsReceived ==
    pc = "switch" /\ fsmState = "WAIT_ACK" /\ published /\ outputQueue # <<>>
        => Head(outputQueue) \in received

\* While the client is idle or sends events over a living link, the broker has
\* its subscription: the commands of the backend can reach it.
SubscribedWhileServing ==
    fsmState \in {"WAIT_STATUS_ONLINE_ACK", "IDLE", "MSG_SEND", "WAIT_ACK"}
        /\ pc = "switch" /\ ClientConnected /\ sock = "open" => session = "subscribed"

\* The queue, the link and the broker keep the promises of Outbox: the queue is only
\* given up where mainFsm can initialise the client again.
Promise == INSTANCE Outbox WITH queue <- outputQueue, frail <- "menu" \in Faults
KeepsThePromise == Promise!Spec

\* The largest number of events of a scenario.
MostEvents ==
    CHOOSE n \in {sc.events : sc \in Scenarios} : \A sc \in Scenarios : sc.events <= n

\* Once Wi-Fi is there to stay, every event leaves the queue.
EventuallySent ==
    <>[]wifi => \A m \in 1 .. MostEvents : posted >= m ~> ~Contains(outputQueue, m)

\* "Se intenta volver a conectar": once Wi-Fi is there to stay, the client gets
\* back a connection on which the broker has its subscription, whenever it loses
\* it, and not only the flag that says so.
Reconnects == <>[]wifi => []<>(connected /\ session = "subscribed")
=============================================================================

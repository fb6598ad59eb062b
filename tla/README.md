# COM38: a verification project for the alarm communicator

COM38 connects an alarm panel to a mobile application.  Its firmware
(`src/firmware/COM38/src`, one Atmel SAM D21 with a WINC1500 Wi-Fi module and a
BG96 cellular module) listens to the two-wire MPXH bus of the panel, turns what
it hears into events that it publishes by MQTT to a broker in AWS, and turns the
commands that the broker sends back into key presses on the bus.  A serverless
backend (`src/backend`) stores the events and issues the commands; an Ionic
application (`src/frontend`) shows them.

This directory holds TLA+ modules for the firmware: the way of an event to the
user and of a command to the panel, and what both stand on (the bus, the timers,
the Wi-Fi manager, the configuration in EEPROM), with the TLC configurations that
check them and proofs checked by TLAPS.  All paths below are relative to
`src/firmware/COM38/src` unless they begin with `src/`.

    tlc -config ImClient.cfg MCImClient     model-check one configuration
    tlapm MessagePoolProofs.tla             check the proofs of a module

## 1. Inventory

### How the parts run

There is one thread, and one timer interrupt every 25 microseconds.

* `main` (main.c:163-168) alternates `imClient_handler()` and `mainLoop()`.
* `mainLoop` calls in this order: the main state machine, the events of the Wi-Fi
  driver, (if there is a critical error it returns here), the provisioning state
  machine, the connectivity manager, the clock, the LEDs, the frames received on
  the bus, at most one message received from the broker, and what each module has
  to send.
* The interrupt (mainTimer.c) runs the bit machine of the bus (mpxh.c), the
  millisecond counter of the software timers, and sets the flags that start the
  periodic work of the main loop.
* **Reentrancy without threads.**  The MQTT client is Eclipse Paho, which blocks.
  On this platform every wait of Paho calls `mainLoop()` (MCHP_ATWx.c:166-168 and
  the loops of `ConnectNetwork`).  The whole firmware except `imClient_handler`
  therefore runs, as often as it likes, in the middle of one pass of
  `imClient_handler`.  Most of what is hard in this code comes from there.

### Components

| component | state | operations | interacts with | hard |
|---|---|---|---|---|
| Message pool, `MessagePoolManager.c` | 100 slots (`free`, `payload_ptr`), `outputQueue`, `inputQueues` | get and release a slot, push, peek, pop, flush, init | every module that posts an event; imClient; main loop | ownership of slots that pass between modules; full and empty queues; lost slots |
| Connectivity manager, `connectivityManager.c` | `fsmState`, an error and a timer per interface | `handler`, `interfaceError`, callback to imClient | Wi-Fi and cellular managers (polled), imClient | two timers against two networks that come and go; every change must be told |
| IM client, `imClient.c` | `fsmState`, `published`, `subscribed`, `sendingError`, `connectToBrokerTries`, `resetConnection`, five timers | `handler`, `send`, callbacks from below and from the connectivity manager | pool, MQTT client, connectivity manager | its state is assigned by itself after a blocking call and by callbacks during it |
| MQTT client, `mqttClient.c` and `ASF/thirdparty/pahomqtt` | `connected`, buffers, keepalive, socket | connect, subscribe, publish, yield, disconnect | imClient through callbacks; Wi-Fi driver; `mainLoop` | timeouts, late answers, sockets |
| Main loop, `main.c` | flags of work to do | `mainLoop`, dispatch of IM messages | all | order of the handlers; nested calls |
| Main state machine, `mainFsm.c` | `fsmState`, previous state, `stateIn`/`stateOut`, critical errors | `handler`, `gotoState`, `gotoPreviousState` | initialises all the others | the initial state can be entered twice |
| Wi-Fi manager, `WiFiManager.c` | provisioning machine, connection flags, retries | `wifi_cb`, provisioning by WPS or access point | driver, socket manager, EEPROM | driver events against the state machine |
| Socket manager, `socketManager.c` | table of sockets | register, route of driver events | Wi-Fi manager, MQTT, NTP | full table, socket reuse |
| Cellular manager and BG96, `cellularManager.c`, `BG96.c` | AT command machine | initialised, but **no handler is ever called** | connectivity manager | inert in this version |
| Alarm monitor, `alarmMonitor.c` | state of partitions and zones, key queue, `procesandoMensajes` | frames and messages in, events out, key presses | bus, pool, nodes | a command lasts many passes; new messages wait behind a lock |
| Nodes manager, `nodesManager.c` | automations, pending parts of an answer, locks | messages in, frames out | bus, pool, PGA | answers in parts when slots are short |
| Date and time, `dateTime.c` | clock, NTP machine, pattern machine | per second handler, set by bus, broker or NTP | sockets, bus | several sources of the hour |
| Configuration manager, `configurationManager.c` | none of its own | set and get of the configuration; reset of the connection | PGA, imClient | a reset at any moment |
| Programming mode, `fsmProg.c` | state of the menu | keys from the bus | main state machine, PGA | takes the device over, then gives it back |
| MPXH bus, `mpxh.c` | bits and frames in transit | bit machine in the interrupt; flags to the main loop | main loop | shared flags without protection |
| Software timers, `softTimers.c` | a 32-bit tick counter | init, restart, expired, stop | everyone | wrap-around |
| Timer interrupt, `mainTimer.c` | flags of 250 us, 1 ms, 4 ms, 1 s, 1 min, 1 h | set by the interrupt, cleared by the loop | everyone | lost flags |
| Ring buffer and UART, `ringBuffer.c`, `uartRB.c` | byte queues | put, remove | BG96 only | inert in this version |
| Persistence, `pga.c`, `EE25LCxxxx.c`, `ext_eeprom.c` | RAM image, queue of pending saves | enqueue, save, defaults | everyone with a configuration | full queue, power cut |
| Presentation, `displayRAM.c`, `BlinkingLed.c`, `debounce.c`, `stopWatch.c`, `utilities.c` | local | | | |
| Backend, `src/backend` | DynamoDB tables | handlers of events and commands | broker, application | concurrent updates of one device |
| Application, `src/frontend` | user interface | | backend | |

### What makes each correct

* Message pool: a slot has one owner at a time; messages leave in the order in
  which they entered; no push drops a message; a slot starts empty; slots come
  back.
* Connectivity manager: imClient always knows the interface chosen; an interface
  reported in error is left alone for a while; Wi-Fi wins in the end.
* IM client with the MQTT client: an event leaves the queue only after the broker
  has it, and in order; the client serves only with its subscription in place;
  after any disturbance it connects again and sends what it holds.
* Main loop and the modules behind it: a message is handled once, by one module;
  every `procesando...` lock is released; a command and its event match.
* Main state machine: entry and exit actions run once per visit; leaving the
  programming mode does not undo the state of the rest.
* Wi-Fi manager: the flags agree with the driver; provisioning ends.
* Timers and interrupt: no tick is lost; an interval is never shortened.
* Bus: a frame handed to the main loop is a frame that was received whole.
* Persistence: a save that was asked for is done; what is read after a power cut
  is an old or a new value.

## 2. Modules

| module | models | state and actions |
|---|---|---|
| `SlotQueues` | abstract: what the pool promises | two sequences and the set of slots lost |
| `MessagePool` | `MessagePoolManager.c` and its callers | `free`, `payloadPtr`, `outputQueue`, `inputQueue` are the C variables; one action per operation *of a caller* |
| `MessagePoolProofs` | theorems on `MessagePool` | |
| `ConnectivityManager` | `connectivityManager.c` | one action per transition of the handler; `InterfaceError`; `Minute` for the timers |
| `InterfaceSelection` | the manager with its neighbours | networks that come and go, imClient's reports, time, the second initialisation by `mainFsm.c` |
| `InterfaceSelectionProofs` | theorems on `InterfaceSelection` | |
| `Outbox` | abstract: what imClient promises to who posts an event | `posted`, `queue`, `received` |
| `ImClient` | `imClient.c`, `mqttClient.c`, Paho and its platform, the main loop around them, the link and the broker | extends `ConnectivityManager`; one action per outcome of each case of the switch |
| `ImDispatch` | the pass of 4 ms of `main.c` and what it calls in `alarmMonitor.c`, `dateTime.c`, `fsmProg.c` | `step` is the place in the pass; one action per frame, message, handler and frame sent |
| `MCImDispatch` | the sets of messages of its runs | |
| `ImDispatchProofs` | theorems on `ImDispatch` | |
| `MCImClient` | the scenarios of its runs | |
| `ImClientProofs` | theorems on `ImClient` | |
| `MainFsm` | `mainFsm.c` | `fsmState`, `fsmState_previous`, `stateIn`; one action per transition |
| `Persistence` | `pga.c` with `mainFsm.c` and those who change the configuration | RAM, EEPROM, the queue of saves and its two indices; each call of `pga_enqueueSave` and each turn of the loop of `pga_saveRAM` is a step, between which the power can go |
| `PersistenceProofs` | theorems on `Persistence` | |
| `NodesManager` | the configuration of the automations in `nodesManager.c`, on top of `Persistence` | the lock, the bits of what is to be told; one action per message and per part sent |
| `MCNodesManager` | the messages of its run | |
| `NodesManagerProofs` | theorems on `NodesManager`, by way of those on `Persistence` | |
| `WiFiManager` | `WiFiManager.c`, the server side of `socketManager.c`, the driver as they use it | nine states, flags, entries of the list of sockets, events that wait; one action per callback and per outcome of a pass |
| `WiFiManagerProofs` | theorems on `WiFiManager` | |
| `SoftTimers` | `softTimers.c` | the tick counter and one timer |
| `MainTimer` | `mainTimer.c` | dividers and flags |
| `Mpxh` | `mpxh.c`, frame by frame | flags, the frame received last, the transmitter |
| `Interrupts` | the three above against the main loop | where the loop is (`punto`, `paso`) and the byte it has read (`reg`) |
| `MCInterrupts` | constants of its run | |
| `InterruptsProofs` | theorems on `Interrupts` | |

Operators called `Slip_...` are changed versions of the definition below them,
of the kind an edit of the code could introduce.  No specification uses them;
`PROJECT.json` says which property notices each.

### MessagePool

The firmware is one thread and no caller yields between taking a slot and
queueing it, so each action is all that a caller does with the pool: `Send` is
`imClient_getFreeMessageSlot`, the `putPayload...` calls and `imClient_send`
together.  The payload is its length.  `Receive` and `ReceiveDuplicate` are
`parseMessageIn` with and without a duplicate.  `PopInputGetConfiguracion` is the
one caller that takes a slot before it knows whether it will use it
(nodesManager.c:1008); it stands apart because it can lose the slot.  `Reinit`
is `mainFsm.c` running its initial state a second time.

The queues are the arrays of the C code, with `NULL` and the loops that look for
it, and not sequences: that they behave as sequences is the property
`BehavesAsQueues`, with the mapping `Contents` and `Leaked`, which is checked and
proved.

### ConnectivityManager and InterfaceSelection

A timer holds the minutes that it has left.  An expired timer stays expired
(`softTimer_expired` goes on returning true), which matters: it clears the error
flag on every pass until the timer is started again.  `softTimer_init` starts a
timer whether or not its error is up, and so do the actions.  The choice of
`SelectCellular` to put Wi-Fi in error, and of `WifiToCellular` not to, is in the
code.  A minute may pass between any two steps.

`told` is `connectivityManager_nextInterface` of imClient, what the callback last said;
`interface` is `connectivityManager_interface`, which imClient works with and reports, and
which it takes over (`Adopt`) only in `FSM_WAITING_INTERFACE` or `FSM_INIT`, so that it may
lag.  `Reinit` is the entry block of the initial state of `mainFsm.c` once more, when the
programming mode was entered in the first two seconds (mainFsm.c:114-153): the manager
goes back to `FSM_INIT` and calls nobody back, its errors and timers stay, and imClient keeps both of
its interfaces.  `forgotten` is history: that has happened, and nothing was told since.
`starting` says that it can still happen.

### ImClient

`pc` says where the only thread is: `"loop"` in `mainLoop`, `"yield"` in
`mqttClient_yield`, `"switch"` at the switch of `imClient_handler`, or the name
of the blocking call it is inside.  `NestedMainLoop` is `mainLoop` called by such
a call, any number of times.  A case of the switch that blocks is two actions:
one that starts the call, and one of `CallAnswered`, `CallUnanswered`,
`ConnectFails`, `NetworkConnected`, `DisconnectReturns` that ends it and assigns
`After[k]`, the state that the case assigns after the call, *over* what a
callback may have put there meanwhile.  That is the order of the code.

Abstractions, each with its reason:

* Timers other than those of the connectivity manager are read as expired or not
  at will: any order of expiry is then a behaviour.  The one exception is the
  timer of a response: it is started when the call is over, so with `published`
  set it is only found expired if the pass in between took two seconds, which is
  one of the kinds of fault (`slow`).
* A message is its number; the status messages share one number; `0` is the
  frame that `generateFrameToSend` makes of a null message (the queue can be
  flushed in the middle of a send).
* The output queue is a sequence, as `MessagePool` is shown to be, and is never
  as long as the pool.
* One Wi-Fi interface.  `cellularManager_handler` is never called in this
  version, so `cellularManager_isInternetConnected` stays false.
* Incoming publications are left out.
* `client_init` has no `return` on any path; what its caller reads is undefined,
  and the fault `init` makes it negative.  Paho's `WINC1500` layer reports a
  connection on a socket that it used before whatever the driver says
  (MCHP_ATWx.c:77-79); then the link may be open or dead, at will.
* Each behaviour has a `scenario` that never changes: which kinds of disturbance
  may happen, how many of them together, and how many events are posted.
* `Reinit`, the kind `menu`, is the entry block of the initial state once more, as seen
  by the client: the Wi-Fi chip is reset under a link that may be in use (the driver goes on
  counting its sockets), the manager and `fsmState` go back to their beginnings, `messagePool_init`
  forgets the queue.  It can come from inside a blocking call, which then assigns its
  next state over it.  `interface`, `nextInterface`, `published`, `subscribed` and
  Paho are not initialised.  `Outbox` allows for it with `frail`: where it can happen,
  all of the queue may be given up, and at no other time.
* After the reset of the chip, a `recv` under way is never answered, and
  the loop of `WINC1500_read` that waits for it (MCHP_ATWx.c:166-168) has no timer:
  `imClient_handler` may then stay in it for ever, calling `mainLoop`.  So `menu` is in scenarios of
  safety, and in none of liveness.
* `ConnectFails` leaves a socket behind when there was one to allocate
  (MCHP_ATWx.c:294-324); the next attempt uses it again, `NetworkInit` forgets it.

### ImDispatch

`step` follows the pass: `"receive"` (main.c:215-280), `"dispatch"` (287-310),
`"handlers"` (318-328), `"bus"` (340-589).  `Recibir` has one action per kind of
frame, and `NoFrame`; `Dispatch` takes the head of the input queue when
`procesando`, the flags of `alarmMonitor.c` and `dateTime.c`, is empty;
`DeterminarFin` is the two `..._determinarFinProcesamiento`; the `Sacar...` are
the chain of else-if of the bus, in its order.  `Tick` is
`alarmMonitor_timers1s_handler`, between two passes.

The keys of all partitions and of all activities share `bufferTeclas`,
`ptrTeclas`, `lenTeclas`.  Its writers are `procesarSetEstado`,
`procesarSetInclusion`, `procesarSetSonandoReady`, `parsear4bx` when a change of
mode is on, the timer of the event log and the timer of the programming mode.
Only the first two hold a flag.  `bufferTeclas.para` and `.de` say for which
partition and by which activity the buffer was loaded: they are not in the code
and no guard reads them.

Abstractions:

* Keys are counted.  A code has `CodeLen` digits; a change of inclusion is two
  keys, which is as good as any number above one.
* The panel and its keypads send any frame at any pass.
* Every partition of `Layers` answers (`particionOk`).  A message for another one
  is only answered, like those that `Rechazar` covers.  Answers to the server are
  in `MessagePool`.
* Replay and event log belong to the partition that asked for them.
  `esRegistradorNuevo` stays 0: the only frame that sets `vino_pirupiru`
  (alarmMonitor.c:345) is taken by the branch of line 282 before.
* Of the requests sent before the keys, three are modelled; of those after
  them, `mandarPanico` stands for all.  The others keep the bus for a frame, which
  `BusOcupado` allows.
* The lock of `nodesManager.c` is in `NodesManager`, where it matters: the bits of a
  "set" and of a "get" of the configuration.  The bit of a change of state of the nodes,
  released when the bus has taken it (nodesManager.c:330, 622), is not modelled.
* `sonando` of a partition, a bit of its own (alarmMonitor.c:2292), is one of the values
  of `estadoAlarma`.
* The second initialisation by `mainFsm.c` is left out: `alarmMonitor_init` and `fsmProg_init`
  touch nothing that is modelled here, and `dateTime_init` ends a date that is being sent, as
  `TramaFyh` does.

### MainFsm, Persistence and NodesManager

A *cell* is a group of bytes that one save writes; its value is blank, the
default, or one that a command gave.  `llamadas` are the calls of
`pga_enqueueSave` that a handler still has to make; with `saving` it says whether
the loop is between two handlers (`Free`).  A power cut comes between any two
steps, and so between two saves; within one (a page of the EEPROM) it does not.
`InitDevice` is the entry block of the initial state, which runs again when the
programming mode was entered in the first two seconds and is left: `pga_init` then forgets a
factory reset that was asked for, and `loadValues` reads the EEPROM over what is still
pending.  Such settings are lost, although RAM and EEPROM agree; so `orden` records,
cell by cell, the value last asked for (by a command, a factory reset, or the
defaults of a device that was never initialised), and `perdidas` the cells that have lost it, until they
are set again.  Both are history, as is what follows.  `i` of `pga_saveRAM` (pga.c:122, 144) is used without a
value: `stray` is what it holds, any member of `StrayReads`.  When it is not zero the
bytes written are not those of the entry: the entry's cells and those in which the bytes land
(`Landings`) are lost, and what lands reads as blank.  An `i` so large that reading
`pgaData[index + i]` faults is not modelled.  A command changes one delay at a time, where the message of the code may
change up to eight.

`pendientes` and `desborde` count what was asked for and whether there have ever
been as many saves as the queue is long; they are not in the code.  `SavedOrPending` is then about
the value that was asked for and not only about RAM: it is in the EEPROM,
or pending, or a reset is to be made, or it is among `perdidas`.  `EventuallyStored` says that all
but `perdidas` gets to the EEPROM, and `ToldIsStored` that what the broker is told is in it.

`NodesManager` adds to every step of `Persistence` what `nodesManager.c` keeps: the
lock behind which the messages of the broker wait, and the bits of
`cambiosParaElEventoOGet_...`.  A message ends whole or in the middle (a number or
kind out of range): then what came before is done but the lock is not taken.
The event is armed from the EEPROM when the queue is empty, the answer from
RAM, both in parts of `UnitsPerPart`; which automations fit is left open.
Without a free slot nothing happens in a pass, so there is no action for it.  `debe` is
history: what a message changed and the broker has not been told.

### WiFiManager

`fsmState` and `stateIn` are those of `wifiManager_ProvisioningFsmHandler`; a pass is
an action with `b` (the button has been down for five seconds) and `t` (the
timer has expired) as inputs, and ends in the state of the *last* `gotoState`
that its tests reach, which is how the code behaves.  `eventos` are the events that
`m2m_wifi_handle_events` has not handed over: the driver tells of its station and
of a phone on the access point with the same two events, and `wifi_cb` tells them
apart by `ap_enable` at the time of the call.  `entradas` counts the entries of
the list of sockets.  With `LateEvents = FALSE` the manager passes after
the events of the driver were handed over and the server socket was bound, which
the order of `mainLoop` makes the rule.  The factory test is left out, and so is a second
`wifiManager_init` and `socketManager_init` by `mainFsm.c`.  `infoVieja` and
`servidorFallo` stay up once they are: from then on `EntriesExplained` says no more
of the entries than that there is a reason.

### Interrupts, MainTimer, SoftTimers and Mpxh

Clearing a flag in the main loop is a read (`paso = "store"`) and a store, and the
interrupt may come between: `tc_callback` and the bus machine are whole
steps.  A frame is on the bus from its first edge to its last bit (`FrameEnds`) and
is handed over after the silence (`FrameReceived`); samples, bits, Hamming codes and
priorities are below that.  `wRec` is what the loop reads with `mpxh_getRecibido`, one
frame for all kinds.  `falta`, `tickTarde`, `porEntregar`, `recTarde` and `age` are
history: what was due, and whether the loop fell behind.

## 3. Runs

| run | question | answer |
|---|---|---|
| `pool` | is a slot always with one owner, and are the arrays two FIFO queues? | yes, 4 slots |
| `pool_leak` | is every slot free or queued? | **no**, see findings |
| `interface_selection` | is imClient always told, are errors served, does Wi-Fi win? | yes, with a cellular module that works; but for the time from a second initialisation to the next interface chosen, in which it is told nothing |
| `im_client` | does an event leave the queue only when the broker has it, in order, and is there a subscription whenever it serves? | yes, with dead links (whether `recv` tells or not), a changed broker and a failing initialisation; with Wi-Fi lost anywhere; with a second initialisation, which empties the queue; and, for the subscription alone, with any three faults of any kind and only status messages |
| `im_client_live` | are events sent and the connection restored? | yes, after links that die and resets, after a loss of Wi-Fi at any point, after an outage in which the queue is given up |
| `im_client_stale_answer` | the same when a lost interface change meets a lost Wi-Fi | **no**, see findings |
| `im_dispatch` | two partitions, commands with a flag: do keys reach their partition, does the flag outlive them, is every message attended to? | yes |
| `im_dispatch_one` | one partition, all messages and frames: is the bus ever blocked by keys, does a panic always get out? | no, and yes |
| `im_dispatch_keys` | is a command over only when its keys are out, with a change of mode going on? | **no**, see findings |
| `persistence` | is every setting stored or pending, through power cuts and restarts, and stored in the end; is the broker told only what is stored, and the lock of the nodes released? | yes, until the queue overflows, but for the settings that a start from the programming mode finds pending and those that a stray `i` sends elsewhere |
| `wifi` | is the radio in the mode that the state says, is the list of sockets free of strays, does the device get back on its network? | yes, but for what is said under limits |
| `interrupts` | are seconds and frames lost between the interrupt and the loop, is a timer late, is the transmitter ever stuck? | no, while the loop keeps up |

### Bounds and why they are enough

* `pool`: with four slots each queue can be empty, partly full and full, slots
  move between the queues, and one can be lost with three in circulation.
  `PayloadLens = {0, 2}` distinguishes an empty from a dirty slot.  The
  invariants are also proved, for every length.
* `interface_selection`: penalties of 4 and 2 minutes in place of 15 and 1.  What
  matters is that the long one outlasts the short one by more than one step, so
  that either can expire while the other runs.  The safety properties are proved
  for all penalties.
* `im_client`: two events give a queue whose head changes while another waits;
  three faults reach a reconnection in the middle of a recovery.  `TcpSockMax = 3`
  is the number of sockets that those can use up.  There are four scenarios: links that die,
  Wi-Fi that is lost, the second initialisation, and the last, of all kinds, which has only the
  status messages; in it the broker may be slow, but there is no event to be taken for another.
  The types and the subscription are proved too, for any bounds and
  scenarios, the other two under `Orderly` (section 4).
* `im_client_live`: three faults among dead links and resets; one, when it may be Wi-Fi
  (with more the property is false, below); two with a queue given up.
  `TcpSockMax = 7` is the value of the driver (socket.h).
* `persistence`: two automations are told in two parts, and `SaveQueueLength = 7` is
  the least that holds the six saves of the defaults, so that indices wrap; two
  commands, one power cut.  `MaxSettings` bounds together the commands, the uses of the menu and
  the times that `i` is not zero; with `StrayReads = {0, 1}` it may be either at each save, and
  a save that goes astray lands nowhere or on the flag (`Landings`), which is where it does
  most harm.  `Fallas` are the critical errors; the only mild one is that of the
  server socket, which the proofs cover.  A device with a critical error does nothing
  more: deadlock is not checked.
* `wifi`: `MaxSockets = 2` in place of five, so that the list fills; three presses of
  the button, three faults, two phones and two waiting events reach every state
  from every other with either history.
* `interrupts`: a second of five ticks, a word of 16 ms with a reach of five, so that
  everything wraps (`NoSecondLost` needs four ticks).  The parts of the scenario (bus,
  clock, timer) do not share variables but for the 4 ms flag, and are checked one at a time.

* `im_dispatch`: two partitions and two messages are the least that can dispute
  the buffer; two frames let the panel act between them.  `ConFlag` is every message
  whose keys hold a flag, and those of one frame.  Logs of three bytes, replays of
  two zones and timers of two seconds reach their last value, end early and
  expire.  The safety properties are proved for every bound.
* `im_dispatch_one`: every message and every frame, three frames and two messages:
  a change of mode, its wrong answer and another command.
* `im_dispatch_keys`: one partition is enough.

### Fairness

`interface_selection`: the main loop keeps calling the handler and time goes on
(weak fairness of both).  Nothing is assumed of the networks.

`im_client_live...`: weak fairness of the firmware (it is a loop, and every
blocking call ends since each has a timeout), of the broker (a living broker
answers) and of time.  Strong fairness is assumed of the actions that a timer
enables (it does expire) and of the actions that compete with a timer (`IdleSend`,
`WaitAckPublished`: a pass takes milliseconds and the shortest timer two seconds,
so the timer is not always the first).  Nothing is assumed of Wi-Fi, links or
resets: `EventuallySent` (every event leaves the queue) and `Reconnects` (again and
again a connection with the broker's subscription) say themselves "once Wi-Fi is there to
stay", and faults are finite.

`persistence`: weak fairness of the handler or the loop that is running and of the
initialisation; strong fairness of `pga_saveRAM` (it is reached when the bus is idle, again
and again) and of `nodesManager_determinarFinProcesamiento` with a slot, since
the passes that find the loop saving, or no slot, are not all of them.  That slots
come back is what `im_client_live` shows, and `pool_leak` limits.

`wifi`: weak fairness of the callbacks and of the passes with expired timers (both
run in every `mainLoop`), of the driver (it joins, it gets an address) and of the
phone (it goes away).  Nothing is assumed of the button, of WPS or of faults, which are
finite.

`interrupts`: weak fairness of the interrupt's work on a frame that is on the bus;
strong fairness of `OwnStarts`, for the bus is quiet again and again and the priority
of 10 ms is met in some of those silences.

`im_dispatch...`: weak fairness of the passes of the loop (`Pasos`), strong
fairness of `Tick` (a second passes, although not in each pass) and of sending (the
bus is idle again and again, and of those occasions the loop takes
infinitely many).  Nothing is assumed of the panel: a replay that was asked for
may never begin, a log may stop in the middle.  Frames are finite, so that the
panel does not restart a timer for ever.

### Findings

1. **Slots are lost** (`pool_leak`).  When the retention time is over, the flush
   sets the pointers to NULL and releases nothing, so up to all 100 slots are
   lost; and every request for the configuration of the nodes, when there is an
   automation, loses one.  When they are all lost nothing is sent until a restart.
2. **An event can leave the queue unsent** (`im_client_stale_answer`).  With the
   client serving while the connectivity manager is in `WAITING` (an earlier
   interface change overwritten by the state that a blocking call assigned), Wi-Fi
   lost between `FSM_IDLE` and `FSM_MSG_SEND` makes `FSM_MSG_SEND` skip the
   publication and `FSM_WAIT_ACK` take the acknowledgement of the status message,
   less than two seconds old, for that of the event.

3. **A command can be taken for sent with its code unsent** (`im_dispatch_keys`).
   While a change of mode is pending, the next frame with the wrong mode
   overwrites the keys of whoever is sending with one MODO key.  The flag of the
   overwritten command is released when that key is out.

### Limits that the model shows

There is no run for these, but each appears with the constants given.  Some contradict a
comment, as the findings do: *Old recorder* that of alarmMonitor.c:604,
*Entries of the list of sockets* that of WiFiManager.c:501, *A message given up in
the middle* that of nodesManager.c:699, and *First start* and *Start from the
programming mode* that of mainFsm.c:131.  The others are outside the promise of any.

* *Late answer.*  `waitfor` does not look at the packet id, so that the PUBACK of a
  publication given up is taken for that of the next: `AckedIsReceived` fails in
  the scenario of kinds `{"slow"}`, 2 faults, 2 events, with `TcpSockMax = 2`.
* *Lost change.*  The change to another interface arrives while the client is in
  `FSM_CONNECT_BROKER`, which then assigns `FSM_WAIT_CONNECTION`: the client goes on
  with the old socket, and each failed attempt puts Wi-Fi in error again.
  `Reconnects` fails in the scenario of kinds `{"wifi"}`, 2 faults, no events, with
  `TcpSockMax = 6`, under `FairSpec`.
* *Retention in the middle of a send.*  When the ten minutes run out between
  `FSM_IDLE` and `FSM_MSG_SEND` the queue is flushed first, a null message is
  published, and its PUBACK removes the event posted meanwhile: `AckedIsReceived`
  fails in the scenario of kinds `{"retention"}`, 1 fault, 2 events.
* *Sockets.*  `NetworkInit` forgets the socket without closing it.  Each reset or
  change of interface uses up one of the driver's, until none is left:
  `Reconnects` fails in the scenario of kinds `{"link"}`, 3 faults, with
  `TcpSockMax = 1`.
* *Pings.*  `sendAckErrors` of Paho is never reset, so that after two failed pings
  in the life of the device every later call fails at once: `Reconnects` fails in
  the scenario of kinds `{"link", "silent"}`, 1 fault, with `TcpSockMax = 7`.
* *Cellular that drops and returns* can keep Wi-Fi in error for ever, fifteen
  minutes at a time (connectivityManager.c:57-58): the antecedent of `WifiWins`
  excludes it.
* *Initialised again.*  `connectivityManager_init` (connectivityManager.c:25-27) leaves imClient
  with the interface that it had and tells it nothing until the next one is chosen: it
  may go on reporting errors of an interface that nobody selects (`ToldIsSelected`, with
  `forgotten`).  `messagePool_init` drops what was queued (`frail` of `Outbox`).
* *Shared buffer.*  With two partitions and changes of mode a key goes to a
  partition it was not loaded for, and a bit of `mandarTeclas` stays up with no
  keys behind it: then main.c:389 sends nothing, nor anything that comes after it,
  until other keys are loaded.  `KeysGoToTheirPartition` and `BusNotBlocked` fail
  with `Layers = {0, 1}`, `Pedidos <- ModoYActivar`, `Tramas = {"modo"}` and the rest of
  `ImDispatchKeys.cfg`.
* *Old recorder.*  After sending 3 8 3 6 8 to a recorder that fell silent the timer
  is not started again (alarmMonitor.c:627-640), against the comment of line 604,
  "8 segudnos de timeout (por cada evento)".  If nothing comes, the flag stays up and no message is
  attended to any more.  `EveryMessageServed` fails with `Tramas = {"T"}`,
  `MaxTramas = 1`, `MaxPedidos = 1` and the rest of `ImDispatchOne.cfg`.  The log of an
  old recorder is expected to have 48 bytes (line 656, "los 8 eventos"), at five
  bytes per event.
* *End of the programming mode.*  The F of fsmProg.c:188-191 has no bit of
  `mandarTeclas` and is not sent.  If it is loaded in the pass that follows the
  last key of a command, the flag of the command stays up until other keys
  are sent: `EveryMessageServed` fails with `Layers = {0}`, `Pedidos <- ConFlag`,
  `Tramas = {"estado", "wcom", "salir"}`, `MaxTramas = 3`, `MaxPedidos = 1`.
* *WPS left on.*  Data of a phone that arrive between the press of the button and the
  entry block of `modoWps` (WiFiManager.c:607-647) take the manager away with WPS on;
  `isWiFiConnected` then denies every connection until WPS answers or `modoWps` runs again.  It
  is the second disjunct of `Recovers` and `wpsSuelto`.
* *Entries of the list of sockets.*  Data left available by `modoWps` make
  `escuchandoConexiones` leave in its first pass, before its socket is listening, and
  `deleteServerSocket` does nothing: socket and entry stay, although the comment of
  WiFiManager.c:501 expects them closed.  A bind, listen or accept that fails leaves its
  entry too.  After five the server cannot be created and the device is in the state of error
  for ever.  `EntriesExplained` says that nothing else leaves an entry.
* *Events under the access point.*  A loss of the network told while the access point is on
  is taken for a phone's (`Truthful` says when the flag is right again).  If the
  event of the station comes after the access point was enabled, it counts as a
  phone that never goes away: with `LateEvents = TRUE` `EntriesExplained` and `Recovers` fail.
* *Wrap of the tick counter.*  After 49 days `softTimer_expired` takes the wrap for 65535:
  a timer that is running then may expire up to 65 s early, never late (`TimerSound`).
* *A loop that falls behind.*  A 4 ms tick that finds the one before it not yet taken
  may lose a second (`tickTarde`); a frame that finds the last not yet read is read
  under the other's kind, or lost (`recTarde`).  Within those bounds the clearing of a flag
  can still lose a 4 ms tick, and a frame whose first edge falls between the read and the store.
* *A message given up in the middle.*  "se descarta todo el mensaje" (nodesManager.c:699) is not so:
  the automations before the bad number are changed and saved, and told with the
  next message that is whole.
* *Queue of saves.*  A message about nodes, of two bytes per automation, can ask for
  50 saves; the queue of 50 then looks empty, and what was pending is lost
  (`desborde`: nothing but the types is promised after it).
* *Stray index.*  `pga_saveRAM` adds to both addresses a variable that nothing assigned (pga.c:122, 144).
  Where it is not zero the setting is not saved, its entry is taken for served, and
  other bytes of the EEPROM are overwritten, of the flag maybe.  Those cells are
  `perdidas`: without them `SavedOrPending` fails with `StrayReads = {0, 1}`.
* *Start from the programming mode.*  Leaving the programming mode that was entered in the first two
  seconds starts the device again: the settings whose save is pending are read back old
  from the EEPROM, and a factory reset that was asked for in that menu is forgotten by `pga_init` (pga.c:24).
  The comment of mainFsm.c:131, "Se chequea la EEPROM externa para determinar si hay que
  inicializarla o leerla", does not think of a queue.  Those settings are `perdidas` too.
* *First start.*  The flag that says that the EEPROM is valid is written before the rest
  (pga.c:394): a power cut in the first seconds leaves a half blank
  configuration that is read as valid, where the comment of mainFsm.c:131 says that the EEPROM is looked at
  to decide whether it must be initialised.  `defaults`
  saves 30 bytes where `loadValues` reads 31, so that the delay of the eighth partition is
  never initialised (`Kept` leaves it out); it also runs a second time when the
  request that it makes itself is served.

## 4. Proofs

TLAPS, for every value of the constants allowed by the assumptions
`PoolLenAssumption`, `NullAssumption`, `PayloadAssumption` (a pool with a slot at
least, a `NULL` that is no slot, lengths that are numbers) and `PenaltyAssumption`
(penalties that are numbers, `0 < ShortPenalty < LongPenalty`), and the
`LayersAssumption`, `PedidosAssumption` and `BoundsAssumption` of `ImDispatch`
(partitions are numbers, 0 among them; messages are of the known kinds; no code,
log, replay or time is empty).

* `MessagePoolProofs`: `PoolTypeOK`, `QueuesCompact`, `SlotOwnership`,
  `FreeSlotsClean`, `PushNeverDrops`.  The first four are inductive together and
  none is alone: a push keeps a queue injective because `getFreeSlot` hands out a
  slot that is free, and free slots are unqueued (`SlotOwnership`); a pop frees a
  slot which, the queues being injective and disjoint, is by then in neither; a
  free slot is clean because only release frees.  A push writes the first NULL
  entry, which keeps the queue compact.  `PushNeverDrops` follows by counting: a
  compact queue whose last entry is taken has as many different slots as the
  pool, so that no slot is left out of it.  `PoolBehavesAsQueues` is the refinement of
  `SlotQueues`: because an array is compact, `Contents` lists its entries from the
  first to the last; a push then appends to that sequence (`ContentsOfPush`), a shift takes its
  head (`ContentsOfShift`), and by `SlotOwnership` the slots that are in no queue and busy are
  the leaked ones.  One lemma per operation gives its step of `SlotQueues`.
* `InterfaceSelectionProofs`: `TypeOK`, `ToldIsSelected`, `ErrorIsServed`, with the second
  initialisation of the manager among the steps.  `ToldIsSelected` excepts, by `forgotten`, the time
  from it to the next interface chosen, and even then says that no other
  interface is selected than the one told.  The last is an action property that no state says by itself.  `YoungErrorStands` does: while
  an error is younger than `ShortPenalty` its flag is up, its timer has not expired,
  and the age plus what is left on the timer is at least `ShortPenalty`, although
  other transitions restart that timer with either penalty.

* `ImDispatchProofs`: two conditions under which the shared buffer is sane.
  `OnePartitionNeverBlocks`: with one partition, `BusNotBlocked` is inductive
  with the types it needs, since every writer that sets a bit loads a key,
  and the last key clears the only bit.  `FlagKeepsWritersApart` and
  `FlagReleasedLast`: for any number of partitions, if no message changes the mode,
  the recorder is not an old one and nobody programs the device (`KeepsFlags`, an
  assumption on `Pedidos` and `Tramas` that `ImDispatch.cfg` meets).  The invariant is `Held`: keys to
  send are of the one partition whose bit is up, and the flag of the command
  that loaded them is held, so that the dispatch cannot bring a second writer; and
  `Quiet`: what could load keys without a flag is not there.
  `DispatchTypeCorrect` is for any messages and frames: a replay or a log that reaches its last
  zone or byte clears the flag on which it would take another.
* `ImClientProofs`: `ImClientTypeCorrect` and `AlwaysSubscribed` hold in every scenario, with all
  faults.  `SubscribedWhileServing` follows from `ServingInv`, which starts from the
  link: a link that is not yet connected has no session with the broker but for the CONNECT
  under way; a SUBACK on the way back, or `subscribed`, means that the broker has
  subscribed *this* session; the states that serve are only reached after either, or
  after a call that failed and left the client unconnected.
  `AckedAfterReceived` and `ImClientKeepsPromise` (the refinement of `Outbox`) need the
  hypothesis `Orderly`: no `slow` and no `retention` among the faults, and not `wifi`
  together with `silent`.  It is no weaker than it must be: TLC violates both properties
  with `slow` alone and with `retention` alone (limits, above), and with `wifi` and `silent`
  (finding 2).  With `menu`, what `KeepsThePromise` allows is that all of the queue is given up.  What it leaves is any number of events, dead links, silences or losses of Wi-Fi,
  resets, failing and second initialisations, in any order.  `DeliveryInv` says that at most one packet
  is under way in either direction, that of the call that blocks or its answer (`LinkInv`), that
  `published` and `FSM_WAIT_ACK` are about the head of the queue (`SendInv`), and that a loss of Wi-Fi
  is known before the switch is reached (`WifiInv`).  TLC checked it before it was
  proved, in scenarios of four faults and two events.
* `PersistenceProofs`: `TypeOK`, `QueueHoldsPending`, `SavedOrPending`, for a queue of any
  length, whatever `pga_saveRAM` finds in its index and wherever such a save lands.  They
  are inductive together with three more.  `Quiet`: a device that has not read its
  configuration has no error and nobody at its menu, so that no pass of the main state machine skips
  the entry block that reads it, and was asked for nothing.  `FlagIsDefault`: whoever
  is to save the flag has it in RAM with the value that makes a start read the EEPROM.
  `ResetIsLast`: while a reset is to be made it is what was asked for last, which is
  what lets the defaults serve it.  The core are three lemmas on the circle: an enqueue
  adds the entry at `queueIn` and no other, a turn of the loop serves the one at
  `queueOut` and no other, the end of the loop serves none, with either index at the
  point where it wraps.  Less than a full circle pending is what keeps an enqueue from
  overwriting an entry.
* `NodesManagerProofs`: `NodesKeepConfiguration` says that every step of `NodesManager` is one of
  `Persistence` or a stutter, so the invariants above hold of it; from them and the guard on the
  empty queue follows the action property `ToldIsStored`: with no entry pending,
  `SavedOrPending` leaves an automation in the EEPROM as it was asked for, or among `perdidas`.
* `WiFiManagerProofs`: `TypeOK`, `ApOnlyWhileListening`, `WpsOnlyInModoWps` for every value of
  the constants, `EntriesExplained` for `LateEvents = FALSE`.  Types alone are not
  inductive (an entry is taken off the list below zero) without `ServerListed`: a server socket has
  its entry.  The modes need to know which states a phone, a client or an event can be
  left over in (`ModesInv`), and the entries are counted state by state
  (`EntriesInv`).
* `InterruptsProofs`: `TimerSound` for a word and a reach of any size (the age of a timer is the
  difference of the counter modulo the word, until it has gone round), `Faithful` for any
  kinds and order, `TypeOK`, and `NoSecondLost`: `SecondsKept` if a second is at least four ticks of
  4 ms.  The store that clears a flag can lose what the interrupt sets after the read.
  `SecondInv` says how far the loop is behind the second (`Ahead`, by the order of the flags in the
  pass) so that the next second cannot fall due in such a gap; with three ticks TLC
  finds a second lost.  The code has 250.  `Faithful` needs that at most one flag is up or being
  attended while no frame was late, and that the byte read says the truth of
  every flag but `receiving`.

Assumptions: besides the bounds, `SaveQueueLength` at least two, settings that
are no automations, `StrayAssumption` (zero is among the values of `i`, and a save may
land nowhere), `Messages` made of automations, `Reach < Word`, dividers above zero.

Every safety invariant, action property and refinement that a passing run checks is so proved, those of
`ImDispatch` and `ImClient` under the hypotheses said.  Only model-checked are the liveness
properties (`WifiWins`, `EventuallySent`, `Reconnects`, `EveryMessageServed`, `PanicSent`,
`EventuallyStored`, `NodesServed`, `Truthful`, `Recovers`, `EveryMessageLeaves`), which are out of the
prover's reach, and the violations of the findings.

## 5. Not modelled, and why

* *Vendored code* (`ASF`, CMSIS, the WINC1500 driver, Paho): nine tenths of the lines of the
  repository.  What the firmware calls is modelled as the firmware uses it, never for itself.
* *Cellular manager, BG96, UART, ring buffer*: compiled, but no handler is ever called in
  this version; `InterfaceSelection` models the interface as the code would
  see it if it were.
* *Duplicates of QoS 1* (`messageIsDuplicated`, imClient.c:1000): the function indexes its
  table with the addresses of its rows and ends without a `return`, so that its answer is
  undefined on every call and nothing can be promised of it.
* *Incoming publications in `ImClient`*: their effect on the pool is in `MessagePool`
  and their handling in `ImDispatch`.
* *Nodes*: turning nodes on and off with their timers and the execution of the automations,
  each a table of countdowns with one frame each, sent in the chain of
  priorities that `ImDispatch` models.
* *Date and time*: time keeping and NTP, a sequential calendar and a request with a
  retry; the calendar is arithmetic without concurrency.
* *Menus of the programming mode*, LEDs, display, debounce, stopwatch: presentation.
* *Factory test* (`WiFiManager.c`, `mainFsm.c`): only its entry in the main state machine.
* *Samples and bits of the bus*: Hamming codes, collisions and the jam after a mistake; a
  frame is the unit here.
* *Backend and application*: one database call per handler; their concurrency is that
  of services outside of the repository.

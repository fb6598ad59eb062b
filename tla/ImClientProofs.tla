--------------------------- MODULE ImClientProofs ---------------------------
(***************************************************************************)
(* Theorems about the client of the broker, for every number of events,    *)
(* faults and sockets, any scenarios and any penalties: its types, that it *)
(* serves only with its subscription in place, and that it implements      *)
(* Outbox.                                                                 *)
(*                                                                         *)
(* Two inductive invariants carry the proofs, one step per action each.    *)
(* ServingInv follows the CONNECT and the SUBACK of the present link.      *)
(* DeliveryInv says that at most one packet is under way, the one that the *)
(* blocking call sent or its answer, so that a PUBACK is that of the head  *)
(* of the queue; it needs the hypothesis Orderly, which leaves out the     *)
(* disturbances that do break the delivery.                                *)
(***************************************************************************)
EXTENDS ImClient, WellFoundedInduction, TLAPS

-----------------------------------------------------------------------------
(* What the FIFO and the two directions of the link are made of. *)

LEMMA LeastNumber ==
    ASSUME NEW T \in SUBSET Nat, T # {}
    PROVE  Min(T) \in T /\ \A t \in T : Min(T) <= t
<1>1. PICK t \in T : \A u \in T : ~(<<u, t>> \in OpToRel(<, Nat))
    BY WFMin, NatLessThanWellFounded
<1>2. \A u \in T : ~(u < t)
    BY <1>1 DEF OpToRel
<1>3. \A u \in T : t <= u
    BY <1>2
<1> QED BY <1>3 DEF Min

\* waitfor() consumes the answers up to the one that it waits for.
LEMMA AnswerFound ==
    ASSUME NEW S, NEW s \in Seq(S), NEW e, Contains(s, e)
    PROVE  /\ {i \in 1 .. Len(s) : s[i] = e} # {}
           /\ Min({i \in 1 .. Len(s) : s[i] = e}) \in 1 .. Len(s)
<1> DEFINE I == {i \in 1 .. Len(s) : s[i] = e}
<1>1. I \in SUBSET Nat /\ I # {} BY DEF Contains
<1> QED BY <1>1, LeastNumber

LEMMA RestOfSeq ==
    ASSUME NEW S, NEW s \in Seq(S), NEW n \in 1 .. Len(s)
    PROVE  SubSeq(s, n + 1, Len(s)) \in Seq(S)
OBVIOUS

LEMMA TailOrEmpty ==
    ASSUME NEW S, NEW s \in Seq(S)
    PROVE  (IF s = <<>> THEN <<>> ELSE Tail(s)) \in Seq(S)
OBVIOUS

\* The head of a queue stays while events are posted behind it.
LEMMA HeadStays ==
    ASSUME NEW S, NEW q \in Seq(S), q # <<>>, NEW e
    PROVE  Append(q, e) # <<>> /\ Head(Append(q, e)) = Head(q)
OBVIOUS

-----------------------------------------------------------------------------
(* Types. *)

Packets(n) == [type : {"connect", "subscribe", "publish", "disconnect"}, event : Status .. n]
States == {"WAITING_INTERFACE", "INIT", "CONNECT_BROKER", "IDLE", "MSG_SEND", "ERROR",
           "WAIT_CONNECTION", "WAIT_SUBSCRIBE", "WAIT_ACK", "WAIT_STATUS_ONLINE_ACK",
           "WAIT_STATUS_OFFLINE_ACK", "WAIT_CLOSE"}
CallNames == {"connect", "connack", "subscribe", "publish", "online", "offline", "disconnect"}

\* TypeOK in four parts, as the actions change them.
ClientType ==
    /\ fsmState \in States
    /\ interface \in {"none", "wifi"} /\ nextInterface \in {"none", "wifi"}
    /\ resetConnection \in BOOLEAN /\ published \in BOOLEAN /\ subscribed \in BOOLEAN
    /\ sendingError \in 0 .. 2 /\ tries \in 0 .. 2
    /\ pc \in CallNames \cup {"loop", "yield", "switch"}
QueueType ==
    /\ posted \in 0 .. MaxEvents /\ faults \in 0 .. MaxFaults
    /\ outputQueue \in Seq(1 .. posted)
    /\ received \subseteq 0 .. posted
LinkType ==
    /\ connected \in BOOLEAN /\ wifi \in BOOLEAN /\ pingErrors \in 0 .. 2
    /\ sock \in {"none", "open", "dead"} /\ sockets \in 0 .. TcpSockMax
    /\ session \in {"none", "on", "subscribed"}
    /\ toBroker \in Seq(Packets(posted))
    /\ toClient \in Seq({"CONNACK", "SUBACK", "PUBACK"})
ScenarioType == scenario \in Scenarios /\ MaxEvents \in Nat /\ MaxFaults \in Nat /\ Faults \subseteq FaultKinds

\* The cellular module never offers a connection.
ManagerType == CMTypeOK /\ cmState # "HAY_CELULAR"

TypeInv == ManagerType /\ ClientType /\ QueueType /\ LinkType /\ ScenarioType

LEMMA CallsAre == Calls = CallNames /\ \A k \in CallNames : After[k] \in States
BY DEF Calls, After, CallNames, States

LEMMA TypeInvIsTypeOK == TypeInv => TypeOK
<1> SUFFICES ASSUME TypeInv PROVE TypeOK
  OBVIOUS
<1>1. {After[k] : k \in Calls} = {"WAIT_CONNECTION", "WAIT_SUBSCRIBE", "WAIT_ACK",
            "WAIT_STATUS_ONLINE_ACK", "WAIT_STATUS_OFFLINE_ACK", "WAIT_CLOSE"}
  BY DEF Calls, After
<1> QED
  <2>1. States = {"WAITING_INTERFACE", "INIT", "CONNECT_BROKER", "IDLE", "MSG_SEND", "ERROR"}
                   \cup {After[k] : k \in Calls}
    BY <1>1 DEF States
  <2>2. ClientType /\ QueueType /\ LinkType /\ ManagerType BY DEF TypeInv
  <2>3. toBroker \in Seq([type : {"connect", "subscribe", "publish", "disconnect"},
                           event : Status .. posted])
    BY <2>2 DEF LinkType, Packets
  <2> QED
    BY <2>1, <2>2, <2>3, CallsAre DEF TypeOK, ManagerType, ClientType, QueueType, LinkType

LEMMA TypeInit == Init /\ scenario \in Scenarios => TypeInv
<1> SUFFICES ASSUME Init PROVE TypeInv
  OBVIOUS
<1> USE ImClientAssumption, PenaltyAssumption DEF Init
<1>0. 0 \in 0 .. 2 /\ 0 \in 0 .. LongPenalty /\ 0 \in 0 .. TcpSockMax
  OBVIOUS
<1>1. ManagerType BY <1>0 DEF ManagerType, CMInit, CMTypeOK, NoEvent, Events, Interfaces
<1>2. ScenarioType BY DEF ScenarioType, MaxEvents, MaxFaults, Faults
<1>3. ClientType BY <1>0 DEF ClientType, States
<1>4. QueueType BY <1>2 DEF QueueType, ScenarioType
<1>5. LinkType
  <2>1. toBroker \in Seq(Packets(posted)) /\ toClient \in Seq({"CONNACK", "SUBACK", "PUBACK"})
    OBVIOUS
  <2> QED BY <1>0, <2>1 DEF LinkType
<1> QED BY <1>1, <1>2, <1>3, <1>4, <1>5 DEF TypeInv

\* What the connectivity manager can tell, with no cellular connection.
LEMMA HandlerEvents ==
    ASSUME ManagerType, NEW w \in BOOLEAN, CMHandler(w, FALSE)
    PROVE  /\ ManagerType'
           /\ event' \in {NoEvent, Change("none"), Change("wifi")}
           /\ event' = Change("wifi") => w
<1> USE PenaltyAssumption
    DEF ManagerType, CMTypeOK, ClearExpired, WifiError, CellularError, KeepTimers, Enter
<1>0. 0 .. LongPenalty \subseteq Nat /\ ShortPenalty \in 0 .. LongPenalty
      /\ LongPenalty \in 0 .. LongPenalty
  OBVIOUS
<1>1. {NoEvent, Change("none"), Change("wifi")} \subseteq Events
  BY DEF Events, NoEvent, Change, Interfaces
<1>2. Change("none") # Change("wifi") /\ NoEvent # Change("wifi")
  BY DEF Change, NoEvent
<1> HIDE PenaltyAssumption
<1>3. CASE Start BY <1>1, <1>2, <1>3 DEF Start
<1>4. CASE SelectWifi(w) BY <1>1, <1>2, <1>4 DEF SelectWifi
<1>5. CASE WifiLost(w, FALSE) BY <1>0, <1>1, <1>2, <1>5 DEF WifiLost
<1>6. CASE Stay(w, FALSE) BY <1>1, <1>2, <1>6 DEF Stay
<1> QED
  BY <1>3, <1>4, <1>5, <1>6
  DEF CMHandler, SelectCellular, WifiToCellular, CellularToWifi, CellularLost

LEMMA InterfaceErrorType ==
    ASSUME ManagerType, NEW i, InterfaceError(i)
    PROVE  ManagerType'
<1>1. LongPenalty \in 0 .. LongPenalty BY PenaltyAssumption
<1> QED BY <1>1 DEF ManagerType, CMTypeOK, InterfaceError

LEMMA MinuteType == ASSUME ManagerType, Minute PROVE ManagerType'
<1>1. \A t \in 0 .. LongPenalty : LessOne(t) \in 0 .. LongPenalty
  BY PenaltyAssumption DEF LessOne
<1> QED BY <1>1 DEF ManagerType, CMTypeOK, Minute

LEMMA FaultType == ASSUME TypeInv, NEW k, Fault(k) PROVE faults' \in 0 .. MaxFaults
BY DEF TypeInv, QueueType, ScenarioType, Fault

\* Sets of events and packets that grow with posted.
LEMMA PostedGrows ==
    ASSUME TypeInv, posted' \in Nat, posted <= posted'
    PROVE  /\ outputQueue \in Seq(1 .. posted') /\ toBroker \in Seq(Packets(posted'))
           /\ received \subseteq 0 .. posted'
<1>1. 1 .. posted \subseteq 1 .. posted' /\ 0 .. posted \subseteq 0 .. posted'
      /\ Status .. posted \subseteq Status .. posted'
  BY DEF TypeInv, QueueType, Status
<1>2. Packets(posted) \subseteq Packets(posted') BY <1>1 DEF Packets
<1> QED BY <1>1, <1>2 DEF TypeInv, QueueType, LinkType

LEMMA MainLoopBodyType ==
    ASSUME TypeInv, MainLoopBody, UNCHANGED scenario,
           pc' \in CallNames \cup {"loop", "yield", "switch"}
    PROVE  TypeInv'
<1> USE DEF MainLoopBody
<1>1. wifi' \in BOOLEAN /\ faults' \in 0 .. MaxFaults
  BY FaultType DEF WifiEvents, TypeInv, LinkType, QueueType
<1>2. ManagerType' /\ event' \in {NoEvent, Change("none"), Change("wifi")}
  BY <1>1, HandlerEvents DEF TypeInv
<1>3. ScenarioType' BY DEF TypeInv, ScenarioType, MaxEvents, MaxFaults, Faults
<1>4. posted' \in 0 .. MaxEvents /\ posted <= posted'
  BY DEF MayPost, TypeInv, QueueType, ScenarioType
<1>5. outputQueue' \in Seq(1 .. posted')
  <2>1. outputQueue \in Seq(1 .. posted') /\ posted' \in Nat BY <1>4, PostedGrows
  <2>2. posted' = posted + 1 => posted' \in 1 .. posted'
    BY DEF TypeInv, QueueType
  <2> QED BY <2>1, <2>2 DEF MayPost
<1>6. UNCHANGED <<sockets, received>> BY DEF WifiEvents, KillLink, linkVars
<1>7. QueueType'
  BY <1>1, <1>4, <1>5, <1>6, PostedGrows DEF QueueType, MaxEvents, MaxFaults
<1>8. /\ sock' \in {"none", "open", "dead"} /\ session' \in {"none", "on", "subscribed"}
      /\ toClient' \in Seq({"CONNACK", "SUBACK", "PUBACK"})
      /\ toBroker' \in Seq(Packets(posted'))
  <2>1. toBroker \in Seq(Packets(posted')) BY <1>4, PostedGrows
  <2>2. <<>> \in Seq({"CONNACK", "SUBACK", "PUBACK"}) /\ <<>> \in Seq(Packets(posted'))
    OBVIOUS
  <2>3. CASE KillLink BY <2>2, <2>3 DEF KillLink, TypeInv, LinkType
  <2>4. CASE UNCHANGED linkVars BY <2>1, <2>4 DEF linkVars, TypeInv, LinkType
  <2> QED BY <2>3, <2>4 DEF WifiEvents
<1>9. LinkType' BY <1>1, <1>6, <1>8 DEF LinkType, TypeInv
<1>10. ClientType'
  <2>1. /\ nextInterface' \in {"none", "wifi"} /\ fsmState' \in States
        /\ resetConnection' \in BOOLEAN
    BY <1>2 DEF OnChange, NoEvent, Change, TypeInv, ClientType, States
  <2> QED BY <2>1 DEF ClientType, TypeInv
<1> QED BY <1>2, <1>3, <1>7, <1>9, <1>10 DEF TypeInv

-----------------------------------------------------------------------------
(* Every step keeps the types: first the cases of the switch. *)

\* A case finds the queue as it was or flushed, and may count one more disturbance.
LEMMA CaseType ==
    ASSUME TypeInv, NEW s, NEW q \in {outputQueue, <<>>}, Case(s, q)
    PROVE  /\ q \in Seq(1 .. posted) /\ faults' \in 0 .. MaxFaults
           /\ UNCHANGED <<nextInterface, pingErrors, wifi, sockets, received, posted>>
<1>1. q \in Seq(1 .. posted)
  <2>1. <<>> \in Seq(1 .. posted) OBVIOUS
  <2> QED BY <2>1 DEF TypeInv, QueueType
<1>2. faults' \in 0 .. MaxFaults
  BY FaultType DEF Case, Retention, TypeInv, QueueType
<1> QED BY <1>1, <1>2 DEF Case

\* A call that is started sends its packet; one that is not is over.
LEMMA CallType ==
    ASSUME TypeInv, NEW k \in CallNames, NEW p \in Packets(posted), Call(k, p)
    PROVE  /\ pc' \in CallNames \cup {"loop"} /\ fsmState' \in States
           /\ toBroker' \in Seq(Packets(posted))
<1>1. After[k] \in States BY CallsAre
<1>2. fsmState \in States /\ toBroker \in Seq(Packets(posted))
  BY DEF TypeInv, ClientType, LinkType
<1>3. Append(toBroker, p) \in Seq(Packets(posted)) BY <1>2
<1> QED BY <1>1, <1>2, <1>3 DEF Call

LEMMA PacketsAre ==
    ASSUME TypeInv
    PROVE  /\ {Connect, Subscribe, Disconnect} \subseteq Packets(posted)
           /\ \A m \in Status .. posted : Publish(m) \in Packets(posted)
<1>1. Status \in Status .. posted BY DEF TypeInv, QueueType, Status
<1> QED BY <1>1 DEF Packets, Connect, Subscribe, Disconnect, Publish

\* What is left to show of a case of the switch.
LEMMA SwitchParts ==
    ASSUME TypeInv, UNCHANGED scenario, NEW s, NEW q \in {outputQueue, <<>>}, Case(s, q),
           UNCHANGED cmVars \/ ManagerType',
           fsmState' \in States, pc' \in CallNames \cup {"loop"},
           interface' \in {"none", "wifi"}, resetConnection' \in BOOLEAN,
           published' \in BOOLEAN, subscribed' \in BOOLEAN,
           sendingError' \in 0 .. 2, tries' \in 0 .. 2,
           outputQueue' \in Seq(1 .. posted), connected' \in BOOLEAN,
           sock' \in {"none", "open", "dead"}, session' \in {"none", "on", "subscribed"},
           toBroker' \in Seq(Packets(posted)), toClient' \in Seq({"CONNACK", "SUBACK", "PUBACK"})
    PROVE  TypeInv'
<1> USE CaseType
<1>1. ManagerType' BY DEF ManagerType, CMTypeOK, cmVars, TypeInv
<1>2. ScenarioType' BY DEF TypeInv, ScenarioType, MaxEvents, MaxFaults, Faults
<1>3. ClientType' BY DEF TypeInv, ClientType
<1>4. QueueType' BY DEF TypeInv, QueueType, MaxEvents, MaxFaults
<1>5. LinkType' BY DEF TypeInv, LinkType
<1> QED BY <1>1, <1>2, <1>3, <1>4, <1>5 DEF TypeInv

LEMMA SwitchType ==
    ASSUME TypeInv, UNCHANGED scenario, NEW q \in {outputQueue, <<>>}, Switch(q)
    PROVE  TypeInv'
<1> USE DEF Goto, KeepLink, KeepClient, KeepAnswers, KeepCounts
<1>0. /\ fsmState \in States /\ {"IDLE", "INIT", "ERROR", "MSG_SEND", "WAIT_ACK",
                                 "WAITING_INTERFACE", "CONNECT_BROKER"} \subseteq States
      /\ interface \in {"none", "wifi"} /\ nextInterface \in {"none", "wifi"}
      /\ resetConnection \in BOOLEAN /\ published \in BOOLEAN /\ subscribed \in BOOLEAN
      /\ sendingError \in 0 .. 2 /\ tries \in 0 .. 2
      /\ connected \in BOOLEAN
      /\ sock \in {"none", "open", "dead"} /\ session \in {"none", "on", "subscribed"}
      /\ toBroker \in Seq(Packets(posted)) /\ toClient \in Seq({"CONNACK", "SUBACK", "PUBACK"})
  BY DEF TypeInv, ClientType, LinkType, States
<1>1. \A n \in 0 .. 2 : UpTo2(n) \in 0 .. 2
  BY DEF UpTo2
<1>2. 0 \in 0 .. 2 /\ <<>> \in Seq(1 .. posted) /\ <<>> \in Seq(Packets(posted))
      /\ <<>> \in Seq({"CONNACK", "SUBACK", "PUBACK"})
  OBVIOUS
<1>3. /\ Subscribe \in Packets(posted) /\ Disconnect \in Packets(posted)
      /\ Publish(Status) \in Packets(posted)
  BY PacketsAre DEF TypeInv, QueueType, Status
<1>4. ManagerType BY DEF TypeInv
<1>a. CASE WaitingInterface(q)
  <2>1. Case("WAITING_INTERFACE", q) /\ outputQueue' \in Seq(1 .. posted)
    BY <1>a, CaseType DEF WaitingInterface
  <2>2. fsmState' \in States /\ pc' \in CallNames \cup {"loop"}
    BY <1>0, <1>a DEF WaitingInterface, CallNames
  <2> QED BY <1>0, <2>1, <2>2, <1>a, SwitchParts DEF WaitingInterface
<1>b. CASE Initialize(q)
  <2>1. Case("INIT", q) /\ outputQueue' \in Seq(1 .. posted)
    BY <1>b, CaseType DEF Initialize
  <2>2. fsmState' \in States /\ pc' \in CallNames \cup {"loop"}
    BY <1>0, <1>b DEF Initialize, CallNames
  <2> QED BY <1>0, <1>2, <2>1, <2>2, <1>b, SwitchParts DEF Initialize
<1>c. CASE ConnectBroker(q)
  <2>1. Case("CONNECT_BROKER", q) /\ outputQueue' \in Seq(1 .. posted)
    BY <1>c, CaseType DEF ConnectBroker
  <2>2. fsmState' \in States /\ pc' \in CallNames \cup {"loop"}
    BY <1>0, <1>c DEF ConnectBroker, CallNames
  <2> QED BY <1>0, <2>1, <2>2, <1>c, SwitchParts DEF ConnectBroker
<1>d. CASE WaitConnection(q)
  <2>1. Case("WAIT_CONNECTION", q) /\ outputQueue' \in Seq(1 .. posted)
    BY <1>d, CaseType DEF WaitConnection
  <2>2. /\ pc' \in CallNames \cup {"loop"} /\ fsmState' \in States
        /\ toBroker' \in Seq(Packets(posted))
    BY <1>3, <1>d, CallType DEF WaitConnection, CallNames
  <2> QED BY <1>0, <2>1, <2>2, <1>d, SwitchParts DEF WaitConnection
<1>e. CASE ConnectionTimeout(q)
  <2>1. Case("WAIT_CONNECTION", q) /\ outputQueue' \in Seq(1 .. posted)
    BY <1>e, CaseType DEF ConnectionTimeout
  <2>2. UNCHANGED cmVars \/ ManagerType'
    BY <1>4, <1>e, InterfaceErrorType DEF ConnectionTimeout
  <2>3. tries' \in 0 .. 2 BY <1>0, <1>1, <1>e DEF ConnectionTimeout
  <2> QED BY <1>0, <2>1, <2>2, <2>3, <1>e, SwitchParts DEF ConnectionTimeout
<1>f. CASE IdleReset(q)
  <2>1. Case("IDLE", q) /\ outputQueue' \in Seq(1 .. posted)
    BY <1>f, CaseType DEF IdleReset
  <2>2. /\ pc' \in CallNames \cup {"loop"} /\ fsmState' \in States
        /\ toBroker' \in Seq(Packets(posted))
    BY <1>3, <1>f, CallType DEF IdleReset, CallNames
  <2> QED BY <1>0, <2>1, <2>2, <1>f, SwitchParts DEF IdleReset
<1>g. CASE IdleCheck(q)
  <2>1. Case("IDLE", q) /\ outputQueue' \in Seq(1 .. posted)
    BY <1>g, CaseType DEF IdleCheck
  <2>2. fsmState' \in States /\ pc' \in CallNames \cup {"loop"}
    BY <1>0, <1>g DEF IdleCheck, CallNames
  <2> QED BY <1>0, <2>1, <2>2, <1>g, SwitchParts DEF IdleCheck
<1>h. CASE IdleSend(q)
  <2>1. Case("IDLE", q) /\ outputQueue' \in Seq(1 .. posted)
    BY <1>h, CaseType DEF IdleSend
  <2>2. fsmState' \in States /\ pc' \in CallNames \cup {"loop"}
    BY <1>0, <1>h DEF IdleSend, CallNames
  <2> QED BY <1>0, <2>1, <2>2, <1>h, SwitchParts DEF IdleSend
<1>i. CASE MsgSend(q)
  <2>1. Publish(IF q = <<>> THEN 0 ELSE Head(q)) \in Packets(posted)
    <3>1. q \in Seq(1 .. posted) /\ posted \in Nat
      <4>1. Case("MSG_SEND", q) BY <1>i DEF MsgSend
      <4>2. posted \in Nat BY DEF TypeInv, QueueType, ScenarioType
      <4> QED BY <4>1, <4>2, CaseType
    <3>2. (IF q = <<>> THEN 0 ELSE Head(q)) \in Status .. posted
      BY <3>1 DEF Status
    <3> QED BY <3>2, PacketsAre
  <2>2. Case("MSG_SEND", q) /\ outputQueue' \in Seq(1 .. posted)
    BY <1>i, CaseType DEF MsgSend
  <2>3. /\ pc' \in CallNames \cup {"loop"} /\ fsmState' \in States
        /\ toBroker' \in Seq(Packets(posted))
    BY <1>0, <2>1, <1>i, CallType DEF MsgSend, CallNames
  <2> QED BY <1>0, <2>2, <2>3, <1>i, SwitchParts DEF MsgSend
<1>j. CASE WaitAckPublished(q)
  <2>1. Case("WAIT_ACK", q) /\ outputQueue' \in Seq(1 .. posted)
    BY <1>j, <1>2, CaseType, TailOrEmpty DEF WaitAckPublished
  <2>2. fsmState' \in States /\ pc' \in CallNames \cup {"loop"}
    BY <1>0, <1>j DEF WaitAckPublished, CallNames
  <2> QED BY <1>0, <1>2, <2>1, <2>2, <1>j, SwitchParts DEF WaitAckPublished
<1>k. ASSUME NEW s, NEW next \in {"IDLE", "CONNECT_BROKER"}, ResponseTimeout(s, next, q)
      PROVE  TypeInv'
  <2>1. Case(s, q) /\ outputQueue' \in Seq(1 .. posted)
    BY <1>k, CaseType DEF ResponseTimeout
  <2>2. UNCHANGED cmVars \/ ManagerType'
    BY <1>4, <1>k, InterfaceErrorType DEF ResponseTimeout
  <2>3. sendingError' \in 0 .. 2 BY <1>0, <1>1, <1>k DEF ResponseTimeout
  <2> QED BY <1>0, <2>1, <2>2, <2>3, <1>k, SwitchParts DEF ResponseTimeout
<1>l. CASE StatusOfflinePublished(q)
  <2>1. Case("WAIT_STATUS_OFFLINE_ACK", q) /\ outputQueue' \in Seq(1 .. posted)
    BY <1>l, CaseType DEF StatusOfflinePublished
  <2>2. /\ pc' \in CallNames \cup {"loop"} /\ fsmState' \in States
        /\ toBroker' \in Seq(Packets(posted))
    BY <1>3, <1>l, CallType DEF StatusOfflinePublished, CallNames
  <2> QED BY <1>0, <2>1, <2>2, <1>l, SwitchParts DEF StatusOfflinePublished
<1>m. CASE WaitClose(q)
  <2>1. Case("WAIT_CLOSE", q) /\ outputQueue' \in Seq(1 .. posted)
    BY <1>m, CaseType DEF WaitClose
  <2>2. fsmState' \in States /\ pc' \in CallNames \cup {"loop"}
    BY <1>0, <1>m DEF WaitClose, CallNames
  <2> QED BY <1>0, <1>2, <2>1, <2>2, <1>m, SwitchParts DEF WaitClose
<1>n. CASE WaitSubscribe(q)
  <2>1. Case("WAIT_SUBSCRIBE", q) /\ outputQueue' \in Seq(1 .. posted)
    BY <1>n, CaseType DEF WaitSubscribe
  <2>2. /\ pc' \in CallNames \cup {"loop"} /\ fsmState' \in States
        /\ toBroker' \in Seq(Packets(posted))
    BY <1>3, <1>n, CallType DEF WaitSubscribe, CallNames
  <2> QED BY <1>0, <2>1, <2>2, <1>n, SwitchParts DEF WaitSubscribe
<1>o. CASE StatusOnlinePublished(q)
  <2>1. Case("WAIT_STATUS_ONLINE_ACK", q) /\ outputQueue' \in Seq(1 .. posted)
    BY <1>o, CaseType DEF StatusOnlinePublished
  <2>2. fsmState' \in States /\ pc' \in CallNames \cup {"loop"}
    BY <1>0, <1>o DEF StatusOnlinePublished, CallNames
  <2> QED BY <1>0, <2>1, <2>2, <1>o, SwitchParts DEF StatusOnlinePublished
<1>p. CASE StayInState(q)
  <2>1. Case(fsmState, q) /\ outputQueue' \in Seq(1 .. posted)
    BY <1>p, CaseType DEF StayInState
  <2>2. fsmState' \in States /\ pc' \in CallNames \cup {"loop"}
    BY <1>0, <1>p DEF StayInState, CallNames
  <2> QED BY <1>0, <2>1, <2>2, <1>p, SwitchParts DEF StayInState
<1> QED
  BY <1>a, <1>b, <1>c, <1>d, <1>e, <1>f, <1>g, <1>h, <1>i, <1>j, <1>k, <1>l, <1>m, <1>n, <1>o, <1>p
  DEF Switch

\* The steps of the link, of the clock and of the blocking calls leave the events
\* and the queue alone.
LEMMA OtherParts ==
    ASSUME TypeInv, UNCHANGED <<scenario, posted, outputQueue, interface, nextInterface,
                                sendingError, tries, wifi>>,
           UNCHANGED cmVars \/ ManagerType',
           faults' \in 0 .. MaxFaults, received' \subseteq 0 .. posted,
           fsmState' \in States, pc' \in CallNames \cup {"loop", "yield", "switch"},
           resetConnection' \in BOOLEAN, published' \in BOOLEAN, subscribed' \in BOOLEAN,
           connected' \in BOOLEAN, pingErrors' \in 0 .. 2,
           sock' \in {"none", "open", "dead"}, sockets' \in 0 .. TcpSockMax,
           session' \in {"none", "on", "subscribed"},
           toBroker' \in Seq(Packets(posted)), toClient' \in Seq({"CONNACK", "SUBACK", "PUBACK"})
    PROVE  TypeInv'
<1>1. ManagerType' BY DEF ManagerType, CMTypeOK, cmVars, TypeInv
<1>2. ScenarioType' BY DEF TypeInv, ScenarioType, MaxEvents, MaxFaults, Faults
<1>3. ClientType' BY DEF TypeInv, ClientType
<1>4. QueueType' BY DEF TypeInv, QueueType, MaxEvents, MaxFaults
<1>5. LinkType' BY DEF TypeInv, LinkType
<1> QED BY <1>1, <1>2, <1>3, <1>4, <1>5 DEF TypeInv

LEMMA OtherStepsType ==
    ASSUME TypeInv, UNCHANGED scenario
    PROVE  /\ NewBroker \/ MainLoopInError \/ LinkDies \/ BrokerReceives \/ MinutePasses
              \/ YieldReads \/ YieldReadsNothing \/ YieldAborted \/ YieldPingError
              \/ PingFails \/ ConnectFails \/ NetworkConnected \/ DisconnectReturns => TypeInv'
           /\ \A k \in DOMAIN Answer : CallAnswered(k) \/ CallUnanswered(k) => TypeInv'
<1> USE DEF Return, KillLink, clientVars, linkVars, cmVars, Unchanged_Call, Unchanged_Yield
<1>0. /\ fsmState \in States /\ {"CONNECT_BROKER"} \subseteq States
      /\ interface \in {"none", "wifi"} /\ nextInterface \in {"none", "wifi"}
      /\ resetConnection \in BOOLEAN /\ published \in BOOLEAN /\ subscribed \in BOOLEAN
      /\ pc \in CallNames \cup {"loop", "yield", "switch"}
  BY DEF TypeInv, ClientType, States
<1>1. /\ connected \in BOOLEAN /\ wifi \in BOOLEAN /\ pingErrors \in 0 .. 2
      /\ sock \in {"none", "open", "dead"} /\ sockets \in 0 .. TcpSockMax
      /\ session \in {"none", "on", "subscribed"}
      /\ toBroker \in Seq(Packets(posted)) /\ toClient \in Seq({"CONNACK", "SUBACK", "PUBACK"})
      /\ received \subseteq 0 .. posted /\ posted \in 0 .. MaxEvents /\ faults \in 0 .. MaxFaults
  BY DEF TypeInv, LinkType, QueueType
<1>2. <<>> \in Seq(Packets(posted)) /\ <<>> \in Seq({"CONNACK", "SUBACK", "PUBACK"})
  OBVIOUS
<1>3. \A k \in CallNames : After[k] \in States BY CallsAre
<1>4. DOMAIN Answer \subseteq CallNames
  BY DEF Answer, CallNames
<1>a. CASE NewBroker BY <1>0, <1>1, <1>a, OtherParts, FaultType DEF NewBroker
<1>b. CASE MainLoopInError BY <1>0, <1>1, <1>b, OtherParts DEF MainLoopInError
<1>c. CASE LinkDies BY <1>0, <1>1, <1>2, <1>c, OtherParts, FaultType DEF LinkDies
<1>d. CASE BrokerReceives
  <2>1. Tail(toBroker) \in Seq(Packets(posted)) /\ Head(toBroker) \in Packets(posted)
    BY <1>1, <1>d DEF BrokerReceives
  <2>2. \A a \in {"CONNACK", "SUBACK", "PUBACK"} :
            Append(toClient, a) \in Seq({"CONNACK", "SUBACK", "PUBACK"})
    BY <1>1
  <2>3. received \cup ({Head(toBroker).event} \ {Status}) \subseteq 0 .. posted
    <3>1. Head(toBroker).event \in Status .. posted BY <2>1 DEF Packets
    <3>2. \A m \in Status .. posted : m # Status => m \in 0 .. posted
      BY <1>1 DEF Status
    <3> QED BY <1>1, <3>1, <3>2
  <2>4. sock' \in {"none", "open", "dead"} /\ session' \in {"none", "on", "subscribed"}
        /\ received' \subseteq 0 .. posted
    BY <1>1, <2>3, <1>d DEF BrokerReceives
  <2>5. toClient' \in Seq({"CONNACK", "SUBACK", "PUBACK"}) /\ toBroker' \in Seq(Packets(posted))
    BY <1>1, <2>1, <2>2, <1>d DEF BrokerReceives
  <2>6. UNCHANGED <<cmVars, clientVars, outputQueue, pc, connected, pingErrors, wifi,
                    sockets, posted, faults>>
    BY <1>d DEF BrokerReceives
  <2> HIDE <1>d
  <2> QED BY <1>0, <1>1, <2>4, <2>5, <2>6, OtherParts
<1>e. CASE MinutePasses
  <2>1. ManagerType' BY <1>e, MinuteType DEF MinutePasses, TypeInv
  <2> QED BY <1>0, <1>1, <2>1, <1>e, OtherParts DEF MinutePasses
<1>f. CASE YieldReads
  <2>1. toClient' \in Seq({"CONNACK", "SUBACK", "PUBACK"}) BY <1>1, <1>f DEF YieldReads
  <2> QED BY <1>0, <1>1, <2>1, <1>f, OtherParts DEF YieldReads
<1>g. CASE YieldReadsNothing BY <1>0, <1>1, <1>g, OtherParts DEF YieldReadsNothing
<1>h. CASE YieldAborted BY <1>0, <1>1, <1>h, OtherParts DEF YieldAborted
<1>i. CASE YieldPingError
  <2>1. toClient' \in Seq({"CONNACK", "SUBACK", "PUBACK"})
    BY <1>1, <1>i, TailOrEmpty DEF YieldPingError
  <2>2. ManagerType' BY <1>i, InterfaceErrorType DEF YieldPingError, TypeInv
  <2> QED BY <1>0, <1>1, <2>1, <2>2, <1>i, OtherParts DEF YieldPingError
<1>j. CASE PingFails BY <1>0, <1>1, <1>j, OtherParts DEF PingFails
<1>k. CASE ConnectFails
  <2>1. faults' \in 0 .. MaxFaults BY <1>1, <1>k, FaultType DEF ConnectFails
  <2>2. sockets' \in 0 .. TcpSockMax /\ sock' \in {"none", "open", "dead"}
    BY <1>1, <1>k, ImClientAssumption DEF ConnectFails, NewSocket
  <2>3. /\ fsmState' \in States /\ pc' = "loop" /\ connected' = FALSE
        /\ UNCHANGED <<published, subscribed, toBroker, toClient, session, received>>
        /\ Unchanged_Call
    BY <1>3, <1>k DEF ConnectFails, CallNames
  <2> HIDE <1>k
  <2> QED BY <1>0, <1>1, <2>1, <2>2, <2>3, OtherParts
<1>l. CASE NetworkConnected
  <2>1. toBroker' \in Seq(Packets(posted))
    <3>1. Connect \in Packets(posted) BY PacketsAre
    <3> QED BY <3>1, <1>2, <1>l DEF NetworkConnected
  <2>2. sockets' \in 0 .. TcpSockMax
    BY <1>1, <1>l, ImClientAssumption DEF NetworkConnected, NewSocket
  <2>3. sock' \in {"none", "open", "dead"} BY <1>l DEF NetworkConnected
  <2> QED BY <1>0, <1>1, <1>2, <2>1, <2>2, <2>3, <1>l, OtherParts DEF NetworkConnected, CallNames
<1>m. CASE DisconnectReturns
  BY <1>0, <1>1, <1>3, <1>m, OtherParts DEF DisconnectReturns, CallNames
<1>n. ASSUME NEW k \in DOMAIN Answer, CallAnswered(k) PROVE TypeInv'
  <2>1. toClient' \in Seq({"CONNACK", "SUBACK", "PUBACK"})
    <3> DEFINE at == SelectInSeq(toClient, LAMBDA a : a = Answer[k])
    <3>1. toClient' = SubSeq(toClient, at + 1, Len(toClient)) /\ Contains(toClient, Answer[k])
      BY <1>n DEF CallAnswered
    <3>2. at \in 1 .. Len(toClient) BY <1>1, <3>1, AnswerFound DEF SelectInSeq
    <3> HIDE DEF at
    <3> QED BY <1>1, <3>1, <3>2, RestOfSeq
  <2>2. connected' \in BOOLEAN /\ subscribed' \in BOOLEAN /\ published' \in BOOLEAN
    BY <1>n DEF CallAnswered
  <2>3. fsmState' \in States /\ pc' = "loop" BY <1>3, <1>4, <1>n DEF CallAnswered
  <2>4. UNCHANGED <<sock, sockets, toBroker, session, received, faults>> /\ Unchanged_Call
    BY <1>n DEF CallAnswered
  <2> HIDE <1>n
  <2> QED BY <1>0, <1>1, <2>1, <2>2, <2>3, <2>4, OtherParts
<1>o. ASSUME NEW k \in DOMAIN Answer, CallUnanswered(k) PROVE TypeInv'
  <2>1. faults' \in 0 .. MaxFaults BY <1>1, <1>o, FaultType DEF CallUnanswered
  <2>2. connected' \in BOOLEAN BY <1>o DEF CallUnanswered
  <2>3. fsmState' \in States /\ pc' = "loop" BY <1>3, <1>4, <1>o DEF CallUnanswered
  <2> QED BY <1>0, <1>1, <1>2, <2>1, <2>2, <2>3, <1>o, OtherParts DEF CallUnanswered
<1> QED
  BY <1>a, <1>b, <1>c, <1>d, <1>e, <1>f, <1>g, <1>h, <1>i, <1>j, <1>k, <1>l, <1>m, <1>n, <1>o

\* The client is initialised again: the queue is empty, and there is no Wi-Fi.
LEMMA ReinitType == TypeInv /\ Reinit /\ UNCHANGED scenario => TypeInv'
<1> SUFFICES ASSUME TypeInv, Reinit, UNCHANGED scenario PROVE TypeInv'
  OBVIOUS
<1> USE DEF Reinit, KillLink
<1>1. /\ <<>> \in Seq(1 .. posted) /\ <<>> \in Seq(Packets(posted))
      /\ <<>> \in Seq({"CONNACK", "SUBACK", "PUBACK"})
  OBVIOUS
<1>2. ManagerType' BY DEF ReinitCM, ManagerType, CMTypeOK, TypeInv
<1>3. ScenarioType' BY DEF TypeInv, ScenarioType, MaxEvents, MaxFaults, Faults
<1>4. ClientType' BY DEF TypeInv, ClientType, States
<1>5. QueueType' BY <1>1, FaultType DEF TypeInv, QueueType, MaxEvents, MaxFaults
<1>6. LinkType' BY <1>1 DEF TypeInv, LinkType
<1> QED BY <1>2, <1>3, <1>4, <1>5, <1>6 DEF TypeInv

LEMMA TypeStep == TypeInv /\ [Next /\ UNCHANGED scenario]_<<vars, scenario>> => TypeInv'
<1> SUFFICES ASSUME TypeInv, [Next /\ UNCHANGED scenario]_<<vars, scenario>>
             PROVE  TypeInv'
  OBVIOUS
<1>1. CASE MainLoop /\ UNCHANGED scenario
  <2>1. MainLoopBody /\ pc' \in {"yield", "switch"} BY <1>1 DEF MainLoop
  <2> QED BY <1>1, <2>1, MainLoopBodyType
<1>2. CASE NestedMainLoop /\ UNCHANGED scenario
  <2>1. MainLoopBody /\ pc' \in CallNames \cup {"loop", "yield", "switch"}
    BY <1>2 DEF NestedMainLoop, TypeInv, ClientType
  <2> QED BY <1>2, <2>1, MainLoopBodyType
<1>3. CASE UNCHANGED <<vars, scenario>>
  <2>1. cmVars' = cmVars /\ clientVars' = clientVars /\ linkVars' = linkVars
        /\ UNCHANGED <<outputQueue, pc, connected, pingErrors, wifi, posted, faults, scenario>>
    BY <1>3 DEF vars
  <2>2. ManagerType' BY <2>1 DEF ManagerType, CMTypeOK, cmVars, TypeInv
  <2>3. ScenarioType' BY <2>1 DEF TypeInv, ScenarioType, MaxEvents, MaxFaults, Faults
  <2>4. ClientType' BY <2>1 DEF TypeInv, ClientType, clientVars
  <2>5. QueueType' BY <2>1 DEF TypeInv, QueueType, MaxEvents, MaxFaults, linkVars
  <2>6. LinkType' BY <2>1 DEF TypeInv, LinkType, linkVars
  <2> QED BY <2>2, <2>3, <2>4, <2>5, <2>6 DEF TypeInv
<1> QED
  BY <1>1, <1>2, <1>3, SwitchType, ReinitType, OtherStepsType DEF Next, Firmware

\* The queue only ever holds events that were posted and the broker only ever has
\* such events, no more sockets are in use than TCP_SOCK_MAX however often
\* client_init forgets one, and the cases of the switch only assign states that
\* it has, in every scenario (imClient.c:291-532).
THEOREM ImClientTypeCorrect == Spec => []TypeOK
<1>1. Init => TypeInv
  BY TypeInit DEF Init
<1> QED BY <1>1, TypeStep, TypeInvIsTypeOK, PTL DEF Spec

-----------------------------------------------------------------------------
(* The subscription.  A connection without it is met by the switch only in the *)
(* states that lead to the SUBSCRIBE, or to a new connection.                  *)

Outside == pc \in {"loop", "yield", "switch"}
HasConnect(s) == \E i \in 1 .. Len(s) : s[i].type = "connect"

NotConnectedInConnect == pc \in {"connect", "connack"} => ~connected
NotSubscribedInSubscribe == pc = "subscribe" => ~subscribed
\* A CONNECT is the first packet of its link, and nothing has been answered to it.
ConnectIsFirst ==
    sock = "open" /\ HasConnect(toBroker)
        => toBroker = <<Connect>> /\ toClient = <<>> /\ ~connected
SubackIsTrue == sock = "open" /\ Contains(toClient, "SUBACK") => session = "subscribed"
BeforeSubscription ==
    \/ pc = "subscribe"
    \/ Outside /\ fsmState \in {"WAITING_INTERFACE", "INIT", "WAIT_CONNECTION"}
    \/ Outside /\ fsmState = "WAIT_SUBSCRIBE" /\ ~subscribed
NoneIsMissed ==
    sock = "open" /\ ClientConnected /\ session # "subscribed" => BeforeSubscription

ServingInv ==
    /\ NotConnectedInConnect /\ NotSubscribedInSubscribe
    /\ ConnectIsFirst /\ SubackIsTrue /\ NoneIsMissed

LEMMA ConnectAppended ==
    ASSUME NEW S, NEW s \in Seq(S), NEW p, p.type # "connect", HasConnect(Append(s, p))
    PROVE  HasConnect(s)
BY DEF HasConnect

LEMMA ConnectInTail ==
    ASSUME NEW S, NEW s \in Seq(S), s # <<>>
    PROVE  /\ HasConnect(Tail(s)) => HasConnect(s)
           /\ Head(s).type = "connect" => HasConnect(s)
<1>1. Len(s) \in Nat /\ Len(s) > 0 /\ s[1] = Head(s)
      /\ \A i \in 1 .. Len(Tail(s)) : i + 1 \in 1 .. Len(s) /\ Tail(s)[i] = s[i + 1]
  OBVIOUS
<1> QED BY <1>1 DEF HasConnect

LEMMA NothingInEmpty == ~HasConnect(<<>>) /\ \A a : ~Contains(<<>>, a)
BY DEF HasConnect, Contains

LEMMA AppendedAnswer ==
    ASSUME NEW S, NEW s \in Seq(S), NEW a \in S, NEW b, Contains(Append(s, a), b)
    PROVE  Contains(s, b) \/ a = b
BY DEF Contains

LEMMA RemainingAnswer ==
    ASSUME NEW S, NEW s \in Seq(S), NEW n \in 1 .. Len(s), NEW b,
           Contains(SubSeq(s, n + 1, Len(s)), b)
    PROVE  Contains(s, b)
<1> DEFINE r == SubSeq(s, n + 1, Len(s))
<1>1. PICK i \in 1 .. Len(r) : r[i] = b BY DEF Contains
<1>2. n + i \in 1 .. Len(s) /\ s[n + i] = b BY <1>1
<1> QED BY <1>2 DEF Contains

LEMMA AnswerInTail ==
    ASSUME NEW S, NEW s \in Seq(S), s # <<>>, NEW b, Contains(Tail(s), b)
    PROVE  Contains(s, b)
<1>1. PICK i \in 1 .. Len(Tail(s)) : Tail(s)[i] = b BY DEF Contains
<1>2. i + 1 \in 1 .. Len(s) /\ s[i + 1] = b BY <1>1
<1> QED BY <1>2 DEF Contains

\* mainLoop changes nothing of the link unless it kills it, and fsmState only to
\* "WAITING_INTERFACE" or "INIT".
LEMMA MainLoopBodyServing ==
    ASSUME TypeInv, ServingInv, MainLoopBody,
           \/ pc' = pc
           \/ pc = "loop" /\ pc' \in {"yield", "switch"}
    PROVE  ServingInv'
<1>1. /\ UNCHANGED <<interface, subscribed, connected>>
      /\ fsmState' = fsmState \/ fsmState' \in {"WAITING_INTERFACE", "INIT"}
      /\ UNCHANGED linkVars \/ sock' # "open"
  BY DEF MainLoopBody, OnChange, WifiEvents, KillLink, TypeInv, LinkType
<1>2. Outside' = Outside BY DEF Outside
<1> QED
  BY <1>1, <1>2 DEF ServingInv, NotConnectedInConnect, NotSubscribedInSubscribe, ConnectIsFirst,
     SubackIsTrue, NoneIsMissed, BeforeSubscription, ClientConnected, linkVars, Connect

\* Nor does a new start of the client leave a link open.
LEMMA ReinitServing == TypeInv /\ ServingInv /\ Reinit => ServingInv'
<1> SUFFICES ASSUME TypeInv, ServingInv, Reinit PROVE ServingInv'
  OBVIOUS
<1>1. UNCHANGED <<pc, connected, subscribed>> /\ sock' # "open"
  BY DEF Reinit, KillLink, TypeInv, LinkType
<1> QED
  BY <1>1 DEF ServingInv, NotConnectedInConnect, NotSubscribedInSubscribe, ConnectIsFirst,
     SubackIsTrue, NoneIsMissed

LEMMA OtherStepsServing ==
    ASSUME TypeInv, ServingInv
    PROVE  /\ NewBroker \/ MainLoopInError \/ LinkDies \/ BrokerReceives \/ MinutePasses
              \/ YieldReads \/ YieldReadsNothing \/ YieldAborted \/ YieldPingError
              \/ PingFails \/ ConnectFails \/ NetworkConnected \/ DisconnectReturns => ServingInv'
           /\ \A k \in DOMAIN Answer : CallAnswered(k) \/ CallUnanswered(k) => ServingInv'
<1> USE DEF ServingInv, NotConnectedInConnect, NotSubscribedInSubscribe, ConnectIsFirst,
     SubackIsTrue, NoneIsMissed, BeforeSubscription, Outside, ClientConnected,
     Return, KillLink, clientVars, linkVars, cmVars, Unchanged_Call, Unchanged_Yield
<1>1. /\ sock \in {"none", "open", "dead"} /\ session \in {"none", "on", "subscribed"}
      /\ toBroker \in Seq(Packets(posted)) /\ toClient \in Seq({"CONNACK", "SUBACK", "PUBACK"})
      /\ connected \in BOOLEAN
  BY DEF TypeInv, LinkType
<1>a. CASE NewBroker BY <1>a DEF NewBroker, Connect
<1>b. CASE MainLoopInError BY <1>b DEF MainLoopInError, Connect
<1>c. CASE LinkDies BY <1>c DEF LinkDies
<1>d. CASE BrokerReceives
  <2>1. sock = "open" /\ toBroker # <<>> /\ toBroker' = Tail(toBroker)
        /\ UNCHANGED <<connected, subscribed, pc, fsmState, interface>>
    BY <1>d DEF BrokerReceives
  <2>2. CASE Head(toBroker).type = "connect"
    <3>1. toBroker = <<Connect>> /\ toClient = <<>> /\ ~connected BY <1>1, <2>1, <2>2, ConnectInTail
    <3>2. toBroker' = <<>> /\ toClient' = <<"CONNACK">>
      BY <1>d, <2>1, <2>2, <3>1 DEF BrokerReceives
    <3>3. ~HasConnect(toBroker') /\ ~Contains(toClient', "SUBACK")
      BY <3>2 DEF HasConnect, Contains
    <3> HIDE <1>d
    <3> QED BY <2>1, <3>1, <3>3
  <2>3. CASE Head(toBroker).type # "connect"
    <3>1. ~HasConnect(toBroker')
      <4>1. SUFFICES ASSUME HasConnect(toBroker') PROVE FALSE OBVIOUS
      <4>2. toBroker = <<Connect>> BY <1>1, <2>1, <4>1, ConnectInTail
      <4> QED BY <2>3, <4>2 DEF Connect
    <3>2. sock' = "open" => /\ session' = session \/ session' = "subscribed"
                            /\ Contains(toClient', "SUBACK") => session' = "subscribed"
      <4>1. CASE Head(toBroker).type = "subscribe" BY <1>d, <2>3, <4>1 DEF BrokerReceives
      <4>2. CASE Head(toBroker).type = "publish"
        <5>1. toClient' = Append(toClient, "PUBACK") /\ session' = session
          BY <1>d, <4>2 DEF BrokerReceives
        <5> QED BY <1>1, <2>1, <5>1, AppendedAnswer
      <4>3. CASE Head(toBroker).type = "disconnect" BY <1>d, <4>3 DEF BrokerReceives
      <4> QED BY <1>d, <2>3, <4>1, <4>2, <4>3 DEF BrokerReceives
    <3> HIDE <1>d
    <3> QED BY <2>1, <3>1, <3>2
  <2> QED BY <2>2, <2>3
<1>e. CASE MinutePasses BY <1>e DEF MinutePasses, Connect
<1>f. CASE YieldReads
  <2>1. Contains(toClient', "SUBACK") => Contains(toClient, "SUBACK")
    BY <1>1, <1>f, AnswerInTail DEF YieldReads
  <2> QED BY <1>f, <2>1 DEF YieldReads
<1>g. CASE YieldReadsNothing BY <1>g DEF YieldReadsNothing, Connect
<1>h. CASE YieldAborted BY <1>h DEF YieldAborted
<1>i. CASE YieldPingError
  <2>1. Contains(toClient', "SUBACK") => Contains(toClient, "SUBACK")
    BY <1>1, <1>i, AnswerInTail DEF YieldPingError
  <2> QED BY <1>i, <2>1 DEF YieldPingError, Connect
<1>j. CASE PingFails BY <1>j DEF PingFails, Connect
<1>k. CASE ConnectFails
  <2>1. sock' = sock \/ sock' = "dead" BY <1>k DEF ConnectFails
  <2>2. /\ pc = "connect" /\ pc' = "loop" /\ connected' = FALSE
        /\ UNCHANGED <<subscribed, toBroker, toClient, session, interface>>
    BY <1>k DEF ConnectFails
  <2> QED BY <2>1, <2>2 DEF Connect
<1>l. CASE NetworkConnected
  <2>1. ~Contains(toClient', "SUBACK") /\ toClient' = <<>>
    BY <1>l, NothingInEmpty DEF NetworkConnected
  <2> QED BY <1>l, <2>1, NothingInEmpty DEF NetworkConnected
<1>m. CASE DisconnectReturns BY <1>m DEF DisconnectReturns, Connect
<1>n. ASSUME NEW k \in DOMAIN Answer, CallAnswered(k) PROVE ServingInv'
  <2>1. /\ pc = k /\ pc' = "loop" /\ fsmState' = After[k] /\ Contains(toClient, Answer[k])
        /\ UNCHANGED <<sock, session, toBroker, interface>>
        /\ connected' = (connected \/ k = "connack")
        /\ subscribed' = (subscribed \/ k = "subscribe")
    BY <1>n DEF CallAnswered
  <2>2. Contains(toClient', "SUBACK") => Contains(toClient, "SUBACK")
    BY <1>1, <1>n, AnswerFound, RemainingAnswer DEF CallAnswered, SelectInSeq
  <2>3. sock = "open" => ~HasConnect(toBroker)
    BY <2>1, NothingInEmpty
  <2>4. k = "connack" => fsmState' = "WAIT_CONNECTION" BY <2>1 DEF After
  <2>5. k = "subscribe" /\ sock = "open" => session = "subscribed" BY <2>1 DEF Answer
  <2>6. k \in {"connack", "subscribe", "publish", "online", "offline"} BY DEF Answer
  <2> HIDE <1>n
  <2> QED BY <2>1, <2>2, <2>3, <2>4, <2>5, <2>6
<1>o. ASSUME NEW k \in DOMAIN Answer, CallUnanswered(k) PROVE ServingInv'
  <2>1. /\ pc = k /\ pc' = "loop" /\ fsmState' = After[k] /\ toClient' = <<>>
        /\ UNCHANGED <<sock, session, toBroker, interface, subscribed>>
        /\ connected' = (connected /\ k # "connack")
    BY <1>o DEF CallUnanswered
  <2>2. k = "subscribe" => fsmState' = "WAIT_SUBSCRIBE" BY <2>1 DEF After
  <2>3. k \in {"connack", "subscribe", "publish", "online", "offline"} BY DEF Answer
  <2> HIDE <1>o
  <2> QED BY <2>1, <2>2, <2>3, NothingInEmpty
<1> QED
  BY <1>a, <1>b, <1>c, <1>d, <1>e, <1>f, <1>g, <1>h, <1>i, <1>j, <1>k, <1>l, <1>m, <1>n, <1>o

\* A case that leaves the link and the interface alone, and either sends nothing or a
\* packet that is not a CONNECT.
LEMMA SwitchServing ==
    ASSUME TypeInv, ServingInv, NEW q \in {outputQueue, <<>>}, Switch(q)
    PROVE  ServingInv'
<1> DEFINE Silent == UNCHANGED <<connected, sock, toClient, session, toBroker>>
<1> USE DEF ServingInv, NotConnectedInConnect, NotSubscribedInSubscribe, ConnectIsFirst,
     SubackIsTrue, NoneIsMissed, BeforeSubscription, Outside, ClientConnected,
     Goto, KeepLink, KeepClient, KeepAnswers, KeepCounts, Case
<1>1. /\ toBroker \in Seq(Packets(posted)) /\ interface \in {"none", "wifi"}
      /\ nextInterface \in {"none", "wifi"} /\ fsmState \in States /\ connected \in BOOLEAN
  BY DEF TypeInv, LinkType, ClientType
\* Calls are only made on a client that is connected; otherwise they are over at once.
<1>2. ASSUME NEW k \in {"subscribe", "publish", "online", "offline", "disconnect"}, NEW p,
             Call(k, p), p.type # "connect", pc = "switch", KeepClient,
             k = "subscribe" => ~subscribed', NoneIsMissed,
             ~(fsmState = "WAIT_SUBSCRIBE" /\ ~subscribed),
             fsmState \notin {"WAITING_INTERFACE", "INIT"},
             fsmState = "WAIT_CONNECTION" => k = "subscribe"
      PROVE  ServingInv'
  <2>1. CASE ClientConnected
    <3>1. pc' = k /\ ClientConnected' BY <1>2, <2>1 DEF Call
    <3>2. sock' = "open" => ~HasConnect(toBroker) BY <1>2, <2>1, NothingInEmpty DEF ServingInv
    <3>3. sock' = "open" => ~HasConnect(toBroker')
      <4>1. toBroker' = toBroker \/ toBroker' = Append(toBroker, p) BY <1>2 DEF Call
      <4> QED BY <1>1, <1>2, <3>2, <4>1, ConnectAppended
    <3> QED BY <1>2, <2>1, <3>1, <3>3
  <2>2. CASE ~ClientConnected
    <3>1. pc' = "loop" /\ ~ClientConnected' /\ Silent BY <1>2, <2>2 DEF Call
    <3> QED BY <1>2, <3>1 DEF Connect
  <2> QED BY <2>1, <2>2
<1>3. /\ Subscribe.type # "connect" /\ Disconnect.type # "connect"
      /\ \A m : Publish(m).type # "connect"
  BY DEF Subscribe, Disconnect, Publish
\* The others keep the connection and go back to the loop.
<1>4. ASSUME pc = "switch", pc' = "loop", Silent, interface' = interface, subscribed' = subscribed,
             ~ClientConnected \/ fsmState' = fsmState
                \/ ~(BeforeSubscription)
      PROVE  ServingInv'
  BY <1>4 DEF Connect
<1>a. CASE WaitingInterface(q) BY <1>1, <1>a DEF WaitingInterface, Connect
<1>b. CASE Initialize(q)
  <2>1. CASE nextInterface = "wifi" BY <2>1, <1>b DEF Initialize
  <2>2. CASE nextInterface # "wifi"
    <3>1. pc' = "loop" /\ ~ClientConnected' /\ Silent BY <1>b, <2>2, <1>1 DEF Initialize
    <3> QED BY <3>1 DEF Connect
  <2> QED BY <2>1, <2>2
<1>c. CASE ConnectBroker(q)
  <2>1. /\ pc = "switch" /\ Silent /\ interface' = interface /\ subscribed' = subscribed
        /\ (pc' = "connect" /\ interface = "wifi" /\ ~connected) \/ pc' = "loop"
        /\ fsmState = "CONNECT_BROKER"
    BY <1>c DEF ConnectBroker, InterfaceConnected
  <2>2. CASE pc' = "loop" BY <1>4, <2>1, <2>2
  <2>3. CASE pc' = "connect" /\ interface = "wifi" /\ ~connected BY <2>1, <2>3 DEF Connect
  <2> QED BY <2>1, <2>2, <2>3
<1>d. CASE WaitConnection(q) BY <1>2, <1>3, <1>d DEF WaitConnection
<1>e. CASE ConnectionTimeout(q) BY <1>4, <1>e DEF ConnectionTimeout
<1>f. CASE IdleReset(q) BY <1>2, <1>3, <1>f DEF IdleReset
<1>g. CASE IdleCheck(q) BY <1>4, <1>g DEF IdleCheck
<1>h. CASE IdleSend(q) BY <1>4, <1>h DEF IdleSend
<1>i. CASE MsgSend(q)
  <2>1. CASE InterfaceConnected /\ ClientConnected
    BY <1>2, <1>3, <1>i, <2>1 DEF MsgSend
  <2>2. CASE ~(InterfaceConnected /\ ClientConnected)
    BY <1>4, <1>i, <2>2 DEF MsgSend
  <2> QED BY <2>1, <2>2
<1>j. CASE WaitAckPublished(q) BY <1>4, <1>j DEF WaitAckPublished
<1>k. ASSUME NEW s \in {"WAIT_ACK", "WAIT_STATUS_OFFLINE_ACK", "WAIT_STATUS_ONLINE_ACK"},
             NEW next, ResponseTimeout(s, next, q)
      PROVE  ServingInv'
  BY <1>4, <1>k DEF ResponseTimeout
<1>l. CASE StatusOfflinePublished(q) BY <1>2, <1>3, <1>l DEF StatusOfflinePublished
<1>m. CASE WaitClose(q) BY <1>4, <1>m DEF WaitClose
<1>n. CASE WaitSubscribe(q) BY <1>2, <1>3, <1>n DEF WaitSubscribe
<1>o. CASE StatusOnlinePublished(q) BY <1>4, <1>o DEF StatusOnlinePublished
<1>p. CASE StayInState(q) BY <1>4, <1>p DEF StayInState
<1> QED
  BY <1>a, <1>b, <1>c, <1>d, <1>e, <1>f, <1>g, <1>h, <1>i, <1>j, <1>k, <1>l, <1>m, <1>n, <1>o, <1>p
  DEF Switch

LEMMA ServingStep ==
    TypeInv /\ ServingInv /\ [Next /\ UNCHANGED scenario]_<<vars, scenario>> => ServingInv'
<1> SUFFICES ASSUME TypeInv, ServingInv, [Next /\ UNCHANGED scenario]_<<vars, scenario>>
             PROVE  ServingInv'
  OBVIOUS
<1>1. CASE MainLoop BY <1>1, MainLoopBodyServing DEF MainLoop
<1>2. CASE NestedMainLoop
  <2>1. MainLoopBody /\ pc' = pc
    BY <1>2 DEF NestedMainLoop
  <2> QED BY <2>1, MainLoopBodyServing
<1>3. CASE UNCHANGED <<vars, scenario>>
  <2>1. clientVars' = clientVars /\ linkVars' = linkVars /\ UNCHANGED <<pc, connected>>
    BY <1>3 DEF vars
  <2> QED
    BY <2>1 DEF ServingInv, NotConnectedInConnect, NotSubscribedInSubscribe, ConnectIsFirst,
     SubackIsTrue, NoneIsMissed, BeforeSubscription, Outside, ClientConnected, Connect,
     clientVars, linkVars
<1> QED
  BY <1>1, <1>2, <1>3, SwitchServing, ReinitServing, OtherStepsServing DEF Next, Firmware

LEMMA ServingInit == Init => ServingInv
BY DEF Init, ServingInv, NotConnectedInConnect, NotSubscribedInSubscribe, ConnectIsFirst,
   SubackIsTrue, NoneIsMissed, ClientConnected

\* Whenever the switch is reached in one of the states in which events are served
\* over an open link, the broker has the subscription: "subscribed" is reset before
\* every SUBSCRIBE (imClient.c:357-367), and a change of interface or a reset leads
\* through FSM_INIT or FSM_CONNECT_BROKER.
THEOREM AlwaysSubscribed == Spec => []SubscribedWhileServing
<1>1. TypeInv /\ ServingInv => SubscribedWhileServing
  BY DEF ServingInv, NoneIsMissed, BeforeSubscription, SubscribedWhileServing
<1>2. Init => TypeInv
  BY TypeInit DEF Init
<1> QED BY <1>1, <1>2, TypeStep, ServingInit, ServingStep, PTL DEF Spec

-----------------------------------------------------------------------------
(* The delivery of events, when the answers come while they are waited for. *)

\* The disturbances that the code does not get right: an answer that comes too late,
\* a queue that is flushed while an event of it is being sent, and a loss of Wi-Fi
\* that recv does not tell of.  Any of the three breaks AckedIsReceived.
Orderly ==
    "slow" \notin Faults /\ "retention" \notin Faults /\ ~({"wifi", "silent"} \subseteq Faults)

\* The packet that a blocking call sends.
Sent(k) == CASE k = "subscribe" -> Subscribe
             [] k = "publish" -> Publish(Head(outputQueue))
             [] k \in {"online", "offline"} -> Publish(Status)

\* At most one packet is under way, in one direction: the one of the call that is
\* being made, or its answer.
ClosedIsQuiet == sock # "open" => toClient = <<>>
OpenNeedsWifi == sock = "open" => wifi
NotGivenUp == sock = "open" /\ connected => pingErrors # 2
BeforeConnack ==
    sock = "open" /\ ~connected =>
        \/ toBroker \in {<<>>, <<Connect>>, <<Disconnect>>} /\ toClient = <<>>
        \/ toBroker = <<>> /\ toClient = <<"CONNACK">>
AtRest == sock = "open" /\ connected /\ Outside => toBroker = <<>> /\ toClient = <<>>
InDisconnect ==
    sock = "open" /\ connected /\ pc = "disconnect"
        => toBroker = <<Disconnect>> /\ toClient = <<>>
InCall ==
    sock = "open" /\ connected /\ pc \in {"subscribe", "publish", "online", "offline"} =>
        \/ toBroker = <<Sent(pc)>> /\ toClient = <<>>
        \/ /\ toBroker = <<>> /\ toClient = <<Answer[pc]>>
           /\ pc = "publish" => Head(outputQueue) \in received
LinkInv ==
    /\ ClosedIsQuiet /\ OpenNeedsWifi /\ NotGivenUp
    /\ BeforeConnack /\ AtRest /\ InDisconnect /\ InCall

\* What is sent is the head of the queue, and "published" is about it.
SendInv ==
    /\ fsmState = "MSG_SEND" /\ Outside => ClientConnected
    /\ fsmState = "MSG_SEND" \/ (pc = "publish" /\ sock = "open") => outputQueue # <<>>
    /\ pc = "publish" => ~published
    /\ fsmState = "WAIT_ACK" /\ published
          => outputQueue # <<>> /\ Head(outputQueue) \in received

\* A loss of Wi-Fi is noticed in mqttClient_yield, before the switch sees it, and the
\* other end of Wi-Fi, a new start of the client, leaves FSM_MSG_SEND.
WifiInv ==
    /\ pc = "switch" /\ ClientConnected /\ fsmState = "MSG_SEND" => wifi
    /\ "silent" \notin Faults => pingErrors = 0
    /\ "wifi" \notin Faults /\ fsmState = "MSG_SEND" => wifi

DeliveryInv == NotConnectedInConnect /\ LinkInv /\ SendInv /\ WifiInv

LEMMA OnePacket ==
    ASSUME NEW p
    PROVE  /\ <<p>> # <<>> /\ Head(<<p>>) = p /\ Tail(<<p>>) = <<>> /\ Len(<<p>>) = 1
           /\ Append(<<>>, p) = <<p>>
           /\ \A b : Contains(<<p>>, b) => b = p
BY DEF Contains

LEMMA PacketsDiffer ==
    /\ Connect.type = "connect" /\ Subscribe.type = "subscribe" /\ Disconnect.type = "disconnect"
    /\ \A m : Publish(m).type = "publish" /\ Publish(m).event = m
BY DEF Connect, Subscribe, Disconnect, Publish

\* waitfor() leaves nothing behind the only answer there is.
LEMMA OnlyAnswer ==
    ASSUME NEW k \in DOMAIN Answer, CallAnswered(k), toClient = <<Answer[k]>>
    PROVE  toClient' = <<>>
<1> DEFINE at == SelectInSeq(toClient, LAMBDA a : a = Answer[k])
<1>1. toClient' = SubSeq(toClient, at + 1, Len(toClient)) /\ Contains(toClient, Answer[k])
  BY DEF CallAnswered
<1>2. Len(toClient) = 1 /\ toClient[1] = Answer[k] /\ 1 .. 1 = {1} OBVIOUS
<1>3. {i \in 1 .. Len(toClient) : toClient[i] = Answer[k]} = {1} BY <1>2
<1>4. Min({1}) = 1 BY LeastNumber
<1>5. at = 1 BY <1>3, <1>4 DEF SelectInSeq
<1> HIDE DEF at
<1> QED BY <1>1, <1>2, <1>5

LEMMA OrderlyStays == Orderly /\ UNCHANGED scenario => Orderly'
BY DEF Orderly, Faults

LEMMA NoRetention == ASSUME Orderly, NEW q, Retention(q) PROVE q = outputQueue /\ faults' = faults
BY DEF Orderly, Retention, Fault

\* The head of the queue is an event, and no status message.
LEMMA HeadIsAnEvent ==
    ASSUME TypeInv, outputQueue # <<>> PROVE Head(outputQueue) # Status
<1>1. Head(outputQueue) \in 1 .. posted BY DEF TypeInv, QueueType
<1> QED BY <1>1 DEF Status, TypeInv, QueueType

LEMMA PostKeepsHead ==
    ASSUME TypeInv, MayPost, outputQueue # <<>>
    PROVE  outputQueue' # <<>> /\ Head(outputQueue') = Head(outputQueue)
BY HeadStays DEF MayPost, TypeInv, QueueType

LEMMA MainLoopBodyDelivery ==
    ASSUME TypeInv, Orderly, DeliveryInv, MainLoopBody, UNCHANGED scenario,
           \/ pc' = pc /\ pc # "switch"
           \/ /\ pc = "loop" /\ fsmState # "ERROR"
              /\ pc' = IF ClientConnected THEN "yield" ELSE "switch"
    PROVE  DeliveryInv'
<1>1. /\ UNCHANGED <<interface, published, connected, pingErrors, received>>
      /\ fsmState' = fsmState \/ fsmState' \in {"WAITING_INTERFACE", "INIT"}
      /\ \/ UNCHANGED linkVars /\ (wifi' = wifi \/ wifi')
         \/ sock' # "open" /\ toClient' = <<>> /\ "wifi" \in Faults
  <2>1. fsmState' = fsmState \/ fsmState' \in {"WAITING_INTERFACE", "INIT"}
    BY DEF MainLoopBody, OnChange
  <2>2. \/ UNCHANGED linkVars /\ (wifi' = wifi \/ wifi')
        \/ sock' # "open" /\ toClient' = <<>> /\ "wifi" \in Faults
    BY DEF MainLoopBody, WifiEvents, KillLink, TypeInv, LinkType, Fault
  <2>3. UNCHANGED <<interface, published, connected, pingErrors, received>>
    BY DEF MainLoopBody, WifiEvents, KillLink, linkVars
  <2> QED BY <2>1, <2>2, <2>3
<1>2. Outside' = Outside /\ Faults' = Faults BY DEF Outside, Faults
<1>3. outputQueue # <<>> => outputQueue' # <<>> /\ Head(outputQueue') = Head(outputQueue)
  BY PostKeepsHead DEF MainLoopBody
<1>4. NotConnectedInConnect' BY <1>1 DEF DeliveryInv, NotConnectedInConnect
<1>5. LinkInv'
  <2>1. CASE sock' # "open" /\ toClient' = <<>>
    BY <2>1 DEF LinkInv, ClosedIsQuiet, OpenNeedsWifi, NotGivenUp, BeforeConnack, AtRest,
       InDisconnect, InCall
  <2>2. CASE UNCHANGED linkVars /\ (wifi' = wifi \/ wifi')
    <3>1. UNCHANGED <<sock, toClient, toBroker>> BY <2>2 DEF linkVars
    <3>2. ClosedIsQuiet' /\ OpenNeedsWifi' /\ NotGivenUp' /\ BeforeConnack'
      BY <1>1, <2>2, <3>1 DEF DeliveryInv, LinkInv, ClosedIsQuiet, OpenNeedsWifi, NotGivenUp,
         BeforeConnack, Connect, Disconnect
    <3>3. AtRest' /\ InDisconnect'
      BY <1>1, <1>2, <3>1 DEF DeliveryInv, LinkInv, AtRest, InDisconnect, Outside, Disconnect
    <3>4. InCall'
      <4>1. pc = "publish" /\ sock = "open" => outputQueue # <<>> BY DEF DeliveryInv, SendInv
      <4> QED BY <1>1, <1>3, <3>1, <4>1 DEF DeliveryInv, LinkInv, InCall, Sent, Subscribe, Publish, Status
    <3> QED BY <3>2, <3>3, <3>4 DEF LinkInv
  <2> QED BY <1>1, <2>1, <2>2
<1>6. SendInv'
  <2>1. sock' = "open" => sock = "open" BY <1>1 DEF linkVars
  <2>2. pc' = "publish" => pc = "publish" OBVIOUS
  <2> QED BY <1>1, <1>2, <1>3, <2>1, <2>2 DEF DeliveryInv, SendInv, ClientConnected, Outside
<1>7. WifiInv'
  <2>1. pc' = "switch" => ~ClientConnected' BY <1>1 DEF ClientConnected
  <2>2. "silent" \notin Faults' => pingErrors' = 0 BY <1>1, <1>2 DEF DeliveryInv, WifiInv
  <2>3. "wifi" \notin Faults' /\ fsmState' = "MSG_SEND" => wifi'
    BY <1>1, <1>2 DEF DeliveryInv, WifiInv
  <2> QED BY <2>1, <2>2, <2>3 DEF WifiInv
<1> QED BY <1>4, <1>5, <1>6, <1>7 DEF DeliveryInv

\* Steps that leave the link and the queue alone.
LEMMA QuietStep ==
    ASSUME DeliveryInv, NotConnectedInConnect',
           UNCHANGED <<sock, toBroker, toClient, connected, pingErrors, wifi, interface,
                       nextInterface, outputQueue, received, published, fsmState, scenario>>,
           \/ pc' = pc
           \/ Outside /\ pc' = "switch" /\ (ClientConnected /\ fsmState = "MSG_SEND" => wifi)
    PROVE  DeliveryInv'
<1> USE DEF Outside
<1>1. LinkInv'
  BY DEF DeliveryInv, LinkInv, ClosedIsQuiet, OpenNeedsWifi, NotGivenUp, BeforeConnack, AtRest,
     InDisconnect, InCall, Sent, Connect, Disconnect, Subscribe, Publish, Status
<1>2. SendInv' BY DEF DeliveryInv, SendInv, ClientConnected
<1>3. WifiInv' BY DEF DeliveryInv, WifiInv, ClientConnected, Faults
<1> QED BY <1>1, <1>2, <1>3 DEF DeliveryInv

LEMMA BrokerDelivery ==
    ASSUME TypeInv, DeliveryInv, NotConnectedInConnect', BrokerReceives, UNCHANGED scenario
    PROVE  /\ DeliveryInv'
           /\ \/ received' = received
              \/ outputQueue # <<>> /\ received' = received \cup {Head(outputQueue)}
<1>1. /\ sock = "open" /\ toBroker # <<>> /\ toBroker' = Tail(toBroker)
      /\ UNCHANGED <<pc, connected, pingErrors, wifi, interface, nextInterface, outputQueue,
                     published, fsmState, scenario>>
  BY DEF BrokerReceives, clientVars
<1>2. WifiInv' BY <1>1 DEF DeliveryInv, WifiInv, ClientConnected, Faults
<1>3. received \subseteq received' => SendInv'
  BY <1>1 DEF DeliveryInv, SendInv, ClientConnected, Outside
<1>4. CASE ~connected
  <2>1. toClient = <<>> /\ (toBroker = <<Connect>> \/ toBroker = <<Disconnect>>)
    BY <1>1, <1>4 DEF DeliveryInv, LinkInv, BeforeConnack
  <2>2. received' = received /\ toBroker' = <<>>
    <3>1. Head(toBroker).type \in {"connect", "disconnect"} BY <2>1, OnePacket, PacketsDiffer
    <3>2. Tail(toBroker) = <<>> BY <2>1, OnePacket
    <3> QED BY <1>1, <3>1, <3>2 DEF BrokerReceives
  <2>3. \/ sock' # "open" /\ toClient' = <<>>
        \/ sock' = "open" /\ toClient' = <<"CONNACK">>
    <3>1. CASE toBroker = <<Connect>>
      <4>1. Head(toBroker).type = "connect" BY <3>1, OnePacket, PacketsDiffer
      <4>2. UNCHANGED sock /\ toClient' = Append(toClient, "CONNACK")
        BY <4>1 DEF BrokerReceives
      <4> QED BY <1>1, <2>1, <4>2, OnePacket
    <3>2. CASE toBroker = <<Disconnect>>
      <4>1. Head(toBroker).type = "disconnect" BY <3>2, OnePacket, PacketsDiffer
      <4> QED BY <2>1, <4>1 DEF BrokerReceives
    <3> QED BY <2>1, <3>1, <3>2
  <2>4. LinkInv'
    BY <1>1, <1>4, <2>2, <2>3 DEF DeliveryInv, LinkInv, ClosedIsQuiet, OpenNeedsWifi,
       NotGivenUp, BeforeConnack, AtRest, InDisconnect, InCall
  <2> QED BY <1>2, <1>3, <2>2, <2>4 DEF DeliveryInv
<1>5. CASE connected
  <2>1. \/ pc = "disconnect" /\ toBroker = <<Disconnect>> /\ toClient = <<>>
        \/ /\ pc \in {"subscribe", "publish", "online", "offline"}
           /\ toBroker = <<Sent(pc)>> /\ toClient = <<>>
    <3>1. pc \in CallNames \cup {"loop", "yield", "switch"} BY DEF TypeInv, ClientType
    <3> QED
      BY <1>1, <1>5, <3>1 DEF DeliveryInv, NotConnectedInConnect, LinkInv, AtRest, InDisconnect,
         InCall, Outside, CallNames
  <2>2. CASE pc = "disconnect"
    <3>1. toBroker = <<Disconnect>> /\ toClient = <<>> BY <2>1, <2>2
    <3>2. received' = received /\ sock' = "dead" /\ toClient' = <<>>
      BY <3>1, OnePacket, PacketsDiffer DEF BrokerReceives
    <3>3. LinkInv'
      BY <3>2 DEF LinkInv, ClosedIsQuiet, OpenNeedsWifi,
         NotGivenUp, BeforeConnack, AtRest, InDisconnect, InCall
    <3> QED BY <1>2, <1>3, <3>2, <3>3 DEF DeliveryInv
  <2>3. CASE pc \in {"subscribe", "publish", "online", "offline"}
    <3>1. toBroker = <<Sent(pc)>> /\ toClient = <<>> /\ toBroker' = <<>>
      BY <1>1, <2>1, <2>3, OnePacket
    <3>2. Sent(pc) = IF pc = "subscribe" THEN Subscribe
                     ELSE Publish(IF pc = "publish" THEN Head(outputQueue) ELSE Status)
      BY <2>3 DEF Sent
    <3>3. /\ sock' = "open" /\ toClient' = <<Answer[pc]>>
          /\ received' = IF pc = "publish" THEN received \cup ({Head(outputQueue)} \ {Status})
                         ELSE received
      <4>1. CASE pc = "subscribe"
        BY <1>1, <3>1, <3>2, <4>1, OnePacket, PacketsDiffer DEF BrokerReceives, Answer
      <4>2. CASE pc # "subscribe"
        <5>1. Head(toBroker) = Publish(IF pc = "publish" THEN Head(outputQueue) ELSE Status)
          BY <3>1, <3>2, <4>2, OnePacket
        <5>2. /\ toClient' = Append(toClient, "PUBACK") /\ sock' = sock
              /\ received' = received \cup ({Head(toBroker).event} \ {Status})
          BY <5>1, PacketsDiffer DEF BrokerReceives
        <5>3. Answer[pc] = "PUBACK" BY <2>3, <4>2 DEF Answer
        <5> QED BY <1>1, <3>1, <5>1, <5>2, <5>3, OnePacket, PacketsDiffer
      <4> QED BY <4>1, <4>2
    <3>4. pc = "publish" => outputQueue # <<>> /\ Head(outputQueue) # Status
      BY <1>1, HeadIsAnEvent DEF DeliveryInv, SendInv
    <3>5. LinkInv'
      BY <1>1, <1>5, <2>3, <3>1, <3>3, <3>4 DEF DeliveryInv, LinkInv, ClosedIsQuiet, OpenNeedsWifi,
         NotGivenUp, BeforeConnack, AtRest, InDisconnect, InCall, Outside
    <3> QED BY <1>2, <1>3, <3>3, <3>4, <3>5 DEF DeliveryInv
  <2> QED BY <2>1, <2>2, <2>3
<1>6. connected \in BOOLEAN BY DEF TypeInv, LinkType
<1> QED BY <1>4, <1>5, <1>6

LEMMA CallAnsweredDelivery ==
    ASSUME TypeInv, Orderly, DeliveryInv, NotConnectedInConnect', UNCHANGED scenario,
           NEW k \in DOMAIN Answer, CallAnswered(k)
    PROVE  DeliveryInv'
<1>1. /\ pc = k /\ pingErrors < 2 /\ Contains(toClient, Answer[k])
      /\ pc' = "loop" /\ fsmState' = After[k]
      /\ connected' = (connected \/ k = "connack")
      /\ published' = (published \/ Answer[k] = "PUBACK")
      /\ UNCHANGED <<sock, toBroker, received, wifi, interface, nextInterface, outputQueue, pingErrors>>
  BY DEF CallAnswered, Return, Unchanged_Call
<1>2. k \in {"connack", "subscribe", "publish", "online", "offline"}
      /\ After[k] # "MSG_SEND" /\ After[k] # "ERROR" /\ (After[k] = "WAIT_ACK" <=> k = "publish")
      /\ (Answer[k] = "CONNACK" <=> k = "connack")
  BY DEF Answer, After
<1>3. connected \in BOOLEAN /\ pingErrors \in 0 .. 2 BY DEF TypeInv, LinkType
<1>4. sock = "open" BY <1>1, NothingInEmpty DEF DeliveryInv, LinkInv, ClosedIsQuiet
<1>5. /\ toBroker = <<>> /\ toClient = <<Answer[k]>>
      /\ connected' /\ (k = "publish" => Head(outputQueue) \in received)
  <2>1. CASE connected
    <3>1. k # "connack" BY <1>1, <2>1 DEF DeliveryInv, NotConnectedInConnect
    <3> QED
      BY <1>1, <1>2, <1>4, <2>1, <3>1, NothingInEmpty DEF DeliveryInv, LinkInv, InCall
  <2>2. CASE ~connected
    <3>1. toBroker = <<>> /\ toClient = <<"CONNACK">>
      BY <1>1, <1>4, <2>2, NothingInEmpty DEF DeliveryInv, LinkInv, BeforeConnack
    <3>2. Answer[k] = "CONNACK" BY <1>1, <3>1, OnePacket
    <3> QED BY <1>1, <1>2, <3>1, <3>2
  <2> QED BY <1>3, <2>1, <2>2
<1>6. toClient' = <<>> BY <1>5, OnlyAnswer
<1>7. LinkInv'
  BY <1>1, <1>3, <1>4, <1>5, <1>6 DEF DeliveryInv, LinkInv, ClosedIsQuiet, OpenNeedsWifi,
     NotGivenUp, BeforeConnack, AtRest, InDisconnect, InCall
<1>8. SendInv'
  <2>1. k = "publish" => outputQueue # <<>> BY <1>1, <1>4 DEF DeliveryInv, SendInv
  <2> QED BY <1>1, <1>2, <1>5, <2>1 DEF SendInv
<1>9. WifiInv' BY <1>1, <1>2 DEF DeliveryInv, WifiInv, Faults
<1> QED BY <1>7, <1>8, <1>9 DEF DeliveryInv

\* A call that nobody answers is over because the link is dead.
LEMMA CallUnansweredDelivery ==
    ASSUME TypeInv, Orderly, DeliveryInv, NotConnectedInConnect', UNCHANGED scenario,
           NEW k \in DOMAIN Answer, CallUnanswered(k)
    PROVE  DeliveryInv'
<1>1. /\ pc = k /\ pc' = "loop" /\ fsmState' = After[k] /\ toClient' = <<>>
      /\ connected' = (connected /\ k # "connack")
      /\ UNCHANGED <<sock, toBroker, received, wifi, interface, nextInterface, outputQueue,
                     published, pingErrors>>
  BY DEF CallUnanswered, Return, Unchanged_Call
<1>2. After[k] # "MSG_SEND" /\ After[k] # "ERROR" /\ (After[k] = "WAIT_ACK" <=> k = "publish")
  BY DEF Answer, After
<1>3. connected \in BOOLEAN BY DEF TypeInv, LinkType
<1>4. pingErrors = 2 \/ sock = "dead" BY DEF CallUnanswered, Orderly, Fault
<1>5. sock = "open" => ~connected BY <1>4 DEF DeliveryInv, LinkInv, NotGivenUp
<1>6. LinkInv'
  BY <1>1, <1>3, <1>5 DEF DeliveryInv, LinkInv, ClosedIsQuiet, OpenNeedsWifi,
     NotGivenUp, BeforeConnack, AtRest, InDisconnect, InCall
<1>7. SendInv' BY <1>1, <1>2 DEF DeliveryInv, SendInv
<1>8. WifiInv' BY <1>2, <1>1 DEF DeliveryInv, WifiInv, Faults
<1> QED BY <1>6, <1>7, <1>8 DEF DeliveryInv

\* A new start of the client gives up the queue, whatever was being sent.
LEMMA ReinitDelivery ==
    ASSUME TypeInv, DeliveryInv, NotConnectedInConnect', UNCHANGED scenario, Reinit
    PROVE  DeliveryInv' /\ Promise!GiveUp
<1>1. /\ sock' # "open" /\ toClient' = <<>> /\ fsmState' = "WAITING_INTERFACE" /\ outputQueue' = <<>>
      /\ UNCHANGED <<pc, published, pingErrors, posted, received>> /\ "menu" \in Faults
  BY DEF Reinit, KillLink, Fault, TypeInv, LinkType
<1>2. LinkInv'
  BY <1>1 DEF LinkInv, ClosedIsQuiet, OpenNeedsWifi, NotGivenUp, BeforeConnack, AtRest,
     InDisconnect, InCall
<1>3. SendInv' BY <1>1 DEF DeliveryInv, SendInv
<1>4. WifiInv' BY <1>1 DEF DeliveryInv, WifiInv, Faults
<1>5. Promise!GiveUp BY <1>1 DEF Promise!GiveUp, Faults
<1> QED BY <1>2, <1>3, <1>4, <1>5 DEF DeliveryInv

LEMMA OtherStepsDelivery ==
    ASSUME TypeInv, Orderly, DeliveryInv, NotConnectedInConnect', UNCHANGED scenario
    PROVE  NewBroker \/ MainLoopInError \/ LinkDies \/ MinutePasses
              \/ YieldReads \/ YieldReadsNothing \/ YieldAborted \/ YieldPingError
              \/ PingFails \/ ConnectFails \/ NetworkConnected \/ DisconnectReturns => DeliveryInv'
<1> USE DEF clientVars, linkVars
<1>1. /\ sock \in {"none", "open", "dead"} /\ connected \in BOOLEAN /\ interface \in {"none", "wifi"}
      /\ pingErrors \in 0 .. 2
  BY DEF TypeInv, LinkType, ClientType
\* While recv is silent, Wi-Fi is not lost.
<1>2. "silent" \in Faults /\ fsmState = "MSG_SEND" => wifi
  BY DEF Orderly, DeliveryInv, WifiInv
<1>3. sock = "open" => wifi BY DEF DeliveryInv, LinkInv, OpenNeedsWifi
<1>a. CASE NewBroker BY <1>a, QuietStep DEF NewBroker
<1>b. CASE MainLoopInError BY <1>b, QuietStep DEF MainLoopInError, Outside
<1>c. CASE LinkDies
  <2>1. LinkInv'
    BY <1>1, <1>c DEF LinkDies, KillLink, LinkInv, ClosedIsQuiet, OpenNeedsWifi, NotGivenUp,
       BeforeConnack, AtRest, InDisconnect, InCall
  <2>2. SendInv' BY <1>c DEF LinkDies, KillLink, DeliveryInv, SendInv, ClientConnected, Outside
  <2>3. WifiInv' BY <1>c DEF LinkDies, KillLink, DeliveryInv, WifiInv, ClientConnected, Faults
  <2> QED BY <2>1, <2>2, <2>3 DEF DeliveryInv
<1>d. CASE MinutePasses BY <1>d, QuietStep DEF MinutePasses
<1>e. CASE YieldReads
  <2>1. sock = "open" /\ toClient # <<>> /\ ~connected
    BY <1>e DEF YieldReads, DeliveryInv, LinkInv, ClosedIsQuiet, AtRest, Outside
  <2>2. toClient' = <<>> /\ toBroker = <<>> /\ toBroker' = <<>>
    BY <1>e, <2>1, OnePacket DEF YieldReads, Unchanged_Yield, DeliveryInv, LinkInv, BeforeConnack
  <2>3. LinkInv'
    BY <1>e, <2>1, <2>2 DEF YieldReads, Unchanged_Yield, DeliveryInv, LinkInv, ClosedIsQuiet,
       OpenNeedsWifi, NotGivenUp, BeforeConnack, AtRest, InDisconnect, InCall
  <2>4. SendInv' BY <1>e DEF YieldReads, Unchanged_Yield, DeliveryInv, SendInv, ClientConnected, Outside
  <2>5. WifiInv'
    BY <1>e, <2>1, <1>3 DEF YieldReads, Unchanged_Yield, DeliveryInv, WifiInv, ClientConnected, Faults
  <2> QED BY <2>3, <2>4, <2>5 DEF DeliveryInv
<1>f. CASE YieldReadsNothing
  <2>1. fsmState = "MSG_SEND" => wifi BY <1>2, <1>3, <1>f DEF YieldReadsNothing
  <2> QED BY <1>f, <2>1, QuietStep DEF YieldReadsNothing, Unchanged_Yield, Outside
<1>g. CASE YieldAborted
  <2>1. LinkInv'
    BY <1>g DEF YieldAborted, DeliveryInv, LinkInv, ClosedIsQuiet, OpenNeedsWifi,
       NotGivenUp, BeforeConnack, AtRest, InDisconnect, InCall
  <2>2. SendInv' BY <1>g DEF YieldAborted, DeliveryInv, SendInv
  <2>3. WifiInv' BY <1>g DEF YieldAborted, DeliveryInv, WifiInv, ClientConnected, Faults
  <2> QED BY <2>1, <2>2, <2>3 DEF DeliveryInv
<1>h. CASE YieldPingError
  <2>1. "silent" \in Faults /\ (sock = "open" => ~connected) /\ pc = "yield" /\ pc' = "switch"
    BY <1>h DEF YieldPingError, DeliveryInv, WifiInv, LinkInv, NotGivenUp
  <2>2. UNCHANGED <<sock, toBroker, wifi, interface, nextInterface, outputQueue, received,
                    published, fsmState, connected, pingErrors>>
    BY <1>h DEF YieldPingError, Unchanged_Yield
  <2>3. toClient' = IF toClient = <<>> THEN <<>> ELSE Tail(toClient) BY <1>h DEF YieldPingError
  <2>4. toClient' = <<>> /\ (sock = "open" => toBroker \in {<<>>, <<Connect>>, <<Disconnect>>})
    BY <1>1, <2>1, <2>3, OnePacket DEF DeliveryInv, LinkInv, ClosedIsQuiet, BeforeConnack
  <2>5. LinkInv'
    BY <2>1, <2>2, <2>4 DEF DeliveryInv, LinkInv, ClosedIsQuiet,
       OpenNeedsWifi, NotGivenUp, BeforeConnack, AtRest, InDisconnect, InCall, Connect, Disconnect
  <2>6. SendInv' BY <2>1, <2>2 DEF DeliveryInv, SendInv, ClientConnected, Outside
  <2>7. WifiInv' BY <1>2, <2>1, <2>2 DEF DeliveryInv, WifiInv, ClientConnected, Faults
  <2> QED BY <2>5, <2>6, <2>7 DEF DeliveryInv
<1>i. CASE PingFails
  <2>1. LinkInv'
    BY <1>1, <1>i DEF PingFails, Unchanged_Yield, DeliveryInv, LinkInv, ClosedIsQuiet, OpenNeedsWifi,
       NotGivenUp, BeforeConnack, AtRest, InDisconnect, InCall
  <2>2. SendInv' BY <1>i DEF PingFails, Unchanged_Yield, DeliveryInv, SendInv, ClientConnected, Outside
  <2>3. WifiInv'
    BY <1>i DEF PingFails, Unchanged_Yield, DeliveryInv, WifiInv, ClientConnected, Faults
  <2> QED BY <2>1, <2>2, <2>3 DEF DeliveryInv
<1>j. CASE ConnectFails
  <2>1. ~connected /\ (sock' = sock \/ (sock = "none" /\ sock' = "dead"))
        /\ UNCHANGED <<toBroker, toClient, wifi, pingErrors>> /\ connected' = FALSE
    BY <1>j DEF ConnectFails, NewSocket, Unchanged_Call, DeliveryInv, NotConnectedInConnect
  <2>2. LinkInv'
    BY <1>1, <2>1 DEF DeliveryInv, LinkInv, ClosedIsQuiet,
       OpenNeedsWifi, NotGivenUp, BeforeConnack, AtRest, InDisconnect, InCall, Connect, Disconnect
  <2>3. SendInv'
    BY <1>j DEF ConnectFails, Unchanged_Call, Return, After, DeliveryInv, SendInv
  <2>4. WifiInv'
    BY <1>j DEF ConnectFails, Unchanged_Call, Return, After, DeliveryInv, WifiInv, Faults
  <2> QED BY <2>2, <2>3, <2>4 DEF DeliveryInv
<1>k. CASE NetworkConnected
  <2>1. ~connected BY <1>k DEF NetworkConnected, DeliveryInv, NotConnectedInConnect
  <2>2. LinkInv'
    BY <1>1, <1>k, <2>1 DEF NetworkConnected, Unchanged_Call, LinkInv, ClosedIsQuiet,
       OpenNeedsWifi, NotGivenUp, BeforeConnack, AtRest, InDisconnect, InCall, Connect
  <2>3. SendInv'
    BY <1>k DEF NetworkConnected, Unchanged_Call, DeliveryInv, SendInv, Outside
  <2>4. WifiInv' BY <1>k DEF NetworkConnected, Unchanged_Call, DeliveryInv, WifiInv, Faults
  <2> QED BY <2>2, <2>3, <2>4 DEF DeliveryInv
<1>l. CASE DisconnectReturns
  <2>1. LinkInv'
    BY <1>1, <1>l DEF DisconnectReturns, Unchanged_Call, DeliveryInv, LinkInv, ClosedIsQuiet,
       OpenNeedsWifi, NotGivenUp, BeforeConnack, AtRest, InDisconnect, InCall, Connect, Disconnect
  <2>2. SendInv'
    BY <1>l DEF DisconnectReturns, Unchanged_Call, Return, After, DeliveryInv, SendInv
  <2>3. WifiInv'
    BY <1>l DEF DisconnectReturns, Unchanged_Call, Return, After, DeliveryInv, WifiInv, Faults
  <2> QED BY <2>1, <2>2, <2>3 DEF DeliveryInv
<1> QED
  BY <1>a, <1>b, <1>c, <1>d, <1>e, <1>f, <1>g, <1>h, <1>i, <1>j, <1>k, <1>l

\* A case of the switch leaves the queue as it was, unless it confirms its head.
LEMMA SwitchQueue ==
    ASSUME Orderly, DeliveryInv, NEW q, Switch(q)
    PROVE  /\ q = outputQueue /\ pc = "switch" /\ UNCHANGED <<posted, received>>
           /\ \/ UNCHANGED outputQueue
              \/ /\ outputQueue # <<>> /\ Head(outputQueue) \in received
                 /\ outputQueue' = Tail(outputQueue)
<1>1. PICK state : Case(state, q)
  BY DEF Switch, WaitingInterface, Initialize, ConnectBroker, WaitConnection, ConnectionTimeout,
     IdleReset, IdleCheck, IdleSend, MsgSend, WaitAckPublished, ResponseTimeout,
     StatusOfflinePublished, WaitClose, WaitSubscribe, StatusOnlinePublished, StayInState
<1>2. q = outputQueue /\ pc = "switch" /\ UNCHANGED <<posted, received>>
  BY <1>1, NoRetention DEF Case
<1>3. CASE WaitAckPublished(q)
  <2>1. fsmState = "WAIT_ACK" /\ published /\ outputQueue' = IF q = <<>> THEN <<>> ELSE Tail(q)
    BY <1>3 DEF WaitAckPublished, Case
  <2> QED BY <1>2, <2>1 DEF DeliveryInv, SendInv
<1>4. ~WaitAckPublished(q) => outputQueue' = q
  BY DEF Switch, WaitingInterface, Initialize, ConnectBroker, WaitConnection, ConnectionTimeout,
     IdleReset, IdleCheck, IdleSend, MsgSend, ResponseTimeout,
     StatusOfflinePublished, WaitClose, WaitSubscribe, StatusOnlinePublished, StayInState
<1> QED BY <1>2, <1>3, <1>4

\* In FSM_MSG_SEND there is a connection, and Wi-Fi below it.
LEMMA SendsForSure ==
    ASSUME DeliveryInv, pc = "switch", fsmState = "MSG_SEND"
    PROVE  InterfaceConnected /\ ClientConnected
BY DEF DeliveryInv, SendInv, WifiInv, Outside, InterfaceConnected, ClientConnected

LEMMA SwitchDelivery ==
    ASSUME TypeInv, Orderly, DeliveryInv, NotConnectedInConnect', UNCHANGED scenario,
           NEW q, Switch(q)
    PROVE  DeliveryInv'
<1> USE DEF Goto, KeepLink, KeepClient, KeepAnswers, KeepCounts
<1>1. q = outputQueue /\ pc = "switch" /\ received' = received
  BY SwitchQueue
<1>2. connected \in BOOLEAN /\ interface \in {"none", "wifi"} /\ nextInterface \in {"none", "wifi"}
  BY DEF TypeInv, LinkType, ClientType
\* The cases differ in whether they start a call, and in where they go.
<1> DEFINE Idle == /\ UNCHANGED <<connected, sock, toClient, toBroker>>
                   /\ pc' = "loop" \/ (pc' = "connect" /\ ~connected)
           Fresh == sock' = "none" /\ toClient' = <<>> /\ pc' = "loop"
           Calling == \E k \in {"subscribe", "publish", "online", "offline", "disconnect"} : \E p :
                         /\ ClientConnected /\ Call(k, p)
                         /\ UNCHANGED <<connected, sock, toClient>>
                         /\ p = IF k = "disconnect" THEN Disconnect ELSE Sent(k)
                         /\ UNCHANGED outputQueue
<1>3. Idle \/ Fresh \/ Calling => pc' # "switch" BY DEF Call
<1>4. ASSUME UNCHANGED <<wifi, pingErrors>>, Idle \/ Fresh \/ Calling
      PROVE  LinkInv'
  <2>1. CASE Fresh
    BY <1>4, <2>1 DEF LinkInv, ClosedIsQuiet, OpenNeedsWifi, NotGivenUp,
       BeforeConnack, AtRest, InDisconnect, InCall
  <2>2. CASE Idle
    BY <1>1, <1>4, <2>2 DEF DeliveryInv, LinkInv, ClosedIsQuiet, OpenNeedsWifi, NotGivenUp,
       BeforeConnack, AtRest, InDisconnect, InCall, Outside, Connect, Disconnect
  <2>3. CASE Calling
    <3>0. PICK k \in {"subscribe", "publish", "online", "offline", "disconnect"} : \E p :
             /\ ClientConnected /\ Call(k, p)
             /\ UNCHANGED <<connected, sock, toClient>>
             /\ p = IF k = "disconnect" THEN Disconnect ELSE Sent(k)
             /\ UNCHANGED outputQueue
      BY <2>3
    <3>1. PICK p :
             /\ ClientConnected /\ Call(k, p)
             /\ UNCHANGED <<connected, sock, toClient>>
             /\ p = IF k = "disconnect" THEN Disconnect ELSE Sent(k)
             /\ UNCHANGED outputQueue
      BY <3>0
    <3>2. connected /\ pc' = k /\ connected'
      BY <3>1 DEF Call, ClientConnected
    <3>3. sock = "open" => toBroker = <<>> /\ toClient = <<>>
      BY <1>1, <3>2 DEF DeliveryInv, LinkInv, AtRest, Outside
    <3>4. sock = "open" => toBroker' = <<p>> BY <3>1, <3>3, OnePacket DEF Call
    <3>5. ClosedIsQuiet' /\ OpenNeedsWifi' /\ NotGivenUp' /\ BeforeConnack'
      BY <1>4, <3>1, <3>2 DEF DeliveryInv, LinkInv, ClosedIsQuiet, OpenNeedsWifi, NotGivenUp, BeforeConnack
    <3>6. AtRest' /\ InDisconnect'
      BY <3>1, <3>2, <3>3, <3>4 DEF AtRest, InDisconnect, Outside, Disconnect
    <3>7. k # "disconnect" => Sent(k)' = Sent(k)
      BY <3>1 DEF Sent, Subscribe, Publish, Status
    <3>8. InCall' BY <3>1, <3>2, <3>3, <3>4, <3>7 DEF InCall, Sent
    <3> QED BY <3>5, <3>6, <3>8 DEF LinkInv
  <2> QED BY <1>4, <2>1, <2>2, <2>3
<1>5. ASSUME UNCHANGED <<wifi, pingErrors, nextInterface>>, Idle \/ Fresh \/ Calling,
             interface' = interface \/ interface' = nextInterface,
             \/ fsmState' \notin {"MSG_SEND", "WAIT_ACK"} /\ pc' # "publish"
             \/ SendInv' /\ (fsmState' = "MSG_SEND" => wifi)
      PROVE  DeliveryInv'
  <2>1. LinkInv' BY <1>4, <1>5
  <2>2. SendInv' BY <1>5 DEF SendInv
  <2>3. WifiInv' BY <1>3, <1>5 DEF DeliveryInv, WifiInv, Faults
  <2> QED BY <2>1, <2>2, <2>3 DEF DeliveryInv
\* A call other than that of an event.
<1>6. ASSUME NEW k \in {"subscribe", "online", "offline", "disconnect"}, NEW p, Call(k, p),
             p = IF k = "disconnect" THEN Disconnect ELSE Sent(k),
             KeepClient, outputQueue' = q, UNCHANGED <<wifi, pingErrors, nextInterface>>,
             fsmState \notin {"MSG_SEND", "WAIT_ACK"}
      PROVE  DeliveryInv'
  <2>1. After[k] \notin {"MSG_SEND", "WAIT_ACK"} BY <1>6 DEF After
  <2>2. CASE ClientConnected
    <3>1. Calling BY <1>1, <1>6, <2>2
    <3>2. pc' = k /\ fsmState' = fsmState BY <1>6, <2>2 DEF Call
    <3> HIDE DEF Calling, Idle, Fresh
    <3> QED BY <1>5, <1>6, <3>1, <3>2
  <2>3. CASE ~ClientConnected
    <3>1. Idle /\ fsmState' = After[k] /\ pc' = "loop" BY <1>6, <2>3 DEF Call
    <3> HIDE DEF Calling, Idle, Fresh
    <3> QED BY <1>5, <1>6, <2>1, <3>1
  <2> QED BY <2>2, <2>3
<1>7. Sent("subscribe") = Subscribe /\ Sent("online") = Publish(Status)
      /\ Sent("offline") = Publish(Status) /\ Sent("publish") = Publish(Head(outputQueue))
  BY DEF Sent
<1>a. CASE WaitingInterface(q)
  <2>1. Idle BY <1>a DEF WaitingInterface
  <2> HIDE DEF Calling, Idle, Fresh
  <2> QED BY <1>a, <1>5, <2>1 DEF WaitingInterface, Case
<1>b. CASE Initialize(q)
  <2>1. Idle \/ Fresh BY <1>b DEF Initialize
  <2> HIDE DEF Calling, Idle, Fresh
  <2> QED BY <1>b, <1>5, <2>1 DEF Initialize, Case
<1>c. CASE ConnectBroker(q)
  <2>1. Idle BY <1>c DEF ConnectBroker, InterfaceConnected, ClientConnected
  <2>2. fsmState' \notin {"MSG_SEND", "WAIT_ACK"} /\ pc' # "publish"
    BY <1>c DEF ConnectBroker, Case
  <2> HIDE DEF Calling, Idle, Fresh
  <2> QED BY <1>c, <1>5, <2>1, <2>2 DEF ConnectBroker, Case
<1>d. CASE WaitConnection(q) BY <1>d, <1>6, <1>7 DEF WaitConnection, Case
<1>e. CASE ConnectionTimeout(q)
  <2>1. Idle BY <1>e DEF ConnectionTimeout
  <2> HIDE DEF Calling, Idle, Fresh
  <2> QED BY <1>e, <1>5, <2>1 DEF ConnectionTimeout, Case
<1>f. CASE IdleReset(q) BY <1>f, <1>6, <1>7 DEF IdleReset, Case
<1>g. CASE IdleCheck(q)
  <2>1. Idle BY <1>g DEF IdleCheck
  <2> HIDE DEF Calling, Idle, Fresh
  <2> QED BY <1>g, <1>5, <2>1 DEF IdleCheck, Case
<1>h. CASE IdleSend(q)
  <2>1. Idle BY <1>h DEF IdleSend
  <2>2. SendInv' /\ wifi BY <1>h DEF IdleSend, SendInv, ClientConnected, InterfaceConnected
  <2> HIDE DEF Calling, Idle, Fresh
  <2> QED BY <1>h, <1>5, <2>1, <2>2 DEF IdleSend, Case
<1>i. CASE MsgSend(q)
  <2>1. fsmState = "MSG_SEND" /\ UNCHANGED <<wifi, pingErrors, nextInterface, interface>>
        /\ UNCHANGED <<connected, sock, toClient, outputQueue>>
    BY <1>1, <1>i DEF MsgSend, Case
  <2>2. InterfaceConnected /\ ClientConnected /\ outputQueue # <<>>
    BY <1>1, <2>1, SendsForSure DEF DeliveryInv, SendInv
  <2>3. Call("publish", Publish(Head(outputQueue))) /\ published' = FALSE
    BY <1>1, <1>i, <2>2 DEF MsgSend
  <2>4. Calling BY <1>7, <2>1, <2>2, <2>3
  <2>5. SendInv' /\ wifi
    <3>1. pc' = "publish" /\ fsmState' = "MSG_SEND" BY <2>1, <2>2, <2>3 DEF Call
    <3> QED BY <2>1, <2>2, <2>3, <3>1 DEF SendInv, Outside, InterfaceConnected
  <2> HIDE DEF Calling, Idle, Fresh
  <2> QED BY <1>5, <2>1, <2>4, <2>5
<1>j. CASE WaitAckPublished(q)
  <2>1. Idle BY <1>j DEF WaitAckPublished
  <2> HIDE DEF Calling, Idle, Fresh
  <2> QED BY <1>j, <1>5, <2>1 DEF WaitAckPublished, Case
<1>k. ASSUME NEW s, NEW next \in {"IDLE", "CONNECT_BROKER"}, ResponseTimeout(s, next, q)
      PROVE  DeliveryInv'
  <2>1. Idle BY <1>k DEF ResponseTimeout
  <2> HIDE DEF Calling, Idle, Fresh
  <2> QED BY <1>k, <1>5, <2>1 DEF ResponseTimeout, Case
<1>l. CASE StatusOfflinePublished(q) BY <1>l, <1>6 DEF StatusOfflinePublished, Case
<1>m. CASE WaitClose(q)
  <2>1. Idle BY <1>m DEF WaitClose
  <2> HIDE DEF Calling, Idle, Fresh
  <2> QED BY <1>m, <1>5, <2>1 DEF WaitClose, Case
<1>n. CASE WaitSubscribe(q) BY <1>n, <1>6, <1>7 DEF WaitSubscribe, Case
<1>o. CASE StatusOnlinePublished(q)
  <2>1. Idle BY <1>o DEF StatusOnlinePublished
  <2> HIDE DEF Calling, Idle, Fresh
  <2> QED BY <1>o, <1>5, <2>1 DEF StatusOnlinePublished, Case
<1>p. CASE StayInState(q)
  <2>1. Idle BY <1>p DEF StayInState
  <2>2. fsmState # "MSG_SEND" BY <1>p DEF StayInState, NothingToDo
  <2>3. fsmState' = fsmState /\ pc' = "loop" /\ UNCHANGED <<outputQueue, published>>
    BY <1>1, <1>p DEF StayInState
  <2>4. SendInv' /\ fsmState' # "MSG_SEND" BY <1>1, <2>2, <2>3 DEF DeliveryInv, SendInv
  <2> HIDE DEF Calling, Idle, Fresh
  <2> QED BY <1>p, <1>5, <2>1, <2>4 DEF StayInState, Case
<1> QED
  BY <1>a, <1>b, <1>c, <1>d, <1>e, <1>f, <1>g, <1>h, <1>i, <1>j, <1>k, <1>l, <1>m, <1>n, <1>o, <1>p
  DEF Switch

LEMMA DeliveryInit == Init => DeliveryInv
<1> SUFFICES ASSUME Init PROVE DeliveryInv OBVIOUS
<1>2. LinkInv
  BY DEF Init, LinkInv, ClosedIsQuiet, OpenNeedsWifi, NotGivenUp, BeforeConnack, AtRest,
     InDisconnect, InCall
<1>3. SendInv /\ WifiInv /\ NotConnectedInConnect
  BY DEF Init, SendInv, WifiInv, NotConnectedInConnect, ClientConnected
<1> QED BY <1>2, <1>3 DEF DeliveryInv

\* One step, and what it is for Outbox.
LEMMA DeliveryStep ==
    ASSUME TypeInv, ServingInv', Orderly, DeliveryInv, [Next /\ UNCHANGED scenario]_<<vars, scenario>>
    PROVE  DeliveryInv' /\ Orderly' /\ [Promise!Next]_(Promise!outboxVars)
<1> USE DEF Promise!outboxVars
<1>1. UNCHANGED scenario /\ NotConnectedInConnect' BY DEF ServingInv
<1>2. Orderly' BY <1>1, OrderlyStays
\* mainLoop posts.
<1>3. ASSUME MainLoopBody PROVE [Promise!Next]_(Promise!outboxVars)
  <2>1. UNCHANGED received BY <1>3 DEF MainLoopBody, WifiEvents, KillLink, linkVars
  <2> QED BY <1>1, <1>3, <2>1 DEF MainLoopBody, MayPost, Promise!Next, Promise!Post, Faults
<1>4. CASE MainLoop
  <2>1. MainLoopBody BY <1>4 DEF MainLoop
  <2>2. DeliveryInv' BY <1>1, <1>4, <2>1, MainLoopBodyDelivery DEF MainLoop
  <2> QED BY <1>2, <1>3, <2>1, <2>2
<1>5. CASE NestedMainLoop
  <2>1. MainLoopBody /\ pc' = pc /\ pc # "switch" BY <1>5 DEF NestedMainLoop, Calls, After
  <2>2. DeliveryInv' BY <1>1, <2>1, MainLoopBodyDelivery
  <2> QED BY <1>2, <1>3, <2>1, <2>2
\* The broker gets the packet that was sent.
<1>6. CASE BrokerReceives
  <2>1. UNCHANGED <<posted, outputQueue>> BY <1>6 DEF BrokerReceives
  <2> QED BY <1>1, <1>2, <1>6, <2>1, BrokerDelivery DEF Promise!Next, Promise!Deliver, Faults
\* The switch confirms the head, or leaves the queue alone.
<1>7. ASSUME NEW q, Switch(q) PROVE DeliveryInv' /\ [Promise!Next]_(Promise!outboxVars)
  BY <1>1, <1>7, SwitchQueue, SwitchDelivery DEF Promise!Next, Promise!Confirm, Faults
<1>8. ASSUME NEW k \in DOMAIN Answer, CallAnswered(k) \/ CallUnanswered(k)
      PROVE  DeliveryInv' /\ UNCHANGED <<posted, outputQueue, received>>
  <2>1. DeliveryInv' BY <1>1, <1>8, CallAnsweredDelivery, CallUnansweredDelivery
  <2> QED BY <1>8, <2>1 DEF CallAnswered, CallUnanswered, Unchanged_Call
<1>9. CASE NewBroker \/ MainLoopInError \/ LinkDies \/ MinutePasses
              \/ YieldReads \/ YieldReadsNothing \/ YieldAborted \/ YieldPingError
              \/ PingFails \/ ConnectFails \/ NetworkConnected \/ DisconnectReturns
  <2>1. DeliveryInv' BY <1>1, <1>9, OtherStepsDelivery
  <2>2. UNCHANGED <<posted, outputQueue, received>>
    BY <1>9 DEF NewBroker, MainLoopInError, LinkDies, MinutePasses, KillLink, linkVars,
       YieldReads, YieldReadsNothing, YieldAborted, YieldPingError, Unchanged_Yield,
       PingFails, ConnectFails, NetworkConnected, DisconnectReturns, Unchanged_Call
  <2> QED BY <1>1, <1>2, <2>1, <2>2 DEF Faults
<1>10. CASE UNCHANGED <<vars, scenario>>
  <2>1. /\ UNCHANGED <<sock, toBroker, toClient, connected, pingErrors, wifi, interface,
                       nextInterface, outputQueue, received, published, fsmState, scenario, pc>>
        /\ UNCHANGED posted
    BY <1>10 DEF vars, clientVars, linkVars
  <2>2. DeliveryInv' BY <1>1, <2>1, QuietStep
  <2> QED BY <1>1, <1>2, <2>1, <2>2 DEF Faults
<1>11. CASE Reinit BY <1>1, <1>2, <1>11, ReinitDelivery DEF Promise!Next
<1> QED
  BY <1>1, <1>2, <1>4, <1>5, <1>6, <1>7, <1>8, <1>9, <1>10, <1>11 DEF Next, Firmware, Faults

LEMMA DeliveryIsInvariant == Spec /\ Orderly => [](TypeInv /\ ServingInv /\ Orderly /\ DeliveryInv)
<1> DEFINE I == TypeInv /\ ServingInv /\ Orderly /\ DeliveryInv
<1>1. Init /\ Orderly => I BY TypeInit, ServingInit, DeliveryInit DEF Init
<1>2. I /\ [Next /\ UNCHANGED scenario]_<<vars, scenario>> => I'
  BY TypeStep, ServingStep, DeliveryStep
<1> QED BY <1>1, <1>2, PTL DEF Spec

\* "Llego un PUBACK": in orderly scenarios the event that leaves the queue is one that
\* the broker has got, whatever is posted, lost, reset or initialised again: FSM_MSG_SEND is
\* only left for FSM_WAIT_ACK through a call whose packet was the head of the queue,
\* with "published" reset before it (imClient.c:417-454, mqttClient.c:249-314).
THEOREM AckedAfterReceived == Spec /\ Orderly => []AckedIsReceived
<1>1. DeliveryInv => AckedIsReceived BY DEF DeliveryInv, SendInv, AckedIsReceived
<1> QED BY <1>1, DeliveryIsInvariant, PTL

\* In orderly scenarios the queue of imClient.c, Paho, the link and the broker together
\* are an Outbox: imClient_send posts, the broker delivers, FSM_WAIT_ACK confirms, and
\* only messagePool_init gives the queue up, where mainFsm can call imClient_init again.
THEOREM ImClientKeepsPromise == Spec /\ Orderly => KeepsThePromise
<1>1. Init => Promise!Init BY DEF Init, Promise!Init
<1>2. /\ TypeInv /\ ServingInv /\ Orderly /\ DeliveryInv /\ ServingInv'
      /\ [Next /\ UNCHANGED scenario]_<<vars, scenario>>
      => [Promise!Next]_(Promise!outboxVars)
  BY DeliveryStep
<1> QED BY <1>1, <1>2, DeliveryIsInvariant, PTL DEF Spec, KeepsThePromise, Promise!Spec
=============================================================================

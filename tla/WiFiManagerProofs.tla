------------------------- MODULE WiFiManagerProofs -------------------------
(* Theorems about the Wi-Fi manager, for every value of its constants. *)
EXTENDS WiFiManager, TLAPS

\* A server socket has its entry in the list.
ServerListed == server # "none" => entradas > 0

TypeInv == TypeOK /\ ServerListed

\* The phone is on the access point only while there is one.
PhoneNeedsAp == phone => ap_enable

\* While the manager waits for WPS, data there can only be of WPS, which is then over.
WpsOverWithData ==
    fsmState = "modoWps" /\ ~stateIn /\ provisioningInfoAvailable => ~wps_enable

\* Inductive: where the access point and WPS are on, and where data come from.
ModesInv == /\ ApOnlyWhileListening
            /\ WpsOnlyInModoWps
            /\ PhoneNeedsAp
            /\ WpsOverWithData

\* With a driver that is never late, until data are left over or a server socket fails:
\* the list has the server's entry while it is of use, and data and news of WPS are there
\* only where the manager takes them.
Unspoilt == ~infoVieja /\ ~servidorFallo
EntryOfServer == entradas = (IF server = "none" THEN 0 ELSE 1)
NoneOtherwise == ~Serving => server = "none"
InWps == fsmState = "modoWps" /\ ~stateIn
DataWhereTaken == provisioningInfoAvailable => Serving \/ InWps
WpsNewsInWps == \A i \in 1 .. Len(eventos) : eventos[i] = "wps" => InWps
WpsNotLeft == ~wpsSuelto
Orderly == /\ EntryOfServer
           /\ NoneOtherwise
           /\ DataWhereTaken
           /\ WpsNewsInWps
           /\ WpsNotLeft
EntriesInv == Unspoilt => Orderly

\* Every variable keeps its type.
LEMMA TypeStep == TypeInv /\ [Next]_vars => TypeOK'
<1> SUFFICES ASSUME TypeInv, [Next]_vars PROVE TypeOK'
  OBVIOUS
<1> USE DEF vars, fsmVars, flags, apVars, serverVars, driverVars, counts, history,
            Goto, Stay, Pass, Entry, Later, Button, Fault, Tell, Taken, Next_event, Overdue,
            TypeInv, TypeOK
<1>1. CASE DriverConnects
  <2> USE <1>1 DEF DriverConnects
  <2>1. FsmType' BY DEF FsmType, States
  <2>2. FlagsType' BY DEF FlagsType
  <2>3. CountsType' BY SocketsAssumption DEF CountsType, ServerListed, DriverType
  <2>4. DriverType' BY DEF DriverType, Events
  <2> QED BY <2>1, <2>2, <2>3, <2>4
<1>2. CASE DriverDisconnects
  <2> USE <1>2 DEF DriverDisconnects
  <2>1. FsmType' BY DEF FsmType, States
  <2>2. FlagsType' BY DEF FlagsType
  <2>3. CountsType' BY SocketsAssumption DEF CountsType, ServerListed, DriverType
  <2>4. DriverType' BY DEF DriverType, Events
  <2> QED BY <2>1, <2>2, <2>3, <2>4
<1>3. CASE DriverGetsAddress
  <2> USE <1>3 DEF DriverGetsAddress
  <2>1. FsmType' BY DEF FsmType, States
  <2>2. FlagsType' BY DEF FlagsType
  <2>3. CountsType' BY SocketsAssumption DEF CountsType, ServerListed, DriverType
  <2>4. DriverType' BY DEF DriverType, Events
  <2> QED BY <2>1, <2>2, <2>3, <2>4
<1>4. CASE WpsAnswers
  <2> USE <1>4 DEF WpsAnswers
  <2>1. FsmType' BY DEF FsmType, States
  <2>2. FlagsType' BY DEF FlagsType
  <2>3. CountsType' BY SocketsAssumption DEF CountsType, ServerListed, DriverType
  <2>4. DriverType' BY DEF DriverType, Events
  <2> QED BY <2>1, <2>2, <2>3, <2>4
<1>5. CASE PhoneJoins
  <2> USE <1>5 DEF PhoneJoins
  <2>1. FsmType' BY DEF FsmType, States
  <2>2. FlagsType' BY DEF FlagsType
  <2>3. CountsType' BY SocketsAssumption DEF CountsType, ServerListed, DriverType
  <2>4. DriverType' BY DEF DriverType, Events
  <2> QED BY <2>1, <2>2, <2>3, <2>4
<1>6. CASE PhoneLeaves
  <2> USE <1>6 DEF PhoneLeaves
  <2>1. FsmType' BY DEF FsmType, States
  <2>2. FlagsType' BY DEF FlagsType
  <2>3. CountsType' BY SocketsAssumption DEF CountsType, ServerListed, DriverType
  <2>4. DriverType' BY DEF DriverType, Events
  <2> QED BY <2>1, <2>2, <2>3, <2>4
<1>7. CASE CbConnected
  <2> USE <1>7 DEF CbConnected
  <2>1. FsmType' BY DEF FsmType, States
  <2>2. FlagsType' BY DEF FlagsType
  <2>3. CountsType' BY SocketsAssumption DEF CountsType, ServerListed, DriverType
  <2>4. DriverType' BY DEF DriverType, Events
  <2> QED BY <2>1, <2>2, <2>3, <2>4
<1>8. CASE CbDisconnected
  <2> USE <1>8 DEF CbDisconnected
  <2>1. FsmType' BY DEF FsmType, States
  <2>2. FlagsType' BY DEF FlagsType
  <2>3. CountsType' BY SocketsAssumption DEF CountsType, ServerListed, DriverType
  <2>4. DriverType' BY DEF DriverType, Events
  <2> QED BY <2>1, <2>2, <2>3, <2>4
<1>9. CASE CbDhcp
  <2> USE <1>9 DEF CbDhcp
  <2>1. FsmType' BY DEF FsmType, States
  <2>2. FlagsType' BY DEF FlagsType
  <2>3. CountsType' BY SocketsAssumption DEF CountsType, ServerListed, DriverType
  <2>4. DriverType' BY DEF DriverType, Events
  <2> QED BY <2>1, <2>2, <2>3, <2>4
<1>10. CASE CbWps
  <2> USE <1>10 DEF CbWps
  <2>1. FsmType' BY DEF FsmType, States
  <2>2. FlagsType' BY DEF FlagsType
  <2>3. CountsType' BY SocketsAssumption DEF CountsType, ServerListed, DriverType
  <2>4. DriverType' BY DEF DriverType, Events
  <2> QED BY <2>1, <2>2, <2>3, <2>4
<1>11. CASE ServerListens
  <2> USE <1>11 DEF ServerListens
  <2>1. FsmType' BY DEF FsmType, States
  <2>2. FlagsType' BY DEF FlagsType
  <2>3. CountsType' BY SocketsAssumption DEF CountsType, ServerListed, DriverType
  <2>4. DriverType' BY DEF DriverType, Events
  <2> QED BY <2>1, <2>2, <2>3, <2>4
<1>12. CASE ServerFails
  <2> USE <1>12 DEF ServerFails
  <2>1. FsmType' BY DEF FsmType, States
  <2>2. FlagsType' BY DEF FlagsType
  <2>3. CountsType' BY SocketsAssumption DEF CountsType, ServerListed, DriverType
  <2>4. DriverType' BY DEF DriverType, Events
  <2> QED BY <2>1, <2>2, <2>3, <2>4
<1>13. CASE ClientAccepted
  <2> USE <1>13 DEF ClientAccepted
  <2>1. FsmType' BY DEF FsmType, States
  <2>2. FlagsType' BY DEF FlagsType
  <2>3. CountsType' BY SocketsAssumption DEF CountsType, ServerListed, DriverType
  <2>4. DriverType' BY DEF DriverType, Events
  <2> QED BY <2>1, <2>2, <2>3, <2>4
<1>14. CASE ClientData
  <2> USE <1>14 DEF ClientData
  <2>1. FsmType' BY DEF FsmType, States
  <2>2. FlagsType' BY DEF FlagsType
  <2>3. CountsType' BY SocketsAssumption DEF CountsType, ServerListed, DriverType
  <2>4. DriverType' BY DEF DriverType, Events
  <2> QED BY <2>1, <2>2, <2>3, <2>4
<1>15. CASE ClientGone
  <2> USE <1>15 DEF ClientGone
  <2>1. FsmType' BY DEF FsmType, States
  <2>2. FlagsType' BY DEF FlagsType
  <2>3. CountsType' BY SocketsAssumption DEF CountsType, ServerListed, DriverType
  <2>4. DriverType' BY DEF DriverType, Events
  <2> QED BY <2>1, <2>2, <2>3, <2>4
<1>16. ASSUME NEW s \in States, EnterTimed(s) PROVE TypeOK'
  <2> USE <1>16 DEF EnterTimed
  <2>1. FsmType' BY DEF FsmType, States
  <2>2. FlagsType' BY DEF FlagsType
  <2>3. CountsType' BY SocketsAssumption DEF CountsType, ServerListed, DriverType
  <2>4. DriverType' BY DEF DriverType, Events
  <2> QED BY <2>1, <2>2, <2>3, <2>4
<1>17. CASE InitExpires
  <2> USE <1>17 DEF InitExpires
  <2>1. FsmType' BY DEF FsmType, States
  <2>2. FlagsType' BY DEF FlagsType
  <2>3. CountsType' BY SocketsAssumption DEF CountsType, ServerListed, DriverType
  <2>4. DriverType' BY DEF DriverType, Events
  <2> QED BY <2>1, <2>2, <2>3, <2>4
<1>18. CASE EnterCheck
  <2> USE <1>18 DEF EnterCheck
  <2>1. FsmType' BY DEF FsmType, States
  <2>2. FlagsType' BY DEF FlagsType
  <2>3. CountsType' BY SocketsAssumption DEF CountsType, ServerListed, DriverType
  <2>4. DriverType' BY DEF DriverType, Events
  <2> QED BY <2>1, <2>2, <2>3, <2>4
<1>19. ASSUME NEW t \in BOOLEAN, Check(t) PROVE TypeOK'
  <2> USE <1>19 DEF Check
  <2>1. FsmType' BY DEF FsmType, States
  <2>2. FlagsType' BY DEF FlagsType
  <2>3. CountsType' BY SocketsAssumption DEF CountsType, ServerListed, DriverType
  <2>4. DriverType' BY DEF DriverType, Events
  <2> QED BY <2>1, <2>2, <2>3, <2>4
<1>20. CASE Disconnected
  <2> USE <1>20 DEF Disconnected
  <2>1. FsmType' BY DEF FsmType, States
  <2>2. FlagsType' BY DEF FlagsType
  <2>3. CountsType' BY SocketsAssumption DEF CountsType, ServerListed, DriverType
  <2>4. DriverType' BY DEF DriverType, Events
  <2> QED BY <2>1, <2>2, <2>3, <2>4
<1>21. ASSUME NEW b \in BOOLEAN, EnterListening(b) PROVE TypeOK'
  <2> USE <1>21 DEF EnterListening, EnableAp, CreateServerSocket
  <2>1. FsmType' BY DEF FsmType, States
  <2>2. FlagsType' BY DEF FlagsType
  <2>3. CountsType' BY SocketsAssumption DEF CountsType, ServerListed, DriverType
  <2>4. DriverType' BY DEF DriverType, Events
  <2> QED BY <2>1, <2>2, <2>3, <2>4
<1>22. ASSUME NEW b \in BOOLEAN, NEW t \in BOOLEAN, NEW t2 \in BOOLEAN, Listening(b, t, t2) PROVE TypeOK'
  <2> USE <1>22 DEF Listening, DeleteServerSocket, DisableAp
  <2>1. FsmType' BY DEF FsmType, States
  <2>2. FlagsType' BY DEF FlagsType
  <2>3. CountsType' BY SocketsAssumption DEF CountsType, ServerListed, DriverType
  <2>4. DriverType' BY DEF DriverType, Events
  <2> QED BY <2>1, <2>2, <2>3, <2>4
<1>23. ASSUME NEW b \in BOOLEAN, Connected(b) PROVE TypeOK'
  <2> USE <1>23 DEF Connected
  <2>1. FsmType' BY DEF FsmType, States
  <2>2. FlagsType' BY DEF FlagsType
  <2>3. CountsType' BY SocketsAssumption DEF CountsType, ServerListed, DriverType
  <2>4. DriverType' BY DEF DriverType, Events
  <2> QED BY <2>1, <2>2, <2>3, <2>4
<1>24. ASSUME NEW t \in BOOLEAN, WaitingData(t) PROVE TypeOK'
  <2> USE <1>24 DEF WaitingData, DeleteServerSocket, DisableAp
  <2>1. FsmType' BY DEF FsmType, States
  <2>2. FlagsType' BY DEF FlagsType
  <2>3. CountsType' BY SocketsAssumption DEF CountsType, ServerListed, DriverType
  <2>4. DriverType' BY DEF DriverType, Events
  <2> QED BY <2>1, <2>2, <2>3, <2>4
<1>25. CASE EnterWps
  <2> USE <1>25 DEF EnterWps, DeleteServerSocket, DisableAp
  <2>1. FsmType' BY DEF FsmType, States
  <2>2. FlagsType' BY DEF FlagsType
  <2>3. CountsType' BY SocketsAssumption DEF CountsType, ServerListed, DriverType
  <2>4. DriverType' BY DEF DriverType, Events
  <2> QED BY <2>1, <2>2, <2>3, <2>4
<1>26. ASSUME NEW b \in BOOLEAN, NEW t \in BOOLEAN, WpsMode(b, t) PROVE TypeOK'
  <2> USE <1>26 DEF WpsMode
  <2>1. FsmType' BY DEF FsmType, States
  <2>2. FlagsType' BY DEF FlagsType
  <2>3. CountsType' BY SocketsAssumption DEF CountsType, ServerListed, DriverType
  <2>4. DriverType' BY DEF DriverType, Events
  <2> QED BY <2>1, <2>2, <2>3, <2>4
<1>27. CASE EnterConnecting
  <2> USE <1>27 DEF EnterConnecting
  <2>1. FsmType' BY DEF FsmType, States
  <2>2. FlagsType' BY DEF FlagsType
  <2>3. CountsType' BY SocketsAssumption DEF CountsType, ServerListed, DriverType
  <2>4. DriverType' BY DEF DriverType, Events
  <2> QED BY <2>1, <2>2, <2>3, <2>4
<1>28. CASE ConnectingExpires
  <2> USE <1>28 DEF ConnectingExpires
  <2>1. FsmType' BY DEF FsmType, States
  <2>2. FlagsType' BY DEF FlagsType
  <2>3. CountsType' BY SocketsAssumption DEF CountsType, ServerListed, DriverType
  <2>4. DriverType' BY DEF DriverType, Events
  <2> QED BY <2>1, <2>2, <2>3, <2>4
<1>29. CASE NotConnectedExpires
  <2> USE <1>29 DEF NotConnectedExpires
  <2>1. FsmType' BY DEF FsmType, States
  <2>2. FlagsType' BY DEF FlagsType
  <2>3. CountsType' BY SocketsAssumption DEF CountsType, ServerListed, DriverType
  <2>4. DriverType' BY DEF DriverType, Events
  <2> QED BY <2>1, <2>2, <2>3, <2>4
<1>30. CASE UNCHANGED vars BY <1>30 DEF FsmType, FlagsType, CountsType, DriverType
<1> QED
  BY <1>1, <1>2, <1>3, <1>4, <1>5, <1>6, <1>7, <1>8, <1>9, <1>10, <1>11, <1>12,
     <1>13, <1>14, <1>15, <1>16, <1>17, <1>18, <1>19, <1>20, <1>21, <1>22, <1>23, <1>24,
     <1>25, <1>26, <1>27, <1>28, <1>29, <1>30
     DEF Next, Driver, Callbacks, Handler

\* A server socket keeps its entry.
LEMMA ListedStep == TypeInv /\ [Next]_vars => ServerListed'
<1> SUFFICES ASSUME TypeInv, [Next]_vars PROVE ServerListed'
  OBVIOUS
<1> USE DEF vars, fsmVars, flags, apVars, serverVars, driverVars, counts, history,
            Goto, Stay, Pass, Entry, Later, Button, Fault, Tell, Taken, Next_event, Overdue,
            TypeInv, TypeOK, CountsType, DriverType, ServerListed
<1>1. CASE DriverConnects
  BY <1>1, SocketsAssumption DEF DriverConnects
<1>2. CASE DriverDisconnects
  BY <1>2, SocketsAssumption DEF DriverDisconnects
<1>3. CASE DriverGetsAddress
  BY <1>3, SocketsAssumption DEF DriverGetsAddress
<1>4. CASE WpsAnswers
  BY <1>4, SocketsAssumption DEF WpsAnswers
<1>5. CASE PhoneJoins
  BY <1>5, SocketsAssumption DEF PhoneJoins
<1>6. CASE PhoneLeaves
  BY <1>6, SocketsAssumption DEF PhoneLeaves
<1>7. CASE CbConnected
  BY <1>7, SocketsAssumption DEF CbConnected
<1>8. CASE CbDisconnected
  BY <1>8, SocketsAssumption DEF CbDisconnected
<1>9. CASE CbDhcp
  BY <1>9, SocketsAssumption DEF CbDhcp
<1>10. CASE CbWps
  BY <1>10, SocketsAssumption DEF CbWps
<1>11. CASE ServerListens
  BY <1>11, SocketsAssumption DEF ServerListens
<1>12. CASE ServerFails
  BY <1>12, SocketsAssumption DEF ServerFails
<1>13. CASE ClientAccepted
  BY <1>13, SocketsAssumption DEF ClientAccepted
<1>14. CASE ClientData
  BY <1>14, SocketsAssumption DEF ClientData
<1>15. CASE ClientGone
  BY <1>15, SocketsAssumption DEF ClientGone
<1>16. ASSUME NEW s \in States, EnterTimed(s) PROVE ServerListed'
  BY <1>16, SocketsAssumption DEF EnterTimed
<1>17. CASE InitExpires
  BY <1>17, SocketsAssumption DEF InitExpires
<1>18. CASE EnterCheck
  BY <1>18, SocketsAssumption DEF EnterCheck
<1>19. ASSUME NEW t \in BOOLEAN, Check(t) PROVE ServerListed'
  BY <1>19, SocketsAssumption DEF Check
<1>20. CASE Disconnected
  BY <1>20, SocketsAssumption DEF Disconnected
<1>21. ASSUME NEW b \in BOOLEAN, EnterListening(b) PROVE ServerListed'
  BY <1>21, SocketsAssumption DEF EnterListening, EnableAp, CreateServerSocket
<1>22. ASSUME NEW b \in BOOLEAN, NEW t \in BOOLEAN, NEW t2 \in BOOLEAN, Listening(b, t, t2) PROVE ServerListed'
  BY <1>22, SocketsAssumption DEF Listening, DeleteServerSocket, DisableAp
<1>23. ASSUME NEW b \in BOOLEAN, Connected(b) PROVE ServerListed'
  BY <1>23, SocketsAssumption DEF Connected
<1>24. ASSUME NEW t \in BOOLEAN, WaitingData(t) PROVE ServerListed'
  BY <1>24, SocketsAssumption DEF WaitingData, DeleteServerSocket, DisableAp
<1>25. CASE EnterWps
  BY <1>25, SocketsAssumption DEF EnterWps, DeleteServerSocket, DisableAp
<1>26. ASSUME NEW b \in BOOLEAN, NEW t \in BOOLEAN, WpsMode(b, t) PROVE ServerListed'
  BY <1>26, SocketsAssumption DEF WpsMode
<1>27. CASE EnterConnecting
  BY <1>27, SocketsAssumption DEF EnterConnecting
<1>28. CASE ConnectingExpires
  BY <1>28, SocketsAssumption DEF ConnectingExpires
<1>29. CASE NotConnectedExpires
  BY <1>29, SocketsAssumption DEF NotConnectedExpires
<1>30. CASE UNCHANGED vars BY <1>30 
<1> QED
  BY <1>1, <1>2, <1>3, <1>4, <1>5, <1>6, <1>7, <1>8, <1>9, <1>10, <1>11, <1>12,
     <1>13, <1>14, <1>15, <1>16, <1>17, <1>18, <1>19, <1>20, <1>21, <1>22, <1>23, <1>24,
     <1>25, <1>26, <1>27, <1>28, <1>29, <1>30
     DEF Next, Driver, Callbacks, Handler

\* The modes stay where they belong.
LEMMA ModesStep == TypeInv /\ ModesInv /\ [Next]_vars => ModesInv'
<1> SUFFICES ASSUME TypeInv, ModesInv, [Next]_vars PROVE ModesInv'
  OBVIOUS
<1> USE DEF vars, fsmVars, flags, apVars, serverVars, driverVars, counts, history,
            Goto, Stay, Pass, Entry, Later, Button, Fault, Tell, Taken, Next_event, Overdue,
            TypeInv, TypeOK, FsmType, FlagsType, ModesInv
<1>1. CASE DriverConnects
  <2> USE <1>1 DEF DriverConnects
  <2>1. ApOnlyWhileListening' BY DEF ApOnlyWhileListening
  <2>2. WpsOnlyInModoWps' BY DEF WpsOnlyInModoWps, WpsOverWithData
  <2>3. PhoneNeedsAp' BY DEF PhoneNeedsAp, ApOnlyWhileListening
  <2>4. WpsOverWithData' BY DEF ApOnlyWhileListening, WpsOnlyInModoWps, PhoneNeedsAp, WpsOverWithData
  <2> QED BY <2>1, <2>2, <2>3, <2>4
<1>2. CASE DriverDisconnects
  <2> USE <1>2 DEF DriverDisconnects
  <2>1. ApOnlyWhileListening' BY DEF ApOnlyWhileListening
  <2>2. WpsOnlyInModoWps' BY DEF WpsOnlyInModoWps, WpsOverWithData
  <2>3. PhoneNeedsAp' BY DEF PhoneNeedsAp, ApOnlyWhileListening
  <2>4. WpsOverWithData' BY DEF ApOnlyWhileListening, WpsOnlyInModoWps, PhoneNeedsAp, WpsOverWithData
  <2> QED BY <2>1, <2>2, <2>3, <2>4
<1>3. CASE DriverGetsAddress
  <2> USE <1>3 DEF DriverGetsAddress
  <2>1. ApOnlyWhileListening' BY DEF ApOnlyWhileListening
  <2>2. WpsOnlyInModoWps' BY DEF WpsOnlyInModoWps, WpsOverWithData
  <2>3. PhoneNeedsAp' BY DEF PhoneNeedsAp, ApOnlyWhileListening
  <2>4. WpsOverWithData' BY DEF ApOnlyWhileListening, WpsOnlyInModoWps, PhoneNeedsAp, WpsOverWithData
  <2> QED BY <2>1, <2>2, <2>3, <2>4
<1>4. CASE WpsAnswers
  <2> USE <1>4 DEF WpsAnswers
  <2>1. ApOnlyWhileListening' BY DEF ApOnlyWhileListening
  <2>2. WpsOnlyInModoWps' BY DEF WpsOnlyInModoWps, WpsOverWithData
  <2>3. PhoneNeedsAp' BY DEF PhoneNeedsAp, ApOnlyWhileListening
  <2>4. WpsOverWithData' BY DEF ApOnlyWhileListening, WpsOnlyInModoWps, PhoneNeedsAp, WpsOverWithData
  <2> QED BY <2>1, <2>2, <2>3, <2>4
<1>5. CASE PhoneJoins
  <2> USE <1>5 DEF PhoneJoins
  <2>1. ApOnlyWhileListening' BY DEF ApOnlyWhileListening
  <2>2. WpsOnlyInModoWps' BY DEF WpsOnlyInModoWps, WpsOverWithData
  <2>3. PhoneNeedsAp' BY DEF PhoneNeedsAp, ApOnlyWhileListening
  <2>4. WpsOverWithData' BY DEF ApOnlyWhileListening, WpsOnlyInModoWps, PhoneNeedsAp, WpsOverWithData
  <2> QED BY <2>1, <2>2, <2>3, <2>4
<1>6. CASE PhoneLeaves
  <2> USE <1>6 DEF PhoneLeaves
  <2>1. ApOnlyWhileListening' BY DEF ApOnlyWhileListening
  <2>2. WpsOnlyInModoWps' BY DEF WpsOnlyInModoWps, WpsOverWithData
  <2>3. PhoneNeedsAp' BY DEF PhoneNeedsAp, ApOnlyWhileListening
  <2>4. WpsOverWithData' BY DEF ApOnlyWhileListening, WpsOnlyInModoWps, PhoneNeedsAp, WpsOverWithData
  <2> QED BY <2>1, <2>2, <2>3, <2>4
<1>7. CASE CbConnected
  <2> USE <1>7 DEF CbConnected
  <2>1. ApOnlyWhileListening' BY DEF ApOnlyWhileListening
  <2>2. WpsOnlyInModoWps' BY DEF WpsOnlyInModoWps, WpsOverWithData
  <2>3. PhoneNeedsAp' BY DEF PhoneNeedsAp, ApOnlyWhileListening
  <2>4. WpsOverWithData' BY DEF ApOnlyWhileListening, WpsOnlyInModoWps, PhoneNeedsAp, WpsOverWithData
  <2> QED BY <2>1, <2>2, <2>3, <2>4
<1>8. CASE CbDisconnected
  <2> USE <1>8 DEF CbDisconnected
  <2>1. ApOnlyWhileListening' BY DEF ApOnlyWhileListening
  <2>2. WpsOnlyInModoWps' BY DEF WpsOnlyInModoWps, WpsOverWithData
  <2>3. PhoneNeedsAp' BY DEF PhoneNeedsAp, ApOnlyWhileListening
  <2>4. WpsOverWithData' BY DEF ApOnlyWhileListening, WpsOnlyInModoWps, PhoneNeedsAp, WpsOverWithData
  <2> QED BY <2>1, <2>2, <2>3, <2>4
<1>9. CASE CbDhcp
  <2> USE <1>9 DEF CbDhcp
  <2>1. ApOnlyWhileListening' BY DEF ApOnlyWhileListening
  <2>2. WpsOnlyInModoWps' BY DEF WpsOnlyInModoWps, WpsOverWithData
  <2>3. PhoneNeedsAp' BY DEF PhoneNeedsAp, ApOnlyWhileListening
  <2>4. WpsOverWithData' BY DEF ApOnlyWhileListening, WpsOnlyInModoWps, PhoneNeedsAp, WpsOverWithData
  <2> QED BY <2>1, <2>2, <2>3, <2>4
<1>10. CASE CbWps
  <2> USE <1>10 DEF CbWps
  <2>1. ApOnlyWhileListening' BY DEF ApOnlyWhileListening
  <2>2. WpsOnlyInModoWps' BY DEF WpsOnlyInModoWps, WpsOverWithData
  <2>3. PhoneNeedsAp' BY DEF PhoneNeedsAp, ApOnlyWhileListening
  <2>4. WpsOverWithData' BY DEF ApOnlyWhileListening, WpsOnlyInModoWps, PhoneNeedsAp, WpsOverWithData
  <2> QED BY <2>1, <2>2, <2>3, <2>4
<1>11. CASE ServerListens
  <2> USE <1>11 DEF ServerListens
  <2>1. ApOnlyWhileListening' BY DEF ApOnlyWhileListening
  <2>2. WpsOnlyInModoWps' BY DEF WpsOnlyInModoWps, WpsOverWithData
  <2>3. PhoneNeedsAp' BY DEF PhoneNeedsAp, ApOnlyWhileListening
  <2>4. WpsOverWithData' BY DEF ApOnlyWhileListening, WpsOnlyInModoWps, PhoneNeedsAp, WpsOverWithData
  <2> QED BY <2>1, <2>2, <2>3, <2>4
<1>12. CASE ServerFails
  <2> USE <1>12 DEF ServerFails
  <2>1. ApOnlyWhileListening' BY DEF ApOnlyWhileListening
  <2>2. WpsOnlyInModoWps' BY DEF WpsOnlyInModoWps, WpsOverWithData
  <2>3. PhoneNeedsAp' BY DEF PhoneNeedsAp, ApOnlyWhileListening
  <2>4. WpsOverWithData' BY DEF ApOnlyWhileListening, WpsOnlyInModoWps, PhoneNeedsAp, WpsOverWithData
  <2> QED BY <2>1, <2>2, <2>3, <2>4
<1>13. CASE ClientAccepted
  <2> USE <1>13 DEF ClientAccepted
  <2>1. ApOnlyWhileListening' BY DEF ApOnlyWhileListening
  <2>2. WpsOnlyInModoWps' BY DEF WpsOnlyInModoWps, WpsOverWithData
  <2>3. PhoneNeedsAp' BY DEF PhoneNeedsAp, ApOnlyWhileListening
  <2>4. WpsOverWithData' BY DEF ApOnlyWhileListening, WpsOnlyInModoWps, PhoneNeedsAp, WpsOverWithData
  <2> QED BY <2>1, <2>2, <2>3, <2>4
<1>14. CASE ClientData
  <2> USE <1>14 DEF ClientData
  <2>1. ApOnlyWhileListening' BY DEF ApOnlyWhileListening
  <2>2. WpsOnlyInModoWps' BY DEF WpsOnlyInModoWps, WpsOverWithData
  <2>3. PhoneNeedsAp' BY DEF PhoneNeedsAp, ApOnlyWhileListening
  <2>4. WpsOverWithData' BY DEF ApOnlyWhileListening, WpsOnlyInModoWps, PhoneNeedsAp, WpsOverWithData
  <2> QED BY <2>1, <2>2, <2>3, <2>4
<1>15. CASE ClientGone
  <2> USE <1>15 DEF ClientGone
  <2>1. ApOnlyWhileListening' BY DEF ApOnlyWhileListening
  <2>2. WpsOnlyInModoWps' BY DEF WpsOnlyInModoWps, WpsOverWithData
  <2>3. PhoneNeedsAp' BY DEF PhoneNeedsAp, ApOnlyWhileListening
  <2>4. WpsOverWithData' BY DEF ApOnlyWhileListening, WpsOnlyInModoWps, PhoneNeedsAp, WpsOverWithData
  <2> QED BY <2>1, <2>2, <2>3, <2>4
<1>16. ASSUME NEW s \in States, EnterTimed(s) PROVE ModesInv'
  <2> USE <1>16 DEF EnterTimed
  <2>1. ApOnlyWhileListening' BY DEF ApOnlyWhileListening
  <2>2. WpsOnlyInModoWps' BY DEF WpsOnlyInModoWps, WpsOverWithData
  <2>3. PhoneNeedsAp' BY DEF PhoneNeedsAp, ApOnlyWhileListening
  <2>4. WpsOverWithData' BY DEF ApOnlyWhileListening, WpsOnlyInModoWps, PhoneNeedsAp, WpsOverWithData
  <2> QED BY <2>1, <2>2, <2>3, <2>4
<1>17. CASE InitExpires
  <2> USE <1>17 DEF InitExpires
  <2>1. ApOnlyWhileListening' BY DEF ApOnlyWhileListening
  <2>2. WpsOnlyInModoWps' BY DEF WpsOnlyInModoWps, WpsOverWithData
  <2>3. PhoneNeedsAp' BY DEF PhoneNeedsAp, ApOnlyWhileListening
  <2>4. WpsOverWithData' BY DEF ApOnlyWhileListening, WpsOnlyInModoWps, PhoneNeedsAp, WpsOverWithData
  <2> QED BY <2>1, <2>2, <2>3, <2>4
<1>18. CASE EnterCheck
  <2> USE <1>18 DEF EnterCheck
  <2>1. ApOnlyWhileListening' BY DEF ApOnlyWhileListening
  <2>2. WpsOnlyInModoWps' BY DEF WpsOnlyInModoWps, WpsOverWithData
  <2>3. PhoneNeedsAp' BY DEF PhoneNeedsAp, ApOnlyWhileListening
  <2>4. WpsOverWithData' BY DEF ApOnlyWhileListening, WpsOnlyInModoWps, PhoneNeedsAp, WpsOverWithData
  <2> QED BY <2>1, <2>2, <2>3, <2>4
<1>19. ASSUME NEW t \in BOOLEAN, Check(t) PROVE ModesInv'
  <2> USE <1>19 DEF Check
  <2>1. ApOnlyWhileListening' BY DEF ApOnlyWhileListening
  <2>2. WpsOnlyInModoWps' BY DEF WpsOnlyInModoWps, WpsOverWithData
  <2>3. PhoneNeedsAp' BY DEF PhoneNeedsAp, ApOnlyWhileListening
  <2>4. WpsOverWithData' BY DEF ApOnlyWhileListening, WpsOnlyInModoWps, PhoneNeedsAp, WpsOverWithData
  <2> QED BY <2>1, <2>2, <2>3, <2>4
<1>20. CASE Disconnected
  <2> USE <1>20 DEF Disconnected
  <2>1. ApOnlyWhileListening' BY DEF ApOnlyWhileListening
  <2>2. WpsOnlyInModoWps' BY DEF WpsOnlyInModoWps, WpsOverWithData
  <2>3. PhoneNeedsAp' BY DEF PhoneNeedsAp, ApOnlyWhileListening
  <2>4. WpsOverWithData' BY DEF ApOnlyWhileListening, WpsOnlyInModoWps, PhoneNeedsAp, WpsOverWithData
  <2> QED BY <2>1, <2>2, <2>3, <2>4
<1>21. ASSUME NEW b \in BOOLEAN, EnterListening(b) PROVE ModesInv'
  <2> USE <1>21 DEF EnterListening, EnableAp, CreateServerSocket
  <2>1. ApOnlyWhileListening' BY DEF ApOnlyWhileListening
  <2>2. WpsOnlyInModoWps' BY DEF WpsOnlyInModoWps, WpsOverWithData
  <2>3. PhoneNeedsAp' BY DEF PhoneNeedsAp, ApOnlyWhileListening
  <2>4. WpsOverWithData' BY DEF ApOnlyWhileListening, WpsOnlyInModoWps, PhoneNeedsAp, WpsOverWithData
  <2> QED BY <2>1, <2>2, <2>3, <2>4
<1>22. ASSUME NEW b \in BOOLEAN, NEW t \in BOOLEAN, NEW t2 \in BOOLEAN, Listening(b, t, t2) PROVE ModesInv'
  <2> USE <1>22 DEF Listening, DeleteServerSocket, DisableAp
  <2>1. ApOnlyWhileListening' BY DEF ApOnlyWhileListening
  <2>2. WpsOnlyInModoWps' BY DEF WpsOnlyInModoWps, WpsOverWithData
  <2>3. PhoneNeedsAp' BY DEF PhoneNeedsAp, ApOnlyWhileListening
  <2>4. WpsOverWithData' BY DEF ApOnlyWhileListening, WpsOnlyInModoWps, PhoneNeedsAp, WpsOverWithData
  <2> QED BY <2>1, <2>2, <2>3, <2>4
<1>23. ASSUME NEW b \in BOOLEAN, Connected(b) PROVE ModesInv'
  <2> USE <1>23 DEF Connected
  <2>1. ApOnlyWhileListening' BY DEF ApOnlyWhileListening
  <2>2. WpsOnlyInModoWps' BY DEF WpsOnlyInModoWps, WpsOverWithData
  <2>3. PhoneNeedsAp' BY DEF PhoneNeedsAp, ApOnlyWhileListening
  <2>4. WpsOverWithData' BY DEF ApOnlyWhileListening, WpsOnlyInModoWps, PhoneNeedsAp, WpsOverWithData
  <2> QED BY <2>1, <2>2, <2>3, <2>4
<1>24. ASSUME NEW t \in BOOLEAN, WaitingData(t) PROVE ModesInv'
  <2> USE <1>24 DEF WaitingData, DeleteServerSocket, DisableAp
  <2>1. ApOnlyWhileListening' BY DEF ApOnlyWhileListening
  <2>2. WpsOnlyInModoWps' BY DEF WpsOnlyInModoWps, WpsOverWithData
  <2>3. PhoneNeedsAp' BY DEF PhoneNeedsAp, ApOnlyWhileListening
  <2>4. WpsOverWithData' BY DEF ApOnlyWhileListening, WpsOnlyInModoWps, PhoneNeedsAp, WpsOverWithData
  <2> QED BY <2>1, <2>2, <2>3, <2>4
<1>25. CASE EnterWps
  <2> USE <1>25 DEF EnterWps, DeleteServerSocket, DisableAp
  <2>1. ApOnlyWhileListening' BY DEF ApOnlyWhileListening
  <2>2. WpsOnlyInModoWps' BY DEF WpsOnlyInModoWps, WpsOverWithData
  <2>3. PhoneNeedsAp' BY DEF PhoneNeedsAp, ApOnlyWhileListening
  <2>4. WpsOverWithData' BY DEF ApOnlyWhileListening, WpsOnlyInModoWps, PhoneNeedsAp, WpsOverWithData
  <2> QED BY <2>1, <2>2, <2>3, <2>4
<1>26. ASSUME NEW b \in BOOLEAN, NEW t \in BOOLEAN, WpsMode(b, t) PROVE ModesInv'
  <2> USE <1>26 DEF WpsMode
  <2>1. ApOnlyWhileListening' BY DEF ApOnlyWhileListening
  <2>2. WpsOnlyInModoWps' BY DEF WpsOnlyInModoWps, WpsOverWithData
  <2>3. PhoneNeedsAp' BY DEF PhoneNeedsAp, ApOnlyWhileListening
  <2>4. WpsOverWithData' BY DEF ApOnlyWhileListening, WpsOnlyInModoWps, PhoneNeedsAp, WpsOverWithData
  <2> QED BY <2>1, <2>2, <2>3, <2>4
<1>27. CASE EnterConnecting
  <2> USE <1>27 DEF EnterConnecting
  <2>1. ApOnlyWhileListening' BY DEF ApOnlyWhileListening
  <2>2. WpsOnlyInModoWps' BY DEF WpsOnlyInModoWps, WpsOverWithData
  <2>3. PhoneNeedsAp' BY DEF PhoneNeedsAp, ApOnlyWhileListening
  <2>4. WpsOverWithData' BY DEF ApOnlyWhileListening, WpsOnlyInModoWps, PhoneNeedsAp, WpsOverWithData
  <2> QED BY <2>1, <2>2, <2>3, <2>4
<1>28. CASE ConnectingExpires
  <2> USE <1>28 DEF ConnectingExpires
  <2>1. ApOnlyWhileListening' BY DEF ApOnlyWhileListening
  <2>2. WpsOnlyInModoWps' BY DEF WpsOnlyInModoWps, WpsOverWithData
  <2>3. PhoneNeedsAp' BY DEF PhoneNeedsAp, ApOnlyWhileListening
  <2>4. WpsOverWithData' BY DEF ApOnlyWhileListening, WpsOnlyInModoWps, PhoneNeedsAp, WpsOverWithData
  <2> QED BY <2>1, <2>2, <2>3, <2>4
<1>29. CASE NotConnectedExpires
  <2> USE <1>29 DEF NotConnectedExpires
  <2>1. ApOnlyWhileListening' BY DEF ApOnlyWhileListening
  <2>2. WpsOnlyInModoWps' BY DEF WpsOnlyInModoWps, WpsOverWithData
  <2>3. PhoneNeedsAp' BY DEF PhoneNeedsAp, ApOnlyWhileListening
  <2>4. WpsOverWithData' BY DEF ApOnlyWhileListening, WpsOnlyInModoWps, PhoneNeedsAp, WpsOverWithData
  <2> QED BY <2>1, <2>2, <2>3, <2>4
<1>30. CASE UNCHANGED vars BY <1>30 DEF ApOnlyWhileListening, WpsOnlyInModoWps, PhoneNeedsAp, WpsOverWithData
<1> QED
  BY <1>1, <1>2, <1>3, <1>4, <1>5, <1>6, <1>7, <1>8, <1>9, <1>10, <1>11, <1>12,
     <1>13, <1>14, <1>15, <1>16, <1>17, <1>18, <1>19, <1>20, <1>21, <1>22, <1>23, <1>24,
     <1>25, <1>26, <1>27, <1>28, <1>29, <1>30
     DEF Next, Driver, Callbacks, Handler

\* The types and the modes, together inductive.
WiFiInv == TypeInv /\ ModesInv

\* The manager never leaves the values the code gives its variables; in particular the
\* list of sockets keeps between none and MAX_N_SOCKETS entries, whatever is late.
THEOREM WiFiInvariant == Spec => []WiFiInv
<1>1. Init => WiFiInv
  <2> SUFFICES ASSUME Init PROVE WiFiInv
    OBVIOUS
  <2> USE DEF Init
  <2>1. FsmType /\ FlagsType BY DEF FsmType, FlagsType, States
  <2>2. CountsType /\ ServerListed BY SocketsAssumption DEF CountsType, ServerListed
  <2>3. DriverType BY DEF DriverType, Events
  <2>4. ModesInv
    BY DEF ModesInv, ApOnlyWhileListening, WpsOnlyInModoWps, PhoneNeedsAp, WpsOverWithData
  <2> QED BY <2>1, <2>2, <2>3, <2>4 DEF WiFiInv, TypeInv, TypeOK
<1>2. WiFiInv /\ [Next]_vars => WiFiInv'
  BY TypeStep, ListedStep, ModesStep DEF WiFiInv, TypeInv
<1> QED BY <1>1, <1>2, PTL DEF Spec

\* Type correctness.
THEOREM WiFiTypeCorrect == Spec => []TypeOK
<1>1. WiFiInv => TypeOK BY DEF WiFiInv, TypeInv
<1> QED BY <1>1, WiFiInvariant, PTL

\* However late the driver tells what happened, the access point is never left on in a
\* state that does not serve the app (WiFiManager.c:482-600).
THEOREM WiFiApOnlyWhileListening == Spec => []ApOnlyWhileListening
<1>1. WiFiInv => ApOnlyWhileListening BY DEF WiFiInv, ModesInv
<1> QED BY <1>1, WiFiInvariant, PTL

\* However late the driver tells what happened, WPS is on only while the manager waits
\* for it, unless data of a phone took the manager away as it started (WiFiManager.c:607-656).
THEOREM WiFiWpsOnlyInModoWps == Spec => []WpsOnlyInModoWps
<1>1. WiFiInv => WpsOnlyInModoWps BY DEF WiFiInv, ModesInv
<1> QED BY <1>1, WiFiInvariant, PTL
\* The list of sockets stays in order.
LEMMA EntriesStep == LateEvents = FALSE /\ WiFiInv /\ EntriesInv /\ [Next]_vars => EntriesInv'
<1> SUFFICES ASSUME LateEvents = FALSE, WiFiInv, EntriesInv, [Next]_vars PROVE EntriesInv'
  OBVIOUS
<1> USE DEF vars, fsmVars, flags, apVars, serverVars, driverVars, counts, history,
            Goto, Stay, Pass, Entry, Later, Button, Fault, Tell, Taken, Next_event, Overdue,
            WiFiInv, TypeInv, TypeOK, FsmType, FlagsType, CountsType, DriverType, ModesInv,
            Unspoilt, Serving, InWps, Orderly, EntriesInv, ApOnlyWhileListening
<1>1. CASE DriverConnects
  <2> USE <1>1 DEF DriverConnects
  <2>1. Unspoilt' => EntryOfServer' BY SocketsAssumption DEF EntryOfServer, NoneOtherwise, DataWhereTaken
  <2>2. Unspoilt' => NoneOtherwise' BY SocketsAssumption DEF EntryOfServer, NoneOtherwise, DataWhereTaken
  <2>3. Unspoilt' => DataWhereTaken' BY DEF DataWhereTaken, WpsNewsInWps, PhoneNeedsAp
  <2>4. Unspoilt' => WpsNewsInWps' BY DEF WpsNewsInWps, WpsOnlyInModoWps, WpsNotLeft
  <2>5. Unspoilt' => WpsNotLeft' BY DEF WpsNotLeft
  <2> QED BY <2>1, <2>2, <2>3, <2>4, <2>5
<1>2. CASE DriverDisconnects
  <2> USE <1>2 DEF DriverDisconnects
  <2>1. Unspoilt' => EntryOfServer' BY SocketsAssumption DEF EntryOfServer, NoneOtherwise, DataWhereTaken
  <2>2. Unspoilt' => NoneOtherwise' BY SocketsAssumption DEF EntryOfServer, NoneOtherwise, DataWhereTaken
  <2>3. Unspoilt' => DataWhereTaken' BY DEF DataWhereTaken, WpsNewsInWps, PhoneNeedsAp
  <2>4. Unspoilt' => WpsNewsInWps' BY DEF WpsNewsInWps, WpsOnlyInModoWps, WpsNotLeft
  <2>5. Unspoilt' => WpsNotLeft' BY DEF WpsNotLeft
  <2> QED BY <2>1, <2>2, <2>3, <2>4, <2>5
<1>3. CASE DriverGetsAddress
  <2> USE <1>3 DEF DriverGetsAddress
  <2>1. Unspoilt' => EntryOfServer' BY SocketsAssumption DEF EntryOfServer, NoneOtherwise, DataWhereTaken
  <2>2. Unspoilt' => NoneOtherwise' BY SocketsAssumption DEF EntryOfServer, NoneOtherwise, DataWhereTaken
  <2>3. Unspoilt' => DataWhereTaken' BY DEF DataWhereTaken, WpsNewsInWps, PhoneNeedsAp
  <2>4. Unspoilt' => WpsNewsInWps' BY DEF WpsNewsInWps, WpsOnlyInModoWps, WpsNotLeft
  <2>5. Unspoilt' => WpsNotLeft' BY DEF WpsNotLeft
  <2> QED BY <2>1, <2>2, <2>3, <2>4, <2>5
<1>4. CASE WpsAnswers
  <2> USE <1>4 DEF WpsAnswers
  <2>1. Unspoilt' => EntryOfServer' BY SocketsAssumption DEF EntryOfServer, NoneOtherwise, DataWhereTaken
  <2>2. Unspoilt' => NoneOtherwise' BY SocketsAssumption DEF EntryOfServer, NoneOtherwise, DataWhereTaken
  <2>3. Unspoilt' => DataWhereTaken' BY DEF DataWhereTaken, WpsNewsInWps, PhoneNeedsAp
  <2>4. Unspoilt' => WpsNewsInWps' BY DEF WpsNewsInWps, WpsOnlyInModoWps, WpsNotLeft
  <2>5. Unspoilt' => WpsNotLeft' BY DEF WpsNotLeft
  <2> QED BY <2>1, <2>2, <2>3, <2>4, <2>5
<1>5. CASE PhoneJoins
  <2> USE <1>5 DEF PhoneJoins
  <2>1. Unspoilt' => EntryOfServer' BY SocketsAssumption DEF EntryOfServer, NoneOtherwise, DataWhereTaken
  <2>2. Unspoilt' => NoneOtherwise' BY SocketsAssumption DEF EntryOfServer, NoneOtherwise, DataWhereTaken
  <2>3. Unspoilt' => DataWhereTaken' BY DEF DataWhereTaken, WpsNewsInWps, PhoneNeedsAp
  <2>4. Unspoilt' => WpsNewsInWps' BY DEF WpsNewsInWps, WpsOnlyInModoWps, WpsNotLeft
  <2>5. Unspoilt' => WpsNotLeft' BY DEF WpsNotLeft
  <2> QED BY <2>1, <2>2, <2>3, <2>4, <2>5
<1>6. CASE PhoneLeaves
  <2> USE <1>6 DEF PhoneLeaves
  <2>1. Unspoilt' => EntryOfServer' BY SocketsAssumption DEF EntryOfServer, NoneOtherwise, DataWhereTaken
  <2>2. Unspoilt' => NoneOtherwise' BY SocketsAssumption DEF EntryOfServer, NoneOtherwise, DataWhereTaken
  <2>3. Unspoilt' => DataWhereTaken' BY DEF DataWhereTaken, WpsNewsInWps, PhoneNeedsAp
  <2>4. Unspoilt' => WpsNewsInWps' BY DEF WpsNewsInWps, WpsOnlyInModoWps, WpsNotLeft
  <2>5. Unspoilt' => WpsNotLeft' BY DEF WpsNotLeft
  <2> QED BY <2>1, <2>2, <2>3, <2>4, <2>5
<1>7. CASE CbConnected
  <2> USE <1>7 DEF CbConnected
  <2>1. Unspoilt' => EntryOfServer' BY SocketsAssumption DEF EntryOfServer, NoneOtherwise, DataWhereTaken
  <2>2. Unspoilt' => NoneOtherwise' BY SocketsAssumption DEF EntryOfServer, NoneOtherwise, DataWhereTaken
  <2>3. Unspoilt' => DataWhereTaken' BY DEF DataWhereTaken, WpsNewsInWps, PhoneNeedsAp
  <2>4. Unspoilt' => WpsNewsInWps' BY DEF WpsNewsInWps, WpsOnlyInModoWps, WpsNotLeft
  <2>5. Unspoilt' => WpsNotLeft' BY DEF WpsNotLeft
  <2> QED BY <2>1, <2>2, <2>3, <2>4, <2>5
<1>8. CASE CbDisconnected
  <2> USE <1>8 DEF CbDisconnected
  <2>1. Unspoilt' => EntryOfServer' BY SocketsAssumption DEF EntryOfServer, NoneOtherwise, DataWhereTaken
  <2>2. Unspoilt' => NoneOtherwise' BY SocketsAssumption DEF EntryOfServer, NoneOtherwise, DataWhereTaken
  <2>3. Unspoilt' => DataWhereTaken' BY DEF DataWhereTaken, WpsNewsInWps, PhoneNeedsAp
  <2>4. Unspoilt' => WpsNewsInWps' BY DEF WpsNewsInWps, WpsOnlyInModoWps, WpsNotLeft
  <2>5. Unspoilt' => WpsNotLeft' BY DEF WpsNotLeft
  <2> QED BY <2>1, <2>2, <2>3, <2>4, <2>5
<1>9. CASE CbDhcp
  <2> USE <1>9 DEF CbDhcp
  <2>1. Unspoilt' => EntryOfServer' BY SocketsAssumption DEF EntryOfServer, NoneOtherwise, DataWhereTaken
  <2>2. Unspoilt' => NoneOtherwise' BY SocketsAssumption DEF EntryOfServer, NoneOtherwise, DataWhereTaken
  <2>3. Unspoilt' => DataWhereTaken' BY DEF DataWhereTaken, WpsNewsInWps, PhoneNeedsAp
  <2>4. Unspoilt' => WpsNewsInWps' BY DEF WpsNewsInWps, WpsOnlyInModoWps, WpsNotLeft
  <2>5. Unspoilt' => WpsNotLeft' BY DEF WpsNotLeft
  <2> QED BY <2>1, <2>2, <2>3, <2>4, <2>5
<1>10. CASE CbWps
  <2> USE <1>10 DEF CbWps
  <2>1. Unspoilt' => EntryOfServer' BY SocketsAssumption DEF EntryOfServer, NoneOtherwise, DataWhereTaken
  <2>2. Unspoilt' => NoneOtherwise' BY SocketsAssumption DEF EntryOfServer, NoneOtherwise, DataWhereTaken
  <2>3. Unspoilt' => DataWhereTaken' BY DEF DataWhereTaken, WpsNewsInWps, PhoneNeedsAp
  <2>4. Unspoilt' => WpsNewsInWps' BY DEF WpsNewsInWps, WpsOnlyInModoWps, WpsNotLeft
  <2>5. Unspoilt' => WpsNotLeft' BY DEF WpsNotLeft
  <2> QED BY <2>1, <2>2, <2>3, <2>4, <2>5
<1>11. CASE ServerListens
  <2> USE <1>11 DEF ServerListens
  <2>1. Unspoilt' => EntryOfServer' BY SocketsAssumption DEF EntryOfServer, NoneOtherwise, DataWhereTaken
  <2>2. Unspoilt' => NoneOtherwise' BY SocketsAssumption DEF EntryOfServer, NoneOtherwise, DataWhereTaken
  <2>3. Unspoilt' => DataWhereTaken' BY DEF DataWhereTaken, WpsNewsInWps, PhoneNeedsAp
  <2>4. Unspoilt' => WpsNewsInWps' BY DEF WpsNewsInWps, WpsOnlyInModoWps, WpsNotLeft
  <2>5. Unspoilt' => WpsNotLeft' BY DEF WpsNotLeft
  <2> QED BY <2>1, <2>2, <2>3, <2>4, <2>5
<1>12. CASE ServerFails
  <2> USE <1>12 DEF ServerFails
  <2>1. Unspoilt' => EntryOfServer' BY SocketsAssumption DEF EntryOfServer, NoneOtherwise, DataWhereTaken
  <2>2. Unspoilt' => NoneOtherwise' BY SocketsAssumption DEF EntryOfServer, NoneOtherwise, DataWhereTaken
  <2>3. Unspoilt' => DataWhereTaken' BY DEF DataWhereTaken, WpsNewsInWps, PhoneNeedsAp
  <2>4. Unspoilt' => WpsNewsInWps' BY DEF WpsNewsInWps, WpsOnlyInModoWps, WpsNotLeft
  <2>5. Unspoilt' => WpsNotLeft' BY DEF WpsNotLeft
  <2> QED BY <2>1, <2>2, <2>3, <2>4, <2>5
<1>13. CASE ClientAccepted
  <2> USE <1>13 DEF ClientAccepted
  <2>1. Unspoilt' => EntryOfServer' BY SocketsAssumption DEF EntryOfServer, NoneOtherwise, DataWhereTaken
  <2>2. Unspoilt' => NoneOtherwise' BY SocketsAssumption DEF EntryOfServer, NoneOtherwise, DataWhereTaken
  <2>3. Unspoilt' => DataWhereTaken' BY DEF DataWhereTaken, WpsNewsInWps, PhoneNeedsAp
  <2>4. Unspoilt' => WpsNewsInWps' BY DEF WpsNewsInWps, WpsOnlyInModoWps, WpsNotLeft
  <2>5. Unspoilt' => WpsNotLeft' BY DEF WpsNotLeft
  <2> QED BY <2>1, <2>2, <2>3, <2>4, <2>5
<1>14. CASE ClientData
  <2> USE <1>14 DEF ClientData
  <2>1. Unspoilt' => EntryOfServer' BY SocketsAssumption DEF EntryOfServer, NoneOtherwise, DataWhereTaken
  <2>2. Unspoilt' => NoneOtherwise' BY SocketsAssumption DEF EntryOfServer, NoneOtherwise, DataWhereTaken
  <2>3. Unspoilt' => DataWhereTaken' BY DEF DataWhereTaken, WpsNewsInWps, PhoneNeedsAp
  <2>4. Unspoilt' => WpsNewsInWps' BY DEF WpsNewsInWps, WpsOnlyInModoWps, WpsNotLeft
  <2>5. Unspoilt' => WpsNotLeft' BY DEF WpsNotLeft
  <2> QED BY <2>1, <2>2, <2>3, <2>4, <2>5
<1>15. CASE ClientGone
  <2> USE <1>15 DEF ClientGone
  <2>1. Unspoilt' => EntryOfServer' BY SocketsAssumption DEF EntryOfServer, NoneOtherwise, DataWhereTaken
  <2>2. Unspoilt' => NoneOtherwise' BY SocketsAssumption DEF EntryOfServer, NoneOtherwise, DataWhereTaken
  <2>3. Unspoilt' => DataWhereTaken' BY DEF DataWhereTaken, WpsNewsInWps, PhoneNeedsAp
  <2>4. Unspoilt' => WpsNewsInWps' BY DEF WpsNewsInWps, WpsOnlyInModoWps, WpsNotLeft
  <2>5. Unspoilt' => WpsNotLeft' BY DEF WpsNotLeft
  <2> QED BY <2>1, <2>2, <2>3, <2>4, <2>5
<1>16. ASSUME NEW s \in States, EnterTimed(s) PROVE EntriesInv'
  <2> USE <1>16 DEF EnterTimed
  <2>1. Unspoilt' => EntryOfServer' BY SocketsAssumption DEF EntryOfServer, NoneOtherwise, DataWhereTaken
  <2>2. Unspoilt' => NoneOtherwise' BY SocketsAssumption DEF EntryOfServer, NoneOtherwise, DataWhereTaken
  <2>3. Unspoilt' => DataWhereTaken' BY DEF DataWhereTaken, WpsNewsInWps, PhoneNeedsAp
  <2>4. Unspoilt' => WpsNewsInWps' BY DEF WpsNewsInWps, WpsOnlyInModoWps, WpsNotLeft
  <2>5. Unspoilt' => WpsNotLeft' BY DEF WpsNotLeft
  <2> QED BY <2>1, <2>2, <2>3, <2>4, <2>5
<1>17. CASE InitExpires
  <2> USE <1>17 DEF InitExpires
  <2>1. Unspoilt' => EntryOfServer' BY SocketsAssumption DEF EntryOfServer, NoneOtherwise, DataWhereTaken
  <2>2. Unspoilt' => NoneOtherwise' BY SocketsAssumption DEF EntryOfServer, NoneOtherwise, DataWhereTaken
  <2>3. Unspoilt' => DataWhereTaken' BY DEF DataWhereTaken, WpsNewsInWps, PhoneNeedsAp
  <2>4. Unspoilt' => WpsNewsInWps' BY DEF WpsNewsInWps, WpsOnlyInModoWps, WpsNotLeft
  <2>5. Unspoilt' => WpsNotLeft' BY DEF WpsNotLeft
  <2> QED BY <2>1, <2>2, <2>3, <2>4, <2>5
<1>18. CASE EnterCheck
  <2> USE <1>18 DEF EnterCheck
  <2>1. Unspoilt' => EntryOfServer' BY SocketsAssumption DEF EntryOfServer, NoneOtherwise, DataWhereTaken
  <2>2. Unspoilt' => NoneOtherwise' BY SocketsAssumption DEF EntryOfServer, NoneOtherwise, DataWhereTaken
  <2>3. Unspoilt' => DataWhereTaken' BY DEF DataWhereTaken, WpsNewsInWps, PhoneNeedsAp
  <2>4. Unspoilt' => WpsNewsInWps' BY DEF WpsNewsInWps, WpsOnlyInModoWps, WpsNotLeft
  <2>5. Unspoilt' => WpsNotLeft' BY DEF WpsNotLeft
  <2> QED BY <2>1, <2>2, <2>3, <2>4, <2>5
<1>19. ASSUME NEW t \in BOOLEAN, Check(t) PROVE EntriesInv'
  <2> USE <1>19 DEF Check
  <2>1. Unspoilt' => EntryOfServer' BY SocketsAssumption DEF EntryOfServer, NoneOtherwise, DataWhereTaken
  <2>2. Unspoilt' => NoneOtherwise' BY SocketsAssumption DEF EntryOfServer, NoneOtherwise, DataWhereTaken
  <2>3. Unspoilt' => DataWhereTaken' BY DEF DataWhereTaken, WpsNewsInWps, PhoneNeedsAp
  <2>4. Unspoilt' => WpsNewsInWps' BY DEF WpsNewsInWps, WpsOnlyInModoWps, WpsNotLeft
  <2>5. Unspoilt' => WpsNotLeft' BY DEF WpsNotLeft
  <2> QED BY <2>1, <2>2, <2>3, <2>4, <2>5
<1>20. CASE Disconnected
  <2> USE <1>20 DEF Disconnected
  <2>1. Unspoilt' => EntryOfServer' BY SocketsAssumption DEF EntryOfServer, NoneOtherwise, DataWhereTaken
  <2>2. Unspoilt' => NoneOtherwise' BY SocketsAssumption DEF EntryOfServer, NoneOtherwise, DataWhereTaken
  <2>3. Unspoilt' => DataWhereTaken' BY DEF DataWhereTaken, WpsNewsInWps, PhoneNeedsAp
  <2>4. Unspoilt' => WpsNewsInWps' BY DEF WpsNewsInWps, WpsOnlyInModoWps, WpsNotLeft
  <2>5. Unspoilt' => WpsNotLeft' BY DEF WpsNotLeft
  <2> QED BY <2>1, <2>2, <2>3, <2>4, <2>5
<1>21. ASSUME NEW b \in BOOLEAN, EnterListening(b) PROVE EntriesInv'
  <2> USE <1>21 DEF EnterListening, EnableAp, CreateServerSocket
  <2>1. Unspoilt' => EntryOfServer' BY SocketsAssumption DEF EntryOfServer, NoneOtherwise, DataWhereTaken
  <2>2. Unspoilt' => NoneOtherwise' BY SocketsAssumption DEF EntryOfServer, NoneOtherwise, DataWhereTaken
  <2>3. Unspoilt' => DataWhereTaken' BY DEF DataWhereTaken, WpsNewsInWps, PhoneNeedsAp
  <2>4. Unspoilt' => WpsNewsInWps' BY DEF WpsNewsInWps, WpsOnlyInModoWps, WpsNotLeft
  <2>5. Unspoilt' => WpsNotLeft' BY DEF WpsNotLeft
  <2> QED BY <2>1, <2>2, <2>3, <2>4, <2>5
<1>22. ASSUME NEW b \in BOOLEAN, NEW t \in BOOLEAN, NEW t2 \in BOOLEAN, Listening(b, t, t2) PROVE EntriesInv'
  <2> USE <1>22 DEF Listening, DeleteServerSocket, DisableAp
  <2>1. Unspoilt' => EntryOfServer' BY SocketsAssumption DEF EntryOfServer, NoneOtherwise, DataWhereTaken
  <2>2. Unspoilt' => NoneOtherwise' BY SocketsAssumption DEF EntryOfServer, NoneOtherwise, DataWhereTaken
  <2>3. Unspoilt' => DataWhereTaken' BY DEF DataWhereTaken, WpsNewsInWps, PhoneNeedsAp
  <2>4. Unspoilt' => WpsNewsInWps' BY DEF WpsNewsInWps, WpsOnlyInModoWps, WpsNotLeft
  <2>5. Unspoilt' => WpsNotLeft' BY DEF WpsNotLeft
  <2> QED BY <2>1, <2>2, <2>3, <2>4, <2>5
<1>23. ASSUME NEW b \in BOOLEAN, Connected(b) PROVE EntriesInv'
  <2> USE <1>23 DEF Connected
  <2>1. Unspoilt' => EntryOfServer' BY SocketsAssumption DEF EntryOfServer, NoneOtherwise, DataWhereTaken
  <2>2. Unspoilt' => NoneOtherwise' BY SocketsAssumption DEF EntryOfServer, NoneOtherwise, DataWhereTaken
  <2>3. Unspoilt' => DataWhereTaken' BY DEF DataWhereTaken, WpsNewsInWps, PhoneNeedsAp
  <2>4. Unspoilt' => WpsNewsInWps' BY DEF WpsNewsInWps, WpsOnlyInModoWps, WpsNotLeft
  <2>5. Unspoilt' => WpsNotLeft' BY DEF WpsNotLeft
  <2> QED BY <2>1, <2>2, <2>3, <2>4, <2>5
<1>24. ASSUME NEW t \in BOOLEAN, WaitingData(t) PROVE EntriesInv'
  <2> USE <1>24 DEF WaitingData, DeleteServerSocket, DisableAp
  <2>1. Unspoilt' => EntryOfServer' BY SocketsAssumption DEF EntryOfServer, NoneOtherwise, DataWhereTaken
  <2>2. Unspoilt' => NoneOtherwise' BY SocketsAssumption DEF EntryOfServer, NoneOtherwise, DataWhereTaken
  <2>3. Unspoilt' => DataWhereTaken' BY DEF DataWhereTaken, WpsNewsInWps, PhoneNeedsAp
  <2>4. Unspoilt' => WpsNewsInWps' BY DEF WpsNewsInWps, WpsOnlyInModoWps, WpsNotLeft
  <2>5. Unspoilt' => WpsNotLeft' BY DEF WpsNotLeft
  <2> QED BY <2>1, <2>2, <2>3, <2>4, <2>5
<1>25. CASE EnterWps
  <2> USE <1>25 DEF EnterWps, DeleteServerSocket, DisableAp
  <2>1. Unspoilt' => EntryOfServer' BY SocketsAssumption DEF EntryOfServer, NoneOtherwise, DataWhereTaken
  <2>2. Unspoilt' => NoneOtherwise' BY SocketsAssumption DEF EntryOfServer, NoneOtherwise, DataWhereTaken
  <2>3. Unspoilt' => DataWhereTaken' BY DEF DataWhereTaken, WpsNewsInWps, PhoneNeedsAp
  <2>4. Unspoilt' => WpsNewsInWps' BY DEF WpsNewsInWps, WpsOnlyInModoWps, WpsNotLeft
  <2>5. Unspoilt' => WpsNotLeft' BY DEF WpsNotLeft
  <2> QED BY <2>1, <2>2, <2>3, <2>4, <2>5
<1>26. ASSUME NEW b \in BOOLEAN, NEW t \in BOOLEAN, WpsMode(b, t) PROVE EntriesInv'
  <2> USE <1>26 DEF WpsMode
  <2>1. Unspoilt' => EntryOfServer' BY SocketsAssumption DEF EntryOfServer, NoneOtherwise, DataWhereTaken
  <2>2. Unspoilt' => NoneOtherwise' BY SocketsAssumption DEF EntryOfServer, NoneOtherwise, DataWhereTaken
  <2>3. Unspoilt' => DataWhereTaken' BY DEF DataWhereTaken, WpsNewsInWps, PhoneNeedsAp
  <2>4. Unspoilt' => WpsNewsInWps' BY DEF WpsNewsInWps, WpsOnlyInModoWps, WpsNotLeft
  <2>5. Unspoilt' => WpsNotLeft' BY DEF WpsNotLeft
  <2> QED BY <2>1, <2>2, <2>3, <2>4, <2>5
<1>27. CASE EnterConnecting
  <2> USE <1>27 DEF EnterConnecting
  <2>1. Unspoilt' => EntryOfServer' BY SocketsAssumption DEF EntryOfServer, NoneOtherwise, DataWhereTaken
  <2>2. Unspoilt' => NoneOtherwise' BY SocketsAssumption DEF EntryOfServer, NoneOtherwise, DataWhereTaken
  <2>3. Unspoilt' => DataWhereTaken' BY DEF DataWhereTaken, WpsNewsInWps, PhoneNeedsAp
  <2>4. Unspoilt' => WpsNewsInWps' BY DEF WpsNewsInWps, WpsOnlyInModoWps, WpsNotLeft
  <2>5. Unspoilt' => WpsNotLeft' BY DEF WpsNotLeft
  <2> QED BY <2>1, <2>2, <2>3, <2>4, <2>5
<1>28. CASE ConnectingExpires
  <2> USE <1>28 DEF ConnectingExpires
  <2>1. Unspoilt' => EntryOfServer' BY SocketsAssumption DEF EntryOfServer, NoneOtherwise, DataWhereTaken
  <2>2. Unspoilt' => NoneOtherwise' BY SocketsAssumption DEF EntryOfServer, NoneOtherwise, DataWhereTaken
  <2>3. Unspoilt' => DataWhereTaken' BY DEF DataWhereTaken, WpsNewsInWps, PhoneNeedsAp
  <2>4. Unspoilt' => WpsNewsInWps' BY DEF WpsNewsInWps, WpsOnlyInModoWps, WpsNotLeft
  <2>5. Unspoilt' => WpsNotLeft' BY DEF WpsNotLeft
  <2> QED BY <2>1, <2>2, <2>3, <2>4, <2>5
<1>29. CASE NotConnectedExpires
  <2> USE <1>29 DEF NotConnectedExpires
  <2>1. Unspoilt' => EntryOfServer' BY SocketsAssumption DEF EntryOfServer, NoneOtherwise, DataWhereTaken
  <2>2. Unspoilt' => NoneOtherwise' BY SocketsAssumption DEF EntryOfServer, NoneOtherwise, DataWhereTaken
  <2>3. Unspoilt' => DataWhereTaken' BY DEF DataWhereTaken, WpsNewsInWps, PhoneNeedsAp
  <2>4. Unspoilt' => WpsNewsInWps' BY DEF WpsNewsInWps, WpsOnlyInModoWps, WpsNotLeft
  <2>5. Unspoilt' => WpsNotLeft' BY DEF WpsNotLeft
  <2> QED BY <2>1, <2>2, <2>3, <2>4, <2>5
<1>30. CASE UNCHANGED vars BY <1>30 DEF EntryOfServer, NoneOtherwise, DataWhereTaken, WpsNewsInWps, WpsNotLeft
<1> QED
  BY <1>1, <1>2, <1>3, <1>4, <1>5, <1>6, <1>7, <1>8, <1>9, <1>10, <1>11, <1>12,
     <1>13, <1>14, <1>15, <1>16, <1>17, <1>18, <1>19, <1>20, <1>21, <1>22, <1>23, <1>24,
     <1>25, <1>26, <1>27, <1>28, <1>29, <1>30
     DEF Next, Driver, Callbacks, Handler

\* When the driver tells what happened before the manager passes again, a socket of the
\* list is never lost but after left-over data or a failed server (WiFiManager.c:501-507).
THEOREM WiFiEntriesExplained == LateEvents = FALSE /\ Spec => []EntriesExplained
<1> SUFFICES ASSUME LateEvents = FALSE PROVE Spec => []EntriesExplained
  OBVIOUS
<1>1. Init => EntriesInv
  BY DEF Init, EntriesInv, Orderly, EntryOfServer, NoneOtherwise, DataWhereTaken,
         WpsNewsInWps, WpsNotLeft, Serving
<1>2. WiFiInv /\ EntriesInv /\ [Next]_vars => EntriesInv'
  BY EntriesStep
<1>3. WiFiInv /\ EntriesInv => EntriesExplained
  BY DEF WiFiInv, TypeInv, TypeOK, CountsType, FlagsType, EntriesInv, Unspoilt, Orderly,
         EntryOfServer, NoneOtherwise, EntriesExplained
<1> QED BY <1>1, <1>2, <1>3, WiFiInvariant, PTL DEF Spec
=============================================================================

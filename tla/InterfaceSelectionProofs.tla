---------------------- MODULE InterfaceSelectionProofs ----------------------
(***************************************************************************)
(* Proofs about InterfaceSelection, for penalties of any length: its type  *)
(* invariant, that imClient knows what the manager has settled on unless   *)
(* the manager was initialised again and has settled on nothing since, and *)
(* that an error reported on Wi-Fi is served for ShortPenalty.             *)
(*                                                                         *)
(* The last one needs an invariant that says why: while the error is       *)
(* younger than ShortPenalty its flag is still up, and what is left on its *)
(* timer is enough to reach ShortPenalty, whoever restarted the timer.     *)
(***************************************************************************)
EXTENDS InterfaceSelection, TLAPS

\* Why a young error is still being served.
YoungErrorStands ==
    sinceError < ShortPenalty
        => errorWifi /\ timerErrorWifi # 0 /\ timerErrorWifi + sinceError >= ShortPenalty

IInv == TypeOK /\ ToldIsSelected /\ YoungErrorStands

----------------------------------------------------------------------------
\* connectivityManager_init, with no error reported for longer than any penalty.
LEMMA InitIInv == Init => IInv
<1> SUFFICES ASSUME Init PROVE IInv
    OBVIOUS
<1> USE DEF Init, CMInit
<1>1. TypeOK
  <2>1. 0 \in 0 .. LongPenalty /\ LongPenalty \in 0 .. LongPenalty
    BY PenaltyAssumption
  <2>2. NoEvent \in Events /\ told \in Interfaces /\ interface \in Interfaces
    BY DEF NoEvent, Events, Interfaces
  <2>3. QED
    BY <2>1, <2>2 DEF TypeOK, CMTypeOK
<1>2. ToldIsSelected
    BY DEF ToldIsSelected, Selected
<1>3. YoungErrorStands
  <2>1. ~(sinceError < ShortPenalty)
    BY PenaltyAssumption
  <2>2. QED
    BY <2>1 DEF YoungErrorStands
<1>4. QED
    BY <1>1, <1>2, <1>3 DEF IInv

\* A pass of the handler leaves the manager well typed.
LEMMA HandlerKeepsType == TypeOK /\ Handler => TypeOK'
<1> SUFFICES ASSUME TypeOK, Handler PROVE TypeOK'
    OBVIOUS
<1> USE PenaltyAssumption
        DEF TypeOK, CMTypeOK, Enter, ClearExpired, KeepTimers, WifiError, CellularError,
            Change, DisconnectAndChange, NoEvent, Events, Interfaces
<1>1. /\ cmState' \in {"INIT", "WAITING", "HAY_WIFI", "HAY_CELULAR"}
      /\ errorWifi' \in BOOLEAN /\ errorCellular' \in BOOLEAN
      /\ timerErrorWifi' \in 0 .. LongPenalty
      /\ timerErrorCellular' \in 0 .. LongPenalty
      /\ event' \in Events
  <2>1. CASE Start
    BY <2>1 DEF Start
  <2>2. CASE SelectWifi(wifi)
    BY <2>2 DEF SelectWifi
  <2>3. CASE SelectCellular(wifi, cellular)
    BY <2>3 DEF SelectCellular
  <2>4. CASE WifiToCellular(wifi, cellular)
    BY <2>4 DEF WifiToCellular
  <2>5. CASE WifiLost(wifi, cellular)
    BY <2>5 DEF WifiLost
  <2>6. CASE CellularToWifi(wifi)
    BY <2>6 DEF CellularToWifi
  <2>7. CASE CellularLost(wifi, cellular)
    BY <2>7 DEF CellularLost
  <2>8. CASE Stay(wifi, cellular)
    BY <2>8 DEF Stay
  <2>9. QED
    BY <2>1, <2>2, <2>3, <2>4, <2>5, <2>6, <2>7, <2>8 DEF Handler, CMHandler
<1>2. QED
    BY <1>1 DEF Handler

\* Every transition of the manager goes with the event that tells imClient: from
\* FSM_INIT it is silent, but there nothing was selected either.
LEMMA HandlerTells == TypeOK /\ ToldIsSelected /\ Handler => ToldIsSelected'
<1> SUFFICES ASSUME TypeOK, ToldIsSelected, Handler PROVE ToldIsSelected'
    OBVIOUS
<1> USE DEF Selected, Enter, Change, DisconnectAndChange, NoEvent
<1>1. /\ told' = IF event'.kind = "none" THEN told ELSE event'.ifc
      /\ forgotten' = (forgotten /\ event'.kind = "none")
    BY DEF Handler
<1>2. ASSUME event'.kind = "none", Selected' = Selected PROVE ToldIsSelected'
    BY <1>1, <1>2 DEF ToldIsSelected
<1>3. ASSUME event'.kind # "none", event'.ifc = Selected' PROVE ToldIsSelected'
    BY <1>1, <1>3 DEF ToldIsSelected
<1>4. CASE Start
    BY <1>2, <1>4 DEF Start
<1>5. CASE SelectWifi(wifi)
    BY <1>3, <1>5 DEF SelectWifi
<1>6. CASE SelectCellular(wifi, cellular)
    BY <1>3, <1>6 DEF SelectCellular
<1>7. CASE WifiToCellular(wifi, cellular)
    BY <1>3, <1>7 DEF WifiToCellular
<1>8. CASE WifiLost(wifi, cellular)
    BY <1>3, <1>8 DEF WifiLost
<1>9. CASE CellularToWifi(wifi)
    BY <1>3, <1>9 DEF CellularToWifi
<1>10. CASE CellularLost(wifi, cellular)
    BY <1>3, <1>10 DEF CellularLost
<1>11. CASE Stay(wifi, cellular)
    BY <1>2, <1>11 DEF Stay
<1>12. QED
    BY <1>4, <1>5, <1>6, <1>7, <1>8, <1>9, <1>10, <1>11 DEF Handler, CMHandler

\* The handler neither clears a young error nor shortens its time.
LEMMA HandlerServesError == TypeOK /\ YoungErrorStands /\ Handler => YoungErrorStands'
<1> SUFFICES ASSUME TypeOK, Handler, sinceError < ShortPenalty, YoungErrorStands,
                    sinceError' = sinceError
             PROVE  /\ errorWifi' /\ timerErrorWifi' # 0
                    /\ timerErrorWifi' + sinceError >= ShortPenalty
    BY DEF YoungErrorStands, Handler
<1>1. errorWifi /\ timerErrorWifi # 0 /\ timerErrorWifi + sinceError >= ShortPenalty
    BY DEF YoungErrorStands
<1>2. WifiError
    BY <1>1 DEF WifiError
<1>3. errorWifi' /\ timerErrorWifi' \in {timerErrorWifi, ShortPenalty, LongPenalty}
  <2> USE <1>2 DEF ClearExpired, KeepTimers
  <2>1. CASE Start
    BY <2>1 DEF Start
  <2>2. CASE SelectWifi(wifi)
    BY <2>2 DEF SelectWifi
  <2>3. CASE SelectCellular(wifi, cellular)
    BY <2>3 DEF SelectCellular
  <2>4. CASE WifiToCellular(wifi, cellular)
    BY <2>4 DEF WifiToCellular
  <2>5. CASE WifiLost(wifi, cellular)
    BY <2>5 DEF WifiLost
  <2>6. CASE CellularToWifi(wifi)
    BY <2>6 DEF CellularToWifi
  <2>7. CASE CellularLost(wifi, cellular)
    BY <2>7 DEF CellularLost
  <2>8. CASE Stay(wifi, cellular)
    BY <2>8 DEF Stay
  <2>9. QED
    BY <2>1, <2>2, <2>3, <2>4, <2>5, <2>6, <2>7, <2>8 DEF Handler, CMHandler
<1>4. timerErrorWifi' # 0 /\ timerErrorWifi' + sinceError >= ShortPenalty
  <2>1. timerErrorWifi \in Nat /\ sinceError \in Nat
    BY PenaltyAssumption DEF TypeOK, CMTypeOK
  <2>2. CASE timerErrorWifi' = timerErrorWifi
    BY <1>1, <2>2
  <2>3. CASE timerErrorWifi' = ShortPenalty
    BY <2>1, <2>3, PenaltyAssumption
  <2>4. CASE timerErrorWifi' = LongPenalty
    BY <2>1, <2>4, PenaltyAssumption
  <2>5. QED
    BY <1>3, <2>2, <2>3, <2>4
<1>5. QED
    BY <1>3, <1>4

----------------------------------------------------------------------------
\* IInv survives a pass of the handler, a report, a change of network, a minute and
\* another run of the entry block of mainFsm.
LEMMA NextIInv == IInv /\ [Next]_vars => IInv'
<1> SUFFICES ASSUME IInv, [Next]_vars PROVE IInv'
    OBVIOUS
<1> USE DEF IInv
<1>1. CASE Handler
    BY <1>1, HandlerKeepsType, HandlerTells, HandlerServesError
<1>2. ASSUME NEW i \in Interfaces, ReportError(i) PROVE IInv'
  <2>1. /\ errorWifi' = (errorWifi \/ i = "wifi")
        /\ errorCellular' = (errorCellular \/ i = "cellular")
        /\ timerErrorWifi' = IF i = "wifi" THEN LongPenalty ELSE timerErrorWifi
        /\ timerErrorCellular' = IF i = "cellular" THEN LongPenalty ELSE timerErrorCellular
        /\ sinceError' = IF i = "wifi" THEN 0 ELSE sinceError
        /\ UNCHANGED <<cmState, event, wifi, cellular, told, interface, starting, forgotten>>
    BY <1>2 DEF ReportError, InterfaceError
  <2>2. errorWifi' \in BOOLEAN /\ errorCellular' \in BOOLEAN
    BY <2>1
  <2>3. /\ timerErrorWifi' \in 0 .. LongPenalty /\ timerErrorCellular' \in 0 .. LongPenalty
        /\ sinceError' \in 0 .. LongPenalty
    BY <2>1, PenaltyAssumption DEF TypeOK, CMTypeOK
  <2>4. TypeOK'
    BY <2>1, <2>2, <2>3 DEF TypeOK, CMTypeOK
  <2>5. ToldIsSelected'
    BY <2>1 DEF ToldIsSelected, Selected
  <2>6. CASE i = "wifi"
    <3>1. errorWifi'
      BY <2>1, <2>6
    <3>2. timerErrorWifi' # 0 /\ timerErrorWifi' + sinceError' >= ShortPenalty
      BY <2>1, <2>6, PenaltyAssumption
    <3>3. QED
      BY <2>4, <2>5, <3>1, <3>2 DEF YoungErrorStands
  <2>7. CASE i # "wifi"
    <3>1. errorWifi => errorWifi'
      BY <2>1
    <3>2. timerErrorWifi' = timerErrorWifi /\ sinceError' = sinceError
      BY <2>1, <2>7
    <3>3. QED
      BY <2>4, <2>5, <3>1, <3>2 DEF YoungErrorStands
  <2>8. QED
    BY <2>6, <2>7
<1>3. CASE WifiChanges
    BY <1>3 DEF WifiChanges, cmVars, TypeOK, CMTypeOK, ToldIsSelected, Selected, YoungErrorStands
<1>4. CASE CellularChanges
    BY <1>4 DEF CellularChanges, cmVars, TypeOK, CMTypeOK, ToldIsSelected, Selected,
                YoungErrorStands
<1>5. CASE TimePasses
  <2> USE <1>5, PenaltyAssumption DEF TimePasses, Minute, LessOne, OneMore, TypeOK, CMTypeOK
  <2>1. TypeOK'
    OBVIOUS
  <2>2. ToldIsSelected'
    BY DEF ToldIsSelected, Selected
  <2>3. YoungErrorStands'
    BY DEF YoungErrorStands
  <2>4. QED
    BY <2>1, <2>2, <2>3
<1>6. CASE Adopt
    BY <1>6 DEF Adopt, cmVars, TypeOK, CMTypeOK, ToldIsSelected, Selected, YoungErrorStands
<1>7. CASE Reinit
  <2> USE <1>7 DEF Reinit, ReinitCM
  <2>1. TypeOK'
    BY DEF TypeOK, CMTypeOK
  <2>2. ToldIsSelected'
    BY DEF ToldIsSelected, Selected
  <2>3. YoungErrorStands'
    BY DEF YoungErrorStands
  <2>4. QED
    BY <2>1, <2>2, <2>3
<1>8. CASE Started
    BY <1>8 DEF Started, cmVars, TypeOK, CMTypeOK, ToldIsSelected, Selected, YoungErrorStands
<1>9. CASE UNCHANGED vars
    BY <1>9 DEF vars, cmVars, TypeOK, CMTypeOK, ToldIsSelected, Selected, YoungErrorStands
<1>10. QED
    BY <1>1, <1>2, <1>3, <1>4, <1>5, <1>6, <1>7, <1>8, <1>9 DEF Next

\* The three parts of IInv hold whatever the lengths of the penalties.
THEOREM SelectionInvariant == Spec => []IInv
<1>1. QED
    BY InitIInv, NextIInv, PTL DEF Spec

\* The variables of connectivityManager.c keep their types.
THEOREM SelectionTypeCorrect == Spec => []TypeOK
<1>1. IInv => TypeOK
    BY DEF IInv
<1>2. QED
    BY <1>1, SelectionInvariant, PTL

\* What imClient was told differs from what the manager has settled on only between
\* a second connectivityManager_init and the next interface that the manager settles
\* on: no transition of connectivityManager_handler misses its callback.
THEOREM SelectionIsTold == Spec => []ToldIsSelected
<1>1. IInv => ToldIsSelected
    BY DEF IInv
<1>2. QED
    BY <1>1, SelectionInvariant, PTL

\* No transition of connectivityManager_handler chooses Wi-Fi while an error
\* reported on it is younger than ShortPenalty.
THEOREM SelectionServesErrors == Spec => ErrorIsServed
<1>1. IInv /\ [Next]_vars => [event'.ifc = "wifi" /\ event' # event => sinceError >= ShortPenalty]_vars
  <2> SUFFICES ASSUME IInv, Next, event'.ifc = "wifi", event' # event
               PROVE  sinceError >= ShortPenalty
    OBVIOUS
  <2>1. CASE Handler
    <3>1. SUFFICES ASSUME sinceError < ShortPenalty PROVE FALSE
      BY PenaltyAssumption DEF IInv, TypeOK
    <3>2. WifiError
      BY <3>1 DEF IInv, YoungErrorStands, WifiError
    <3>3. event'.ifc # "wifi" \/ event' = event
      BY <2>1, <3>2
         DEF Handler, CMHandler, Start, SelectWifi, SelectCellular, WifiToCellular, WifiLost,
             CellularToWifi, CellularLost, Stay, Enter, Change, DisconnectAndChange, NoEvent
    <3>4. QED
      BY <3>3
  <2>2. CASE ~Handler
    BY <2>2 DEF Next, Adopt, ReportError, InterfaceError, WifiChanges, CellularChanges, TimePasses,
                Minute, Reinit, ReinitCM, Started, cmVars
  <2>3. QED
    BY <2>1, <2>2
<1>2. QED
    BY <1>1, SelectionInvariant, PTL DEF Spec, ErrorIsServed
=============================================================================

------------------------ MODULE ConnectivityManager ------------------------
(***************************************************************************)
(* The choice of the network interface                                     *)
(* (src/firmware/COM38/src/connectivityManager.c).                         *)
(*                                                                         *)
(* On every pass of the main loop the manager looks at whether there is    *)
(* Wi-Fi and whether there is internet over the cellular module, at the    *)
(* error it was told about each of them, and reports a change of interface *)
(* to imClient through a callback.  An interface in error is left aside    *)
(* until its timer expires.  Time is counted in minutes: a timer holds the *)
(* minutes it has left, 0 once it has expired, and goes on being expired   *)
(* (softTimers.c never stops a timer by itself).                           *)
(***************************************************************************)
EXTENDS Naturals

CONSTANTS LongPenalty,      \* 15 minutes: an interface reported in error
          ShortPenalty      \* 1 minute: an interface that was lost

ASSUME PenaltyAssumption ==
    /\ LongPenalty \in Nat /\ ShortPenalty \in Nat
    /\ 0 < ShortPenalty /\ ShortPenalty < LongPenalty

Interfaces == {"none", "wifi", "cellular"}
NoEvent == [kind |-> "none", ifc |-> "none"]
Change(i) == [kind |-> "change", ifc |-> i]
DisconnectAndChange(i) == [kind |-> "disconnect_and_change", ifc |-> i]
Events == [kind : {"none", "change", "disconnect_and_change"}, ifc : Interfaces]

VARIABLES cmState,            \* fsmState
          errorWifi,          \* error_wifi
          errorCellular,      \* error_celular
          timerErrorWifi,     \* minutes left, 0 = expired
          timerErrorCellular,
          event               \* what the last pass told imClient

cmVars == <<cmState, errorWifi, errorCellular, timerErrorWifi, timerErrorCellular, event>>

CMInit ==
    /\ cmState = "INIT"
    /\ errorWifi = FALSE /\ errorCellular = FALSE
    /\ timerErrorWifi = 0 /\ timerErrorCellular = 0
    /\ event = NoEvent

----------------------------------------------------------------------------
(* connectivityManager_handler.  An expired timer clears its error flag at *)
(* the start of every pass, before the flags are looked at.                *)

WifiError == errorWifi /\ timerErrorWifi # 0
CellularError == errorCellular /\ timerErrorCellular # 0

\* Slip: the transition is made and imClient is not told.
Slip_EnterSilently(s, e) == cmState' = s /\ event' = NoEvent

Enter(s, e) == cmState' = s /\ event' = e

ClearExpired == errorWifi' = WifiError /\ errorCellular' = CellularError
KeepTimers == UNCHANGED <<timerErrorWifi, timerErrorCellular>>

Start ==
    /\ cmState = "INIT"
    /\ Enter("WAITING", NoEvent) /\ ClearExpired /\ KeepTimers

SelectWifi(wifi) ==
    /\ cmState = "WAITING" /\ wifi /\ ~WifiError
    /\ Enter("HAY_WIFI", Change("wifi")) /\ ClearExpired /\ KeepTimers

\* Wi-Fi is put in error so that it is not tried again right away.
SelectCellular(wifi, cellular) ==
    /\ cmState = "WAITING" /\ ~(wifi /\ ~WifiError)
    /\ cellular /\ ~CellularError
    /\ Enter("HAY_CELULAR", Change("cellular"))
    /\ errorWifi' = TRUE /\ errorCellular' = CellularError
    /\ timerErrorWifi' = LongPenalty /\ UNCHANGED timerErrorCellular

\* Here the timer is started but Wi-Fi is not put in error.
WifiToCellular(wifi, cellular) ==
    /\ cmState = "HAY_WIFI" /\ (~wifi \/ WifiError)
    /\ cellular /\ ~CellularError
    /\ Enter("HAY_CELULAR", Change("cellular")) /\ ClearExpired
    /\ timerErrorWifi' = LongPenalty /\ UNCHANGED timerErrorCellular

\* Slip: the timer of the lost interface is reset instead of started.
Slip_WifiLost(wifi, cellular) ==
    /\ cmState = "HAY_WIFI" /\ (~wifi \/ WifiError)
    /\ ~(cellular /\ ~CellularError)
    /\ Enter("WAITING", Change("none")) /\ ClearExpired
    /\ timerErrorWifi' = 0 /\ UNCHANGED timerErrorCellular

WifiLost(wifi, cellular) ==
    /\ cmState = "HAY_WIFI" /\ (~wifi \/ WifiError)
    /\ ~(cellular /\ ~CellularError)
    /\ Enter("WAITING", Change("none")) /\ ClearExpired
    /\ timerErrorWifi' = ShortPenalty /\ UNCHANGED timerErrorCellular

\* Slip: Wi-Fi is preferred only once the cellular connection is gone.
Slip_CellularToWifi(wifi) == FALSE

CellularToWifi(wifi) ==
    /\ cmState = "HAY_CELULAR" /\ wifi /\ ~WifiError
    /\ Enter("HAY_WIFI", DisconnectAndChange("wifi")) /\ ClearExpired /\ KeepTimers

CellularLost(wifi, cellular) ==
    /\ cmState = "HAY_CELULAR" /\ ~(wifi /\ ~WifiError)
    /\ ~cellular \/ CellularError
    /\ Enter("WAITING", Change("none")) /\ ClearExpired
    /\ timerErrorCellular' = ShortPenalty /\ timerErrorWifi' = ShortPenalty

Stay(wifi, cellular) ==
    /\ \/ cmState = "WAITING" /\ ~(wifi /\ ~WifiError) /\ ~(cellular /\ ~CellularError)
       \/ cmState = "HAY_WIFI" /\ wifi /\ ~WifiError
       \/ cmState = "HAY_CELULAR" /\ ~(wifi /\ ~WifiError) /\ cellular /\ ~CellularError
    /\ Enter(cmState, NoEvent) /\ ClearExpired /\ KeepTimers

CMHandler(wifi, cellular) ==
    \/ Start
    \/ SelectWifi(wifi)
    \/ SelectCellular(wifi, cellular)
    \/ WifiToCellular(wifi, cellular)
    \/ WifiLost(wifi, cellular)
    \/ CellularToWifi(wifi)
    \/ CellularLost(wifi, cellular)
    \/ Stay(wifi, cellular)

----------------------------------------------------------------------------

\* connectivityManager_interfaceError, called by imClient.
InterfaceError(i) ==
    /\ errorWifi' = (errorWifi \/ i = "wifi")
    /\ timerErrorWifi' = IF i = "wifi" THEN LongPenalty ELSE timerErrorWifi
    /\ errorCellular' = (errorCellular \/ i = "cellular")
    /\ timerErrorCellular' = IF i = "cellular" THEN LongPenalty ELSE timerErrorCellular
    /\ UNCHANGED <<cmState, event>>

\* Slip: an expired timer goes on counting.
Slip_LessOne(t) == t - 1

LessOne(t) == IF t = 0 THEN 0 ELSE t - 1

\* A minute goes by.
Minute ==
    /\ timerErrorWifi' = LessOne(timerErrorWifi)
    /\ timerErrorCellular' = LessOne(timerErrorCellular)
    /\ UNCHANGED <<cmState, errorWifi, errorCellular, event>>

\* connectivityManager_init, also when it is called again.
ReinitCM ==
    /\ cmState' = "INIT"
    /\ UNCHANGED <<errorWifi, errorCellular, timerErrorWifi, timerErrorCellular, event>>

\* The types of the variables of connectivityManager.c.
CMTypeOK ==
    /\ cmState \in {"INIT", "WAITING", "HAY_WIFI", "HAY_CELULAR"}
    /\ errorWifi \in BOOLEAN /\ errorCellular \in BOOLEAN
    /\ timerErrorWifi \in 0 .. LongPenalty
    /\ timerErrorCellular \in 0 .. LongPenalty
    /\ event \in Events
============================================================================

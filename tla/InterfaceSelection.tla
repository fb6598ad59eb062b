------------------------- MODULE InterfaceSelection -------------------------
(***************************************************************************)
(* ConnectivityManager among its neighbours: the Wi-Fi and the cellular    *)
(* modules that come and go, imClient that follows the changes and reports *)
(* errors of the interface it is using, the passing of time, and mainFsm,  *)
(* which initialises them all again when the programming mode was entered  *)
(* in the first two seconds (MainFsm).                                     *)
(* (The main loop of this version never calls cellularManager_handler, so  *)
(* that in the shipped build cellular stays FALSE: one of the behaviours   *)
(* below.)                                                                 *)
(***************************************************************************)
EXTENDS ConnectivityManager

VARIABLES wifi,          \* wifiManager_isWiFiConnected
          cellular,      \* cellularManager_isInternetConnected
          told,          \* the interface imClient was last told about (nextInterface)
          interface,     \* the interface it works with and reports
          starting,      \* mainFsm is in its initial state, or in the menu opened from it
          forgotten,     \* history: initialised again, and nothing told since
          sinceError     \* history: minutes since Wi-Fi was last reported in error

vars == <<cmVars, wifi, cellular, told, interface, starting, forgotten, sinceError>>

\* sinceError counts up to the longest penalty and stops there.
OneMore(t) == IF t = LongPenalty THEN t ELSE t + 1

Init ==
    /\ CMInit
    /\ wifi = FALSE /\ cellular = FALSE
    /\ told = "none" /\ interface = "none"
    /\ starting = TRUE
    /\ forgotten = FALSE
    /\ sinceError = LongPenalty

Handler ==
    /\ CMHandler(wifi, cellular)
    /\ told' = IF event'.kind = "none" THEN told ELSE event'.ifc
    /\ forgotten' = (forgotten /\ event'.kind = "none")
    /\ UNCHANGED <<wifi, cellular, interface, starting, sinceError>>

\* imClient takes over the interface it was told about when it comes to its states
\* FSM_WAITING_INTERFACE or FSM_INIT, which may be long after.
Adopt ==
    /\ interface' = told
    /\ UNCHANGED <<cmVars, wifi, cellular, told, starting, forgotten, sinceError>>

\* imClient reports the interface it works with.
ReportError(i) ==
    /\ i = interface
    /\ InterfaceError(i)
    /\ sinceError' = IF i = "wifi" THEN 0 ELSE sinceError
    /\ UNCHANGED <<wifi, cellular, told, interface, starting, forgotten>>

WifiChanges ==
    /\ wifi' = ~wifi
    /\ UNCHANGED <<cmVars, cellular, told, interface, starting, forgotten, sinceError>>

CellularChanges ==
    /\ cellular' = ~cellular
    /\ UNCHANGED <<cmVars, wifi, told, interface, starting, forgotten, sinceError>>

TimePasses ==
    /\ Minute
    /\ sinceError' = OneMore(sinceError)
    /\ UNCHANGED <<wifi, cellular, told, interface, starting, forgotten>>

\* The entry block of the initial state once more: connectivityManager_init, which
\* tells nobody and clears neither the errors nor their timers; wifiManager_init and
\* cellularManager_init; and imClient_init, which keeps both of its interfaces.
Reinit ==
    /\ starting
    /\ ReinitCM
    /\ wifi' = FALSE /\ cellular' = FALSE
    /\ forgotten' = TRUE
    /\ UNCHANGED <<told, interface, starting, sinceError>>

\* mainFsm leaves its initial state for another than the programming mode.
Started ==
    /\ starting
    /\ starting' = FALSE
    /\ UNCHANGED <<cmVars, wifi, cellular, told, interface, forgotten, sinceError>>

Next ==
    \/ Handler
    \/ Adopt
    \/ \E i \in Interfaces : ReportError(i)
    \/ WifiChanges
    \/ CellularChanges
    \/ TimePasses
    \/ Reinit
    \/ Started

Spec == Init /\ [][Next]_vars

\* The main loop never stops calling the handler, and time goes on.
FairSpec == Spec /\ WF_vars(Handler) /\ WF_vars(TimePasses)

----------------------------------------------------------------------------
\* The types of the variables; a timer never goes below zero nor above its penalty.
TypeOK ==
    /\ CMTypeOK
    /\ wifi \in BOOLEAN /\ cellular \in BOOLEAN
    /\ told \in Interfaces /\ interface \in Interfaces
    /\ starting \in BOOLEAN /\ forgotten \in BOOLEAN
    /\ sinceError \in 0 .. LongPenalty

\* The interface that the manager has settled on.
Selected ==
    CASE cmState = "HAY_WIFI" -> "wifi"
      [] cmState = "HAY_CELULAR" -> "cellular"
      [] OTHER -> "none"

\* What imClient was told is what the manager has settled on, except from the
\* moment in which mainFsm initialises the manager again, which no callback tells,
\* to the next interface it settles on: the client may then go on with an
\* interface that nobody selects, but never with one while another is selected.
ToldIsSelected ==
    told # Selected => forgotten /\ Selected = "none"

\* Wi-Fi is not chosen again within ShortPenalty of an error reported on it,
\* whatever is lost, found or reported on the cellular side in between: the
\* timer of an error is restarted by other transitions, never cut below that, and
\* outlives the second initialisation of the manager.
ErrorIsServed == [][event'.ifc = "wifi" /\ event' # event => sinceError >= ShortPenalty]_vars

\* Once Wi-Fi is there for good, is no longer reported in error and cellular has
\* stopped coming and going, Wi-Fi wins: also from the cellular connection, and
\* after whatever penalties were pending.  (With a cellular module that keeps
\* dropping and returning it need not: each return found in WAITING puts Wi-Fi
\* in error for another LongPenalty.)
WifiWins ==
    (<>[]wifi /\ <>[][~ReportError("wifi")]_vars /\ <>[][~CellularChanges]_vars)
        => <>[](told = "wifi")
=============================================================================

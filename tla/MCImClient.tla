---------------------------- MODULE MCImClient ----------------------------
(* The scenarios of the runs of ImClient. *)
EXTENDS ImClient

\* Links that die, noticed or not, with a failing initialisation; Wi-Fi that is
\* lost; a client that is initialised again; and every kind of disturbance, a slow
\* broker among them, with the status messages alone.
Safety == {
    [kinds |-> {"link", "silent", "reset", "init"}, faults |-> 3, events |-> 2],
    [kinds |-> {"wifi", "link", "reset"}, faults |-> 3, events |-> 2],
    [kinds |-> {"menu", "wifi", "link"}, faults |-> 2, events |-> 2],
    [kinds |-> FaultKinds, faults |-> 3, events |-> 0]}

\* Links that die and changes of the broker; one loss of Wi-Fi; and an outage so
\* long that the queue is given up.
Liveness == {
    [kinds |-> {"link", "reset"}, faults |-> 3, events |-> 1],
    [kinds |-> {"wifi", "link", "reset"}, faults |-> 1, events |-> 1],
    [kinds |-> {"link", "retention"}, faults |-> 2, events |-> 1]}

\* An interface change overwritten by a lost connection.
LostChange == {[kinds |-> {"wifi", "link", "silent"}, faults |-> 2, events |-> 3]}
=============================================================================

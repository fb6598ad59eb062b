------------------------------- MODULE Outbox -------------------------------
(***************************************************************************)
(* What imClient promises to the modules that post events: they reach the  *)
(* broker in the order in which they were posted, possibly more than once, *)
(* and one leaves the queue only once the broker has it; unless the queue  *)
(* can be given up, all of it at once.                                     *)
(***************************************************************************)
EXTENDS Naturals, Sequences

VARIABLES posted,    \* how many events have been posted: they are 1 .. posted
          queue,     \* events not yet confirmed, oldest first
          received,  \* events that the broker got at least once
          frail      \* whether the queue can be given up

outboxVars == <<posted, queue, received, frail>>

Init == posted = 0 /\ queue = <<>> /\ received = {} /\ frail \in BOOLEAN

Post ==
    /\ posted' = posted + 1
    /\ queue' = Append(queue, posted + 1)
    /\ UNCHANGED <<received, frail>>

\* The oldest event reaches the broker, for the first time or once more.
Deliver ==
    /\ queue # <<>>
    /\ received' = received \cup {Head(queue)}
    /\ UNCHANGED <<posted, queue, frail>>

Confirm ==
    /\ queue # <<>> /\ Head(queue) \in received
    /\ queue' = Tail(queue)
    /\ UNCHANGED <<posted, received, frail>>

GiveUp ==
    /\ frail
    /\ queue' = <<>>
    /\ UNCHANGED <<posted, received, frail>>

Next == Post \/ Deliver \/ Confirm \/ GiveUp

Spec == Init /\ [][Next]_outboxVars
=============================================================================

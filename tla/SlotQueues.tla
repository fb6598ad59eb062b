----------------------------- MODULE SlotQueues -----------------------------
(***************************************************************************)
(* What the message pool promises to the rest of the firmware: two FIFO    *)
(* queues of slots, no slot in two places, and an account of the slots     *)
(* that are out of circulation for good ("lost").                          *)
(***************************************************************************)
EXTENDS Sequences, Naturals

CONSTANT Slots

VARIABLES out,    \* slots waiting to be published, oldest first
          in,     \* slots received and not yet processed, oldest first
          lost    \* slots that nobody will ever release

vars == <<out, in, lost>>

Elements(q) == {q[i] : i \in 1 .. Len(q)}
Idle == Slots \ (Elements(out) \cup Elements(in) \cup lost)

Init == out = <<>> /\ in = <<>> /\ lost = {}

\* A message enters a queue in a slot that was idle.
Enqueue(s) ==
    \/ out' = Append(out, s) /\ UNCHANGED <<in, lost>>
    \/ in' = Append(in, s) /\ UNCHANGED <<out, lost>>

\* The oldest message leaves, and its slot is idle again.
DequeueOut == out # <<>> /\ out' = Tail(out) /\ UNCHANGED <<in, lost>>
DequeueIn  == in # <<>> /\ in' = Tail(in) /\ UNCHANGED <<out, lost>>

\* The oldest request leaves and an idle slot is lost on the way.
DequeueInLosing(s) == in # <<>> /\ in' = Tail(in) /\ lost' = lost \cup {s} /\ UNCHANGED out

\* Everything waiting to be published is dropped, slots included.
Drop == out # <<>> /\ out' = <<>> /\ lost' = lost \cup Elements(out) /\ UNCHANGED in

\* The pool starts afresh.
Restart == out' = <<>> /\ in' = <<>> /\ lost' = {}

Next ==
    \/ \E s \in Idle : Enqueue(s) \/ DequeueInLosing(s)
    \/ DequeueOut
    \/ DequeueIn
    \/ Drop
    \/ Restart

Spec == Init /\ [][Next]_vars
=============================================================================

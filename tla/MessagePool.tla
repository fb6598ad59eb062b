---------------------------- MODULE MessagePool ----------------------------
(***************************************************************************)
(* The pool of message slots shared by every part of the firmware that     *)
(* talks to the backend (src/firmware/COM38/src/MessagePoolManager.c).     *)
(*                                                                         *)
(* A slot is taken with messagePool_getFreeSlot, filled by its producer    *)
(* and handed to the output queue (imClient_send) or, for a message that   *)
(* arrives from the broker, to the input queue (parseMessageIn).  Both     *)
(* queues are C arrays of pointers as long as the pool: NULL marks a free  *)
(* entry, pushing takes the first NULL, popping shifts the array.          *)
(*                                                                         *)
(* The firmware is one thread, so each operation below is one step: it is  *)
(* everything its caller does with the pool before it returns.             *)
(***************************************************************************)
EXTENDS Naturals, FiniteSets

CONSTANTS PoolLen,      \* MESSAGE_POOL_POOL_LEN, also the length of the queues
          NULL,         \* the null imMessage_t*
          PayloadLens   \* lengths of the payloads that producers write

ASSUME PoolLenAssumption == PoolLen \in Nat \ {0}
ASSUME NullAssumption == NULL \notin Nat
ASSUME PayloadAssumption == PayloadLens \subseteq Nat

Slots == 0 .. (PoolLen - 1)
Index == 0 .. (PoolLen - 1)

VARIABLES free,         \* free[s]: messagePool[s].free
          payloadPtr,   \* payloadPtr[s]: messagePool[s].payload_ptr
          outputQueue,  \* what is waiting to be published
          inputQueue    \* inputQueues[0], what the backend asked for

poolVars == <<free, payloadPtr, outputQueue, inputQueue>>

----------------------------------------------------------------------------
(* The arrays of pointers.                                                 *)

EmptyQueue == [i \in Index |-> NULL]

\* Slips that a change to the loops could make, one per property of the pool
\* (the operators named Slip_... are never part of the specification).
Slip_FirstNullFromEnd(q) ==
    CHOOSE i \in Index : q[i] = NULL /\ \A j \in (i + 1) .. (PoolLen - 1) : q[j] # NULL
Slip_ShiftKeepsLast(q) == [i \in Index |-> IF i = PoolLen - 1 THEN q[i] ELSE q[i + 1]]
Slip_ShiftHeadOnly(q) == [q EXCEPT ![0] = NULL]

FirstNull(q) == CHOOSE i \in Index : q[i] = NULL /\ \A j \in 0 .. (i - 1) : q[j] # NULL

\* Pushing into a full array loses the pointer without a trace.
Push(q, s) ==
    IF \E i \in Index : q[i] = NULL THEN [q EXCEPT ![FirstNull(q)] = s] ELSE q

Shift(q) == [i \in Index |-> IF i = PoolLen - 1 THEN NULL ELSE q[i + 1]]

Pending(q) == \E i \in Index : q[i] # NULL

Members(q) == {q[i] : i \in Index} \ {NULL}

Queued == Members(outputQueue) \cup Members(inputQueue)

----------------------------------------------------------------------------
(* messagePool_getFreeSlot and messagePool_releaseSlot.                    *)

Exhausted == \A s \in Slots : ~free[s]

FreeSlot == CHOOSE s \in Slots : free[s] /\ \A t \in 0 .. (s - 1) : ~free[t]

\* Slips: no test for the null pointer; payload_ptr not reset.
Slip_ReleaseNull(f, s) == [t \in DOMAIN f \cup {s} |-> t = s \/ f[t]]
Slip_ReleaseDirty(p, s) == p

\* Releasing the null pointer does nothing.
FreeAfterRelease(f, s) == IF s = NULL THEN f ELSE [f EXCEPT ![s] = TRUE]
PtrAfterRelease(p, s)  == IF s = NULL THEN p ELSE [p EXCEPT ![s] = 0]

----------------------------------------------------------------------------
PoolInit ==
    /\ free = [s \in Slots |-> TRUE]
    /\ payloadPtr = [s \in Slots |-> 0]
    /\ outputQueue = EmptyQueue
    /\ inputQueue = EmptyQueue

\* A producer takes a slot, writes its payload into it after what payload_ptr
\* says it already holds, and sends it.  When the pool is exhausted
\* getFreeSlot returns NULL and the event is dropped by every producer.
Send(n) ==
    /\ ~Exhausted
    /\ free' = [free EXCEPT ![FreeSlot] = FALSE]
    /\ payloadPtr' = [payloadPtr EXCEPT ![FreeSlot] = @ + n]
    /\ outputQueue' = Push(outputQueue, FreeSlot)
    /\ UNCHANGED inputQueue

\* Slip: getFreeSlot without "free = 0".
Slip_ReceiveNotTaken ==
    /\ ~Exhausted
    /\ inputQueue' = Push(inputQueue, FreeSlot)
    /\ UNCHANGED <<free, payloadPtr, outputQueue>>

\* parseMessageIn on a message it does not take for a duplicate.
Receive ==
    /\ ~Exhausted
    /\ free' = [free EXCEPT ![FreeSlot] = FALSE]
    /\ inputQueue' = Push(inputQueue, FreeSlot)
    /\ UNCHANGED <<payloadPtr, outputQueue>>

\* parseMessageIn on a message it takes for a duplicate: the slot goes back.
ReceiveDuplicate ==
    /\ ~Exhausted
    /\ payloadPtr' = [payloadPtr EXCEPT ![FreeSlot] = 0]
    /\ UNCHANGED <<free, outputQueue, inputQueue>>

\* messagePool_popOutputQueue, also called when the queue has been flushed.
PopOutput ==
    /\ free' = FreeAfterRelease(free, outputQueue[0])
    /\ payloadPtr' = PtrAfterRelease(payloadPtr, outputQueue[0])
    /\ outputQueue' = Shift(outputQueue)
    /\ UNCHANGED inputQueue

\* The main loop reads the head of the input queue, and the module that
\* recognises it removes it with messagePool_popInputQueue.
PopInput ==
    /\ inputQueue[0] # NULL
    /\ free' = FreeAfterRelease(free, inputQueue[0])
    /\ payloadPtr' = PtrAfterRelease(payloadPtr, inputQueue[0])
    /\ inputQueue' = Shift(inputQueue)
    /\ UNCHANGED outputQueue

\* procesarGetConfiguracionNodos takes a slot before it knows whether it
\* needs one: when some automation is configured it never sends it.
PopInputGetConfiguracion ==
    /\ inputQueue[0] # NULL
    /\ ~Exhausted
    /\ free' = FreeAfterRelease([free EXCEPT ![FreeSlot] = FALSE], inputQueue[0])
    /\ payloadPtr' = PtrAfterRelease(payloadPtr, inputQueue[0])
    /\ inputQueue' = Shift(inputQueue)
    /\ UNCHANGED outputQueue

\* messagePool_flushOutputQueue, once the retention time is over.
FlushOutput ==
    /\ Pending(outputQueue)
    /\ outputQueue' = EmptyQueue
    /\ UNCHANGED <<free, payloadPtr, inputQueue>>

\* messagePool_init again: the main FSM comes back to its initial state when
\* the programming mode was entered from it.
Reinit ==
    /\ free' = [s \in Slots |-> TRUE]
    /\ payloadPtr' = [s \in Slots |-> 0]
    /\ outputQueue' = EmptyQueue
    /\ inputQueue' = EmptyQueue

PoolNext ==
    \/ \E n \in PayloadLens : Send(n)
    \/ Receive
    \/ ReceiveDuplicate
    \/ PopOutput
    \/ PopInput
    \/ PopInputGetConfiguracion
    \/ FlushOutput
    \/ Reinit

PoolSpec == PoolInit /\ [][PoolNext]_poolVars

----------------------------------------------------------------------------
(* What the pool has to guarantee.                                         *)

\* The types of the variables of MessagePoolManager.c: in particular a queue holds
\* slots of the pool or NULL, and releasing never writes outside the pool.
PoolTypeOK ==
    /\ free \in [Slots -> BOOLEAN]
    /\ payloadPtr \in [Slots -> Nat]
    /\ outputQueue \in [Index -> Slots \cup {NULL}]
    /\ inputQueue \in [Index -> Slots \cup {NULL}]

Compact(q) == \A i, j \in Index : i < j /\ q[i] = NULL => q[j] = NULL

Injective(q) == \A i, j \in Index : q[i] = q[j] /\ q[i] # NULL => i = j

\* The entries of a queue are its first ones: peeking at entry 0, which is
\* all that imClient and the main loop do, never misses a queued message.
QueuesCompact == Compact(outputQueue) /\ Compact(inputQueue)

\* A slot is in the hands of one owner: it is queued at most once, in one
\* queue, and a queued slot is never handed out again by getFreeSlot.
SlotOwnership ==
    /\ Injective(outputQueue)
    /\ Injective(inputQueue)
    /\ Members(outputQueue) \cap Members(inputQueue) = {}
    /\ \A s \in Queued : ~free[s]

\* A slot comes out of the pool with an empty payload: payload_ptr is only
\* reset on release, so a slot handed out dirty would carry the bytes of an
\* older event in front of the new one.
FreeSlotsClean == \A s \in Slots : free[s] => payloadPtr[s] = 0

\* While some slot is not queued both arrays have room for it: the branch of
\* the push loops that drops the pointer when there is no NULL is dead code.
PushNeverDrops ==
    (\E s \in Slots : s \notin Queued)
        => outputQueue[PoolLen - 1] = NULL /\ inputQueue[PoolLen - 1] = NULL

\* The arrays behave as the two queues of SlotQueues: what is pushed comes
\* out once and in order, and only a flush or an unsent slot loses slots.
Contents(q) == [n \in 1 .. Cardinality({i \in Index : q[i] # NULL}) |-> q[n - 1]]
Leaked == {s \in Slots : ~free[s]} \ Queued
Queues == INSTANCE SlotQueues WITH
              out <- Contents(outputQueue), in <- Contents(inputQueue), lost <- Leaked
BehavesAsQueues == Queues!Spec

\* MessagePoolManager.h says that "free" tells whether a slot is in use: a
\* slot that nobody holds would be free.  Between two steps no producer
\* holds one, so every slot should be free or queued.
NoLeakedSlot == \A s \in Slots : free[s] \/ s \in Queued
============================================================================

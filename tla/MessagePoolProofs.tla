------------------------- MODULE MessagePoolProofs -------------------------
(***************************************************************************)
(* Proofs about MessagePool, for a pool of any length: its type invariant, *)
(* the shape of the queues, the ownership of the slots, that pushing never *)
(* drops a slot, and that the arrays and the busy flags behave as the two  *)
(* FIFO queues of slots of SlotQueues.                                     *)
(*                                                                         *)
(* The four parts of IInv are inductive together: a push keeps the queues  *)
(* injective because getFreeSlot only hands out slots that are free, and   *)
(* these are in no queue; a pop frees a slot that, the queues being        *)
(* injective and disjoint, is then in none. The refinement rests on IInv:  *)
(* only a compact and injective array is the sequence of its entries, to   *)
(* which Push appends and of which Shift takes the head.                   *)
(***************************************************************************)
EXTENDS MessagePool, FiniteSetTheorems, SequenceTheorems, TLAPS

IInv == PoolTypeOK /\ QueuesCompact /\ SlotOwnership /\ FreeSlotsClean

Entries == Slots \cup {NULL}

----------------------------------------------------------------------------
\* A nonempty set of naturals has a least element: what the loops that look
\* for the first free slot and for the first NULL find.
LEMMA LeastElement ==
    ASSUME NEW T \in SUBSET Nat, T # {}
    PROVE  \E x \in T : \A y \in T : x <= y
<1>1. PICK x \in T : \A y \in T : ~(<<y, x>> \in OpToRel(<, Nat))
    BY WFMin, NatLessThanWellFounded
<1>2. \A y \in T : ~(y < x)
    BY <1>1 DEF OpToRel
<1>3. QED
    BY <1>2

\* getFreeSlot on a pool that is not exhausted returns a slot that was free.
LEMMA FreeSlotIsFree ==
    ASSUME PoolTypeOK, ~Exhausted
    PROVE  FreeSlot \in Slots /\ free[FreeSlot]
<1> DEFINE T == {s \in Slots : free[s]}
<1>1. T \in SUBSET Nat /\ T # {}
    BY PoolLenAssumption DEF Exhausted, Slots
<1>2. PICK s \in T : \A t \in T : s <= t
    BY <1>1, LeastElement
<1>3. s \in Slots /\ free[s] /\ \A t \in 0 .. (s - 1) : ~free[t]
    BY <1>2, PoolLenAssumption DEF Slots
<1>4. QED
    BY <1>3 DEF FreeSlot

\* The push loops write into the first entry that is NULL.
LEMMA FirstNullIsNull ==
    ASSUME NEW q \in [Index -> Entries], \E i \in Index : q[i] = NULL
    PROVE  /\ FirstNull(q) \in Index
           /\ q[FirstNull(q)] = NULL
           /\ \A j \in 0 .. (FirstNull(q) - 1) : q[j] # NULL
<1> DEFINE T == {i \in Index : q[i] = NULL}
<1>1. T \in SUBSET Nat /\ T # {}
    BY PoolLenAssumption DEF Index
<1>2. PICK i \in T : \A j \in T : i <= j
    BY <1>1, LeastElement
<1>3. i \in Index /\ q[i] = NULL /\ \A j \in 0 .. (i - 1) : q[j] # NULL
    BY <1>2, PoolLenAssumption DEF Index
<1>4. QED
    BY <1>3 DEF FirstNull

\* Pushing a slot that is not in the queue keeps its shape.
LEMMA PushKeepsShape ==
    ASSUME NEW q \in [Index -> Entries], Compact(q), Injective(q),
           NEW s \in Slots, s \notin Members(q)
    PROVE  /\ Push(q, s) \in [Index -> Entries]
           /\ Compact(Push(q, s))
           /\ Injective(Push(q, s))
           /\ Members(Push(q, s)) \subseteq Members(q) \cup {s}
<1>1. CASE ~ \E i \in Index : q[i] = NULL
    BY <1>1 DEF Push
<1>2. CASE \E i \in Index : q[i] = NULL
  <2> DEFINE k == FirstNull(q)
  <2>1. k \in Index /\ q[k] = NULL /\ \A j \in 0 .. (k - 1) : q[j] # NULL
    BY <1>2, FirstNullIsNull
  <2>2. Push(q, s) = [q EXCEPT ![k] = s]
    BY <1>2 DEF Push
  <2> HIDE DEF k
  <2>3. s # NULL
    BY NullAssumption, PoolLenAssumption DEF Slots
  <2>4. \A i \in Index : q[i] # s
    BY <2>3 DEF Members
  <2>5. Push(q, s) \in [Index -> Entries]
    BY <2>1, <2>2 DEF Entries
  <2>6. Compact(Push(q, s))
    BY <2>1, <2>2, <2>3, PoolLenAssumption DEF Compact, Index
  <2>7. Injective(Push(q, s))
    BY <2>1, <2>2, <2>4 DEF Injective
  <2>8. Members(Push(q, s)) \subseteq Members(q) \cup {s}
    BY <2>1, <2>2 DEF Members
  <2>9. QED
    BY <2>5, <2>6, <2>7, <2>8
<1>3. QED
    BY <1>1, <1>2

\* Popping keeps the shape, and removes the head and nothing else.
LEMMA ShiftKeepsShape ==
    ASSUME NEW q \in [Index -> Entries], Compact(q), Injective(q)
    PROVE  /\ Shift(q) \in [Index -> Entries]
           /\ Compact(Shift(q))
           /\ Injective(Shift(q))
           /\ Members(Shift(q)) \subseteq Members(q) \ {q[0]}
<1>1. \A i \in Index : i # PoolLen - 1 => i + 1 \in Index
    BY PoolLenAssumption DEF Index
<1>2. Shift(q) \in [Index -> Entries]
    BY <1>1 DEF Shift, Entries
<1>3. Compact(Shift(q))
    BY <1>1, PoolLenAssumption DEF Compact, Shift, Index
<1>4. Injective(Shift(q))
    BY <1>1, PoolLenAssumption DEF Injective, Shift, Index
<1>5. Members(Shift(q)) \subseteq Members(q) \ {q[0]}
  <2>1. SUFFICES ASSUME NEW i \in Index, Shift(q)[i] # NULL
                 PROVE  Shift(q)[i] \in Members(q) /\ Shift(q)[i] # q[0]
    BY DEF Members
  <2>2. i + 1 \in Index /\ Shift(q)[i] = q[i + 1]
    BY <2>1, <1>1 DEF Shift
  <2>3. 0 \in Index /\ i + 1 # 0
    BY PoolLenAssumption DEF Index
  <2>4. QED
    BY <2>1, <2>2, <2>3 DEF Members, Injective
<1>6. QED
    BY <1>2, <1>3, <1>4, <1>5

\* A queue that has been flushed.
LEMMA EmptyQueueShape ==
    /\ EmptyQueue \in [Index -> Entries]
    /\ Compact(EmptyQueue) /\ Injective(EmptyQueue) /\ Members(EmptyQueue) = {}
BY DEF EmptyQueue, Entries, Compact, Injective, Members

----------------------------------------------------------------------------
(* IInv is an inductive invariant.                                         *)

\* messagePool_init leaves every slot free and clean, and both queues empty.
LEMMA InitIInv == PoolInit => IInv
<1> SUFFICES ASSUME PoolInit PROVE IInv
    OBVIOUS
<1>1. PoolTypeOK
    BY EmptyQueueShape DEF PoolInit, PoolTypeOK, Entries
<1>2. QueuesCompact /\ SlotOwnership
    BY EmptyQueueShape DEF PoolInit, QueuesCompact, SlotOwnership, Queued
<1>3. FreeSlotsClean
    BY DEF PoolInit, FreeSlotsClean
<1>4. QED
    BY <1>1, <1>2, <1>3 DEF IInv

\* A slot that getFreeSlot returns is in no queue.
LEMMA FreeSlotIsNotQueued ==
    ASSUME PoolTypeOK, SlotOwnership, ~Exhausted
    PROVE  /\ FreeSlot \in Slots /\ free[FreeSlot]
           /\ FreeSlot \notin Members(outputQueue) /\ FreeSlot \notin Members(inputQueue)
BY FreeSlotIsFree DEF SlotOwnership, Queued

\* What IInv says of the two queues, in the form that the lemmas on them use.
LEMMA QueuesShape ==
    ASSUME IInv
    PROVE  /\ outputQueue \in [Index -> Entries] /\ inputQueue \in [Index -> Entries]
           /\ Compact(outputQueue) /\ Compact(inputQueue)
           /\ Injective(outputQueue) /\ Injective(inputQueue)
BY DEF IInv, PoolTypeOK, Entries, QueuesCompact, SlotOwnership

\* The head of a queue that is not empty is one of its slots, in this queue only.
LEMMA HeadIsMember ==
    ASSUME NEW q \in [Index -> Entries], q[0] # NULL
    PROVE  q[0] \in Slots /\ q[0] \in Members(q)
BY PoolLenAssumption DEF Index, Entries, Members

\* imClient_send: the slot was free, so it is in no queue until it is pushed.
LEMMA SendStep == ASSUME IInv, NEW n \in PayloadLens, Send(n) PROVE IInv'
<1>0. /\ outputQueue \in [Index -> Entries] /\ inputQueue \in [Index -> Entries]
      /\ Compact(outputQueue) /\ Compact(inputQueue)
      /\ Injective(outputQueue) /\ Injective(inputQueue)
    BY QueuesShape
<1>1. /\ FreeSlot \in Slots /\ free[FreeSlot]
      /\ FreeSlot \notin Members(outputQueue) /\ FreeSlot \notin Members(inputQueue)
    BY FreeSlotIsNotQueued DEF IInv, Send
<1> DEFINE s == FreeSlot
<1>2. /\ free' = [free EXCEPT ![s] = FALSE]
      /\ payloadPtr' = [payloadPtr EXCEPT ![s] = @ + n]
      /\ outputQueue' = Push(outputQueue, s)
      /\ inputQueue' = inputQueue
    BY DEF Send
<1> HIDE DEF s
<1>3. /\ Push(outputQueue, s) \in [Index -> Entries]
      /\ Compact(Push(outputQueue, s))
      /\ Injective(Push(outputQueue, s))
      /\ Members(Push(outputQueue, s)) \subseteq Members(outputQueue) \cup {s}
    BY <1>0, <1>1, PushKeepsShape DEF s
<1>4. PoolTypeOK'
    BY <1>0, <1>1, <1>2, <1>3, PayloadAssumption DEF PoolTypeOK, IInv, Entries, s
<1>5. QueuesCompact'
    BY <1>0, <1>2, <1>3 DEF QueuesCompact
<1>6. SlotOwnership'
    BY <1>1, <1>2, <1>3 DEF SlotOwnership, IInv, PoolTypeOK, Queued, s
<1>7. FreeSlotsClean'
    BY <1>1, <1>2 DEF FreeSlotsClean, IInv, PoolTypeOK, s
<1>8. QED
    BY <1>4, <1>5, <1>6, <1>7 DEF IInv

\* parseMessageIn, likewise with the input queue.
LEMMA ReceiveStep == ASSUME IInv, Receive PROVE IInv'
<1>0. /\ outputQueue \in [Index -> Entries] /\ inputQueue \in [Index -> Entries]
      /\ Compact(outputQueue) /\ Compact(inputQueue)
      /\ Injective(outputQueue) /\ Injective(inputQueue)
    BY QueuesShape
<1>1. /\ FreeSlot \in Slots /\ free[FreeSlot]
      /\ FreeSlot \notin Members(outputQueue) /\ FreeSlot \notin Members(inputQueue)
    BY FreeSlotIsNotQueued DEF IInv, Receive
<1> DEFINE s == FreeSlot
<1>2. /\ free' = [free EXCEPT ![s] = FALSE]
      /\ inputQueue' = Push(inputQueue, s)
      /\ payloadPtr' = payloadPtr /\ outputQueue' = outputQueue
    BY DEF Receive
<1> HIDE DEF s
<1>3. /\ Push(inputQueue, s) \in [Index -> Entries]
      /\ Compact(Push(inputQueue, s))
      /\ Injective(Push(inputQueue, s))
      /\ Members(Push(inputQueue, s)) \subseteq Members(inputQueue) \cup {s}
    BY <1>0, <1>1, PushKeepsShape DEF s
<1>4. PoolTypeOK'
    BY <1>0, <1>1, <1>2, <1>3 DEF PoolTypeOK, IInv, Entries, s
<1>5. QueuesCompact'
    BY <1>0, <1>2, <1>3 DEF QueuesCompact
<1>6. SlotOwnership'
    BY <1>1, <1>2, <1>3 DEF SlotOwnership, IInv, PoolTypeOK, Queued, s
<1>7. FreeSlotsClean'
    BY <1>1, <1>2 DEF FreeSlotsClean, IInv, PoolTypeOK, s
<1>8. QED
    BY <1>4, <1>5, <1>6, <1>7 DEF IInv

\* parseMessageIn on a duplicate: the slot goes back as it came.
LEMMA ReceiveDuplicateStep == ASSUME IInv, ReceiveDuplicate PROVE IInv'
<1>1. FreeSlot \in Slots
    BY FreeSlotIsFree DEF IInv, ReceiveDuplicate
<1>2. PoolTypeOK' /\ FreeSlotsClean'
    BY <1>1 DEF IInv, PoolTypeOK, FreeSlotsClean, ReceiveDuplicate
<1>3. QueuesCompact' /\ SlotOwnership'
    BY DEF IInv, QueuesCompact, SlotOwnership, Queued, ReceiveDuplicate
<1>4. QED
    BY <1>2, <1>3 DEF IInv

\* messagePool_popOutputQueue: the slot it frees is, once popped, in no queue.
LEMMA PopOutputStep == ASSUME IInv, PopOutput PROVE IInv'
<1> DEFINE h == outputQueue[0]
<1>0. /\ outputQueue \in [Index -> Entries] /\ inputQueue \in [Index -> Entries]
      /\ Compact(outputQueue) /\ Compact(inputQueue)
      /\ Injective(outputQueue) /\ Injective(inputQueue)
    BY QueuesShape
<1>1. /\ free' = FreeAfterRelease(free, h)
      /\ payloadPtr' = PtrAfterRelease(payloadPtr, h)
      /\ outputQueue' = Shift(outputQueue) /\ inputQueue' = inputQueue
    BY DEF PopOutput
<1>2. /\ Shift(outputQueue) \in [Index -> Entries]
      /\ Compact(Shift(outputQueue)) /\ Injective(Shift(outputQueue))
      /\ Members(Shift(outputQueue)) \subseteq Members(outputQueue) \ {h}
    BY <1>0, ShiftKeepsShape
<1>3. h = NULL \/ (h \in Slots /\ h \in Members(outputQueue))
    BY <1>0, HeadIsMember
<1> HIDE DEF h
<1>4. PoolTypeOK'
    BY <1>0, <1>1, <1>2, <1>3
       DEF PoolTypeOK, IInv, Entries, FreeAfterRelease, PtrAfterRelease
<1>5. QueuesCompact'
    BY <1>0, <1>1, <1>2 DEF QueuesCompact
<1>6. SlotOwnership'
    BY <1>0, <1>1, <1>2, <1>3
       DEF SlotOwnership, IInv, PoolTypeOK, Queued, FreeAfterRelease
<1>7. FreeSlotsClean'
    BY <1>1, <1>3 DEF FreeSlotsClean, IInv, PoolTypeOK, FreeAfterRelease, PtrAfterRelease
<1>8. QED
    BY <1>4, <1>5, <1>6, <1>7 DEF IInv

\* messagePool_popInputQueue, likewise.
LEMMA PopInputStep == ASSUME IInv, PopInput PROVE IInv'
<1> DEFINE h == inputQueue[0]
<1>0. /\ outputQueue \in [Index -> Entries] /\ inputQueue \in [Index -> Entries]
      /\ Compact(outputQueue) /\ Compact(inputQueue)
      /\ Injective(outputQueue) /\ Injective(inputQueue)
    BY QueuesShape
<1>1. /\ free' = FreeAfterRelease(free, h)
      /\ payloadPtr' = PtrAfterRelease(payloadPtr, h)
      /\ inputQueue' = Shift(inputQueue) /\ outputQueue' = outputQueue
    BY DEF PopInput
<1>2. /\ Shift(inputQueue) \in [Index -> Entries]
      /\ Compact(Shift(inputQueue)) /\ Injective(Shift(inputQueue))
      /\ Members(Shift(inputQueue)) \subseteq Members(inputQueue) \ {h}
    BY <1>0, ShiftKeepsShape
<1>3. h \in Slots /\ h \in Members(inputQueue)
    BY <1>0, HeadIsMember DEF PopInput
<1> HIDE DEF h
<1>4. PoolTypeOK'
    BY <1>0, <1>1, <1>2, <1>3
       DEF PoolTypeOK, IInv, Entries, FreeAfterRelease, PtrAfterRelease
<1>5. QueuesCompact'
    BY <1>0, <1>1, <1>2 DEF QueuesCompact
<1>6. SlotOwnership'
    BY <1>0, <1>1, <1>2, <1>3
       DEF SlotOwnership, IInv, PoolTypeOK, Queued, FreeAfterRelease
<1>7. FreeSlotsClean'
    BY <1>1, <1>3 DEF FreeSlotsClean, IInv, PoolTypeOK, FreeAfterRelease, PtrAfterRelease
<1>8. QED
    BY <1>4, <1>5, <1>6, <1>7 DEF IInv

\* The slot that is never sent is not free and in no queue: the invariant
\* does not care.
LEMMA PopInputGetConfiguracionStep == ASSUME IInv, PopInputGetConfiguracion PROVE IInv'
<1> DEFINE h == inputQueue[0]
           s == FreeSlot
<1>0. /\ outputQueue \in [Index -> Entries] /\ inputQueue \in [Index -> Entries]
      /\ Compact(outputQueue) /\ Compact(inputQueue)
      /\ Injective(outputQueue) /\ Injective(inputQueue)
    BY QueuesShape
<1>1. /\ free' = FreeAfterRelease([free EXCEPT ![s] = FALSE], h)
      /\ payloadPtr' = PtrAfterRelease(payloadPtr, h)
      /\ inputQueue' = Shift(inputQueue) /\ outputQueue' = outputQueue
    BY DEF PopInputGetConfiguracion
<1>2. /\ Shift(inputQueue) \in [Index -> Entries]
      /\ Compact(Shift(inputQueue)) /\ Injective(Shift(inputQueue))
      /\ Members(Shift(inputQueue)) \subseteq Members(inputQueue) \ {h}
    BY <1>0, ShiftKeepsShape
<1>3. h # NULL /\ h \in Slots /\ h \in Members(inputQueue)
    BY <1>0, HeadIsMember DEF PopInputGetConfiguracion
<1>4. s \in Slots /\ free[s]
    BY FreeSlotIsFree DEF IInv, PopInputGetConfiguracion
<1> HIDE DEF h, s
<1>5. PoolTypeOK'
    BY <1>0, <1>1, <1>2, <1>3, <1>4
       DEF PoolTypeOK, IInv, Entries, FreeAfterRelease, PtrAfterRelease
<1>6. QueuesCompact'
    BY <1>0, <1>1, <1>2 DEF QueuesCompact
<1>7. SlotOwnership'
  <2>1. Injective(outputQueue') /\ Injective(inputQueue')
    BY <1>0, <1>1, <1>2
  <2>2. Members(outputQueue') \cap Members(inputQueue') = {}
    BY <1>1, <1>2 DEF IInv, SlotOwnership
  <2>3. ASSUME NEW t \in Members(outputQueue') \cup Members(inputQueue') PROVE ~free'[t]
    <3>1. t \in Queued /\ t # h
      BY <1>1, <1>2, <1>3, <2>3 DEF IInv, SlotOwnership, Queued
    <3>2. ~free[t]
      BY <3>1 DEF IInv, SlotOwnership
    <3>3. free' = [[free EXCEPT ![s] = FALSE] EXCEPT ![h] = TRUE]
      BY <1>1, <1>3 DEF FreeAfterRelease
    <3>4. t \in Slots
      BY <3>1, <1>0 DEF Queued, Members, Entries
    <3>5. QED
      BY <3>1, <3>2, <3>3, <3>4, <1>4 DEF IInv, PoolTypeOK
  <2>4. QED
    BY <2>1, <2>2, <2>3 DEF SlotOwnership, Queued
<1>8. FreeSlotsClean'
    BY <1>1, <1>3, <1>4 DEF FreeSlotsClean, IInv, PoolTypeOK, FreeAfterRelease, PtrAfterRelease
<1>9. QED
    BY <1>5, <1>6, <1>7, <1>8 DEF IInv

\* messagePool_flushOutputQueue forgets the slots without freeing them.
LEMMA FlushOutputStep == ASSUME IInv, FlushOutput PROVE IInv'
<1>1. PoolTypeOK' /\ FreeSlotsClean'
    BY EmptyQueueShape DEF IInv, PoolTypeOK, Entries, FreeSlotsClean, FlushOutput
<1>2. QueuesCompact' /\ SlotOwnership'
    BY EmptyQueueShape DEF IInv, QueuesCompact, SlotOwnership, Queued, FlushOutput
<1>3. QED
    BY <1>1, <1>2 DEF IInv

\* messagePool_init again, from whatever state.
LEMMA ReinitStep == ASSUME Reinit PROVE IInv'
<1>1. PoolTypeOK' /\ FreeSlotsClean'
    BY EmptyQueueShape DEF PoolTypeOK, Entries, FreeSlotsClean, Reinit
<1>2. QueuesCompact' /\ SlotOwnership'
    BY EmptyQueueShape DEF QueuesCompact, SlotOwnership, Queued, Reinit
<1>3. QED
    BY <1>1, <1>2 DEF IInv

\* Every operation on the pool preserves IInv.
LEMMA NextIInv == IInv /\ [PoolNext]_poolVars => IInv'
<1> SUFFICES ASSUME IInv, [PoolNext]_poolVars PROVE IInv'
    OBVIOUS
<1>1. ASSUME NEW n \in PayloadLens, Send(n) PROVE IInv'
    BY <1>1, SendStep
<1>2. CASE Receive
    BY <1>2, ReceiveStep
<1>3. CASE ReceiveDuplicate
    BY <1>3, ReceiveDuplicateStep
<1>4. CASE PopOutput
    BY <1>4, PopOutputStep
<1>5. CASE PopInput
    BY <1>5, PopInputStep
<1>6. CASE PopInputGetConfiguracion
    BY <1>6, PopInputGetConfiguracionStep
<1>7. CASE FlushOutput
    BY <1>7, FlushOutputStep
<1>8. CASE Reinit
    BY <1>8, ReinitStep
<1>9. CASE UNCHANGED poolVars
    BY <1>9 DEF poolVars, IInv, PoolTypeOK, QueuesCompact, SlotOwnership, FreeSlotsClean, Queued
<1>10. QED
    BY <1>1, <1>2, <1>3, <1>4, <1>5, <1>6, <1>7, <1>8, <1>9 DEF PoolNext

----------------------------------------------------------------------------
\* Whatever its length, the pool keeps its type, its queues keep their entries
\* at the front, no slot is queued twice or handed out while it is queued, and
\* a free slot has an empty payload.
THEOREM PoolInvariant == PoolSpec => []IInv
<1>1. PoolInit => IInv
    BY InitIInv
<1>2. IInv /\ [PoolNext]_poolVars => IInv'
    BY NextIInv
<1>3. QED
    BY <1>1, <1>2, PTL DEF PoolSpec

\* The variables of MessagePoolManager.c keep their types.
THEOREM PoolTypeCorrect == PoolSpec => []PoolTypeOK
<1>1. IInv => PoolTypeOK
    BY DEF IInv
<1>2. QED
    BY <1>1, PoolInvariant, PTL

\* Entry 0 of a queue, the only one that is read, is empty only when the whole
\* queue is.
THEOREM PoolQueuesCompact == PoolSpec => []QueuesCompact
<1>1. IInv => QueuesCompact
    BY DEF IInv
<1>2. QED
    BY <1>1, PoolInvariant, PTL

\* Every slot has one owner.
THEOREM PoolSlotOwnership == PoolSpec => []SlotOwnership
<1>1. IInv => SlotOwnership
    BY DEF IInv
<1>2. QED
    BY <1>1, PoolInvariant, PTL

\* getFreeSlot only hands out slots whose payload is empty.
THEOREM PoolFreeSlotsClean == PoolSpec => []FreeSlotsClean
<1>1. IInv => FreeSlotsClean
    BY DEF IInv
<1>2. QED
    BY <1>1, PoolInvariant, PTL

\* A queue whose last entry is taken holds every slot of the pool: there are as
\* many entries as slots.
LEMMA FullQueueHoldsAll ==
    ASSUME NEW q \in [Index -> Entries], Compact(q), Injective(q),
           q[PoolLen - 1] # NULL,
           NEW s \in Slots
    PROVE  s \in Members(q)
<1>1. SUFFICES ASSUME s \notin Members(q) PROVE FALSE
    OBVIOUS
<1>2. \A i \in Index : q[i] # NULL
  <2>1. PoolLen - 1 \in Index /\ \A i \in Index : i # PoolLen - 1 => i < PoolLen - 1
    BY PoolLenAssumption DEF Index
  <2>2. QED
    BY <2>1 DEF Compact
<1>3. q \in [Index -> Slots \ {s}]
    BY <1>1, <1>2 DEF Entries, Members
<1>4. /\ IsFiniteSet(Index) /\ IsFiniteSet(Slots)
      /\ Cardinality(Index) = PoolLen /\ Cardinality(Slots) = PoolLen
    BY FS_Interval, PoolLenAssumption DEF Index, Slots
<1>5. IsFiniteSet(Slots \ {s}) /\ Cardinality(Slots \ {s}) = PoolLen - 1
    BY <1>4, FS_RemoveElement
<1>6. Cardinality(Slots \ {s}) < Cardinality(Index)
    BY <1>4, <1>5, PoolLenAssumption
<1>7. PICK i, j \in Index : i # j /\ q[i] = q[j]
    BY <1>3, <1>4, <1>5, <1>6, FS_PigeonHole
<1>8. QED
    BY <1>2, <1>7 DEF Injective

\* The branch of the push loops that drops the pointer is dead code: as long as
\* a slot is in no queue, both queues have room for it.
THEOREM PoolPushNeverDrops == PoolSpec => []PushNeverDrops
<1>1. IInv => PushNeverDrops
  <2> SUFFICES ASSUME IInv, NEW s \in Slots, s \notin Queued
               PROVE  outputQueue[PoolLen - 1] = NULL /\ inputQueue[PoolLen - 1] = NULL
    BY DEF PushNeverDrops
  <2>1. s \notin Members(outputQueue) /\ s \notin Members(inputQueue)
    BY DEF Queued
  <2>2. QED
    BY <2>1, QueuesShape, FullQueueHoldsAll
<1>2. QED
    BY <1>1, PoolInvariant, PTL

----------------------------------------------------------------------------
(* The arrays behave as the two queues of SlotQueues.                      *)

\* The entries of a compact array are its first ones, and these are its contents.
LEMMA ContentsOfCompact ==
    ASSUME NEW q \in [Index -> Entries], Compact(q)
    PROVE  \E m \in 0 .. PoolLen :
              /\ \A i \in Index : q[i] # NULL <=> i < m
              /\ Contents(q) = [n \in 1 .. m |-> q[n - 1]]
              /\ Contents(q) \in Seq(Slots) /\ Len(Contents(q)) = m
<1>1. PICK m \in 0 .. PoolLen : \A i \in Index : q[i] # NULL <=> i < m
  <2>1. CASE \E i \in Index : q[i] = NULL
    <3> DEFINE k == FirstNull(q)
    <3>1. k \in Index /\ q[k] = NULL /\ \A j \in 0 .. (k - 1) : q[j] # NULL
        BY <2>1, FirstNullIsNull
    <3> HIDE DEF k
    <3>2. \A i \in Index : q[i] # NULL <=> i < k
        BY <3>1, PoolLenAssumption DEF Compact, Index
    <3>3. k \in 0 .. PoolLen
        BY <3>1, PoolLenAssumption DEF Index
    <3>4. QED
        BY <3>2, <3>3
  <2>2. CASE \A i \in Index : q[i] # NULL
    <3>1. PoolLen \in 0 .. PoolLen /\ \A i \in Index : i < PoolLen
        BY PoolLenAssumption DEF Index
    <3>2. QED
        BY <2>2, <3>1
  <2>3. QED
      BY <2>1, <2>2
<1>2. {i \in Index : q[i] # NULL} = 0 .. (m - 1)
    BY <1>1, PoolLenAssumption DEF Index
<1>3. Cardinality(0 .. (m - 1)) = m
  <2>1. 0 \in Int /\ m - 1 \in Int /\ (IF 0 > m - 1 THEN 0 ELSE m - 1 - 0 + 1) = m
      BY PoolLenAssumption
  <2>2. QED
      BY <2>1, FS_Interval
<1>4. Contents(q) = [n \in 1 .. m |-> q[n - 1]]
    BY <1>2, <1>3 DEF Contents
<1>5. \A n \in 1 .. m : q[n - 1] \in Slots
  <2>1. \A n \in 1 .. m : n - 1 \in Index /\ n - 1 < m
      BY PoolLenAssumption DEF Index
  <2>2. QED
      BY <1>1, <2>1 DEF Entries
<1>6. Contents(q) \in Seq(Slots) /\ Len(Contents(q)) = m
    BY <1>4, <1>5, PoolLenAssumption
<1>7. QED
    BY <1>1, <1>4, <1>6

\* What is queued is what the contents hold.
LEMMA ElementsOfContents ==
    ASSUME NEW q \in [Index -> Entries], Compact(q)
    PROVE  Queues!Elements(Contents(q)) = Members(q)
<1>1. PICK m \in 0 .. PoolLen :
          /\ \A i \in Index : q[i] # NULL <=> i < m
          /\ Contents(q) = [n \in 1 .. m |-> q[n - 1]]
          /\ Contents(q) \in Seq(Slots) /\ Len(Contents(q)) = m
    BY ContentsOfCompact
<1>2. ASSUME NEW n \in 1 .. m PROVE Contents(q)[n] \in Members(q)
  <2>1. n - 1 \in Index /\ n - 1 < m
      BY PoolLenAssumption DEF Index
  <2>2. QED
      BY <1>1, <2>1 DEF Members
<1>3. ASSUME NEW i \in Index, q[i] # NULL PROVE \E n \in 1 .. m : Contents(q)[n] = q[i]
  <2>1. i + 1 \in 1 .. m /\ (i + 1) - 1 = i
      BY <1>1, <1>3, PoolLenAssumption DEF Index
  <2>2. QED
      BY <1>1, <2>1
<1> DEFINE c == Contents(q)
<1>4. Queues!Elements(c) = {c[n] : n \in 1 .. m}
    BY <1>1 DEF Queues!Elements
<1> HIDE DEF c
<1>5. {c[n] : n \in 1 .. m} \subseteq Members(q)
    BY <1>2 DEF c
<1>6. Members(q) \subseteq {c[n] : n \in 1 .. m}
    BY <1>3 DEF c, Members
<1>7. QED
    BY <1>4, <1>5, <1>6 DEF c

LEMMA ContentsOfEmpty == Contents(EmptyQueue) = <<>>
<1>1. PICK m \in 0 .. PoolLen :
          /\ \A i \in Index : EmptyQueue[i] # NULL <=> i < m
          /\ Contents(EmptyQueue) \in Seq(Slots) /\ Len(Contents(EmptyQueue)) = m
    BY EmptyQueueShape, ContentsOfCompact
<1>2. 0 \in Index /\ EmptyQueue[0] = NULL
    BY PoolLenAssumption DEF Index, EmptyQueue
<1>3. m = 0
    BY <1>1, <1>2, PoolLenAssumption
<1>4. QED
    BY <1>1, <1>3, EmptySeq

\* Pushing appends, as long as there is room.
LEMMA ContentsOfPush ==
    ASSUME NEW q \in [Index -> Entries], Compact(q), Injective(q),
           NEW s \in Slots, s \notin Members(q), q[PoolLen - 1] = NULL
    PROVE  Contents(Push(q, s)) = Append(Contents(q), s)
<1> DEFINE p == Push(q, s)
<1>1. PICK m \in 0 .. PoolLen :
          /\ \A i \in Index : q[i] # NULL <=> i < m
          /\ Contents(q) = [n \in 1 .. m |-> q[n - 1]]
          /\ Contents(q) \in Seq(Slots) /\ Len(Contents(q)) = m
    BY ContentsOfCompact
<1>2. m < PoolLen /\ m \in Index
  <2>1. PoolLen - 1 \in Index
      BY PoolLenAssumption DEF Index
  <2>2. QED
      BY <1>1, <2>1, PoolLenAssumption DEF Index
<1>3. p = [q EXCEPT ![m] = s]
  <2>1. FirstNull(q) \in Index /\ q[FirstNull(q)] = NULL
        /\ \A j \in 0 .. (FirstNull(q) - 1) : q[j] # NULL
      BY <1>1, <1>2, FirstNullIsNull
  <2>2. ~(FirstNull(q) < m)
      BY <1>1, <2>1
  <2>3. ~(m < FirstNull(q))
    <3>1. m < FirstNull(q) => m \in 0 .. (FirstNull(q) - 1)
        BY <2>1, PoolLenAssumption DEF Index
    <3>2. q[m] = NULL
        BY <1>1, <1>2
    <3>3. QED
        BY <2>1, <3>1, <3>2
  <2>4. FirstNull(q) = m
      BY <2>1, <2>2, <2>3, PoolLenAssumption DEF Index
  <2>5. QED
      BY <1>1, <1>2, <2>4 DEF Push
<1>4. s # NULL
    BY NullAssumption, PoolLenAssumption DEF Slots
<1>5. p \in [Index -> Entries] /\ Compact(p)
    BY PushKeepsShape
<1>6. PICK k \in 0 .. PoolLen :
          /\ \A i \in Index : p[i] # NULL <=> i < k
          /\ Contents(p) = [n \in 1 .. k |-> p[n - 1]]
          /\ Contents(p) \in Seq(Slots) /\ Len(Contents(p)) = k
    BY <1>5, ContentsOfCompact
<1>7. k = m + 1
  <2>1. \A i \in Index : p[i] # NULL <=> i < m + 1
      BY <1>1, <1>2, <1>3, <1>4, PoolLenAssumption DEF Index
  <2>2. ~(k < m + 1)
    <3>1. k < m + 1 => k \in Index /\ ~(k < k)
        BY <1>2, PoolLenAssumption DEF Index
    <3>2. QED
        BY <1>6, <2>1, <3>1
  <2>3. ~(m + 1 < k)
    <3>1. m + 1 < k => m + 1 \in Index /\ ~(m + 1 < m + 1)
        BY <1>2, PoolLenAssumption DEF Index
    <3>2. QED
        BY <1>6, <2>1, <3>1
  <2>4. QED
      BY <2>2, <2>3, PoolLenAssumption
<1>8. DEFINE c == Contents(q)
             a == Append(c, s)
<1>9. a \in Seq(Slots) /\ Len(a) = m + 1 /\ (\A i \in 1 .. m : a[i] = c[i]) /\ a[m + 1] = s
    BY <1>1, AppendProperties
<1>10. ASSUME NEW i \in 1 .. m + 1 PROVE Contents(p)[i] = a[i]
  <2>1. Contents(p)[i] = p[i - 1] /\ i - 1 \in Index
      BY <1>2, <1>6, <1>7, PoolLenAssumption DEF Index
  <2>2. CASE i = m + 1
      BY <1>2, <1>3, <1>9, <2>1, <2>2, PoolLenAssumption
  <2>3. CASE i # m + 1
    <3>1. i \in 1 .. m /\ i - 1 # m
        BY <2>3, PoolLenAssumption
    <3>2. p[i - 1] = q[i - 1]
        BY <1>3, <2>1, <3>1
    <3>3. QED
        BY <1>1, <1>9, <2>1, <3>1, <3>2
  <2>4. QED
      BY <2>2, <2>3
<1>11. QED
  <2> HIDE DEF p, a, c
  <2>1. Contents(p) = a
      BY <1>6, <1>7, <1>9, <1>10, SeqEqual
  <2>2. QED
      BY <2>1 DEF p, a, c

\* Shifting takes the head away.
LEMMA ContentsOfShift ==
    ASSUME NEW q \in [Index -> Entries], Compact(q), Injective(q), q[0] # NULL
    PROVE  /\ Contents(q) # <<>> /\ Contents(Shift(q)) = Tail(Contents(q))
           /\ Members(Shift(q)) = Members(q) \ {q[0]}
<1> DEFINE p == Shift(q)
<1>1. PICK m \in 0 .. PoolLen :
          /\ \A i \in Index : q[i] # NULL <=> i < m
          /\ Contents(q) = [n \in 1 .. m |-> q[n - 1]]
          /\ Contents(q) \in Seq(Slots) /\ Len(Contents(q)) = m
    BY ContentsOfCompact
<1>2. 0 \in Index /\ m > 0
    BY <1>1, PoolLenAssumption DEF Index
<1>3. Contents(q) # <<>>
    BY <1>1, <1>2, EmptySeq
<1>4. p \in [Index -> Entries] /\ Compact(p) /\ Members(p) \subseteq Members(q) \ {q[0]}
    BY ShiftKeepsShape
<1>5. PICK k \in 0 .. PoolLen :
          /\ \A i \in Index : p[i] # NULL <=> i < k
          /\ Contents(p) = [n \in 1 .. k |-> p[n - 1]]
          /\ Contents(p) \in Seq(Slots) /\ Len(Contents(p)) = k
    BY <1>4, ContentsOfCompact
<1>6. \A i \in Index : p[i] # NULL <=> i < m - 1
  <2>1. ASSUME NEW i \in Index PROVE p[i] # NULL <=> i < m - 1
    <3>1. CASE i = PoolLen - 1
        BY <3>1, PoolLenAssumption DEF Shift, Index
    <3>2. CASE i # PoolLen - 1
      <4>1. i + 1 \in Index /\ p[i] = q[i + 1]
          BY <3>2, PoolLenAssumption DEF Shift, Index
      <4>2. q[i + 1] # NULL <=> i + 1 < m
          BY <1>1, <4>1
      <4>3. QED
          BY <4>1, <4>2, PoolLenAssumption DEF Index
    <3>3. QED
        BY <3>1, <3>2
  <2>2. QED
      BY <2>1
<1>7. k = m - 1
  <2>1. ~(k < m - 1)
    <3>1. k < m - 1 => k \in Index /\ ~(k < k)
        BY PoolLenAssumption DEF Index
    <3>2. QED
        BY <1>5, <1>6, <3>1
  <2>2. ~(m - 1 < k)
    <3>1. m - 1 < k => m - 1 \in Index /\ ~(m - 1 < m - 1)
        BY <1>2, PoolLenAssumption DEF Index
    <3>2. QED
        BY <1>5, <1>6, <3>1
  <2>3. QED
      BY <2>1, <2>2, PoolLenAssumption
<1>8. DEFINE c == Contents(q)
             t == Tail(c)
<1>9. t \in Seq(Slots) /\ Len(t) = m - 1 /\ \A i \in 1 .. m - 1 : t[i] = c[i + 1]
    BY <1>1, <1>3, HeadTailProperties
<1>10. ASSUME NEW i \in 1 .. m - 1 PROVE Contents(p)[i] = t[i]
  <2>1. Contents(p)[i] = p[i - 1] /\ i - 1 \in Index /\ i - 1 # PoolLen - 1
      BY <1>5, <1>7, PoolLenAssumption DEF Index
  <2>2. p[i - 1] = q[i]
      BY <2>1 DEF Shift
  <2>3. c[i + 1] = q[i]
      BY <1>1
  <2>4. QED
      BY <1>9, <2>1, <2>2, <2>3
<1>11. Contents(p) = t
  <2> HIDE DEF p, c, t
  <2>1. QED
      BY <1>5, <1>7, <1>9, <1>10, SeqEqual
<1>12. Members(q) \ {q[0]} \subseteq Members(p)
  <2>1. ASSUME NEW i \in Index, q[i] # NULL, q[i] # q[0] PROVE q[i] \in Members(p)
    <3>1. i - 1 \in Index /\ i - 1 # PoolLen - 1
        BY <2>1, PoolLenAssumption DEF Index
    <3>2. (i - 1) + 1 = i
        BY PoolLenAssumption DEF Index
    <3>3. p[i - 1] = q[i]
        BY <3>1, <3>2 DEF Shift
    <3>4. p[i - 1] \in Members(p)
        BY <2>1, <3>1, <3>3 DEF Members
    <3>5. QED
        BY <3>3, <3>4
  <2>2. QED
      BY <2>1 DEF Members
<1>13. QED
    BY <1>3, <1>4, <1>11, <1>12

\* An array whose head is NULL has no entry, before and after a shift.
LEMMA ShiftOfEmpty ==
    ASSUME NEW q \in [Index -> Entries], Compact(q), q[0] = NULL
    PROVE  Shift(q) = q
<1>1. \A i \in Index : q[i] = NULL
  <2>1. 0 \in Index /\ \A i \in Index : i = 0 \/ 0 < i
      BY PoolLenAssumption DEF Index
  <2>2. QED
      BY <2>1 DEF Compact
<1>2. \A i \in Index : i # PoolLen - 1 => i + 1 \in Index
    BY PoolLenAssumption DEF Index
<1>3. QED
    BY <1>1, <1>2 DEF Shift

\* The slots that SlotQueues takes for idle are the free ones.
LEMMA IdleAreFree ==
    ASSUME IInv PROVE Queues!Idle = {s \in Slots : free[s]}
<1>1. /\ Queues!Elements(Contents(outputQueue)) = Members(outputQueue)
      /\ Queues!Elements(Contents(inputQueue)) = Members(inputQueue)
    BY QueuesShape, ElementsOfContents
<1>2. \A s \in Members(outputQueue) \cup Members(inputQueue) : ~free[s]
    BY DEF IInv, SlotOwnership, Queued
<1>3. QED
    BY <1>1, <1>2 DEF Queues!Idle, Leaked, Queued

\* A slot that is taken is idle, in no queue, and finds room in both.
LEMMA TakenSlot ==
    ASSUME IInv, ~Exhausted
    PROVE  /\ FreeSlot \in Slots /\ free[FreeSlot] /\ FreeSlot \in Queues!Idle
           /\ FreeSlot \notin Members(outputQueue) /\ FreeSlot \notin Members(inputQueue)
           /\ outputQueue[PoolLen - 1] = NULL /\ inputQueue[PoolLen - 1] = NULL
<1>1. /\ FreeSlot \in Slots /\ free[FreeSlot]
      /\ FreeSlot \notin Members(outputQueue) /\ FreeSlot \notin Members(inputQueue)
    BY FreeSlotIsNotQueued DEF IInv
<1>2. FreeSlot \in Queues!Idle
    BY <1>1, IdleAreFree
<1>3. outputQueue[PoolLen - 1] = NULL /\ inputQueue[PoolLen - 1] = NULL
    BY <1>1, QueuesShape, FullQueueHoldsAll
<1>4. QED
    BY <1>1, <1>2, <1>3

\* Pushing a slot that was not queued adds it to the members.
LEMMA PushedIsMember ==
    ASSUME NEW q \in [Index -> Entries], Compact(q), Injective(q),
           NEW s \in Slots, s \notin Members(q), q[PoolLen - 1] = NULL
    PROVE  Members(Push(q, s)) = Members(q) \cup {s}
<1>1. PoolLen - 1 \in Index
    BY PoolLenAssumption DEF Index
<1> DEFINE k == FirstNull(q)
<1>2. k \in Index /\ q[k] = NULL
    BY <1>1, FirstNullIsNull
<1>3. Push(q, s) = [q EXCEPT ![k] = s]
    BY <1>1 DEF Push
<1>4. s # NULL
    BY NullAssumption, PoolLenAssumption DEF Slots
<1> HIDE DEF k
<1>5. \A i \in Index : q[i] # NULL => Push(q, s)[i] = q[i]
    BY <1>2, <1>3
<1>6. Push(q, s)[k] = s
    BY <1>2, <1>3
<1>7. QED
    BY <1>2, <1>4, <1>5, <1>6, PushKeepsShape DEF Members

LEMMA SendQueues == ASSUME IInv, NEW n \in PayloadLens, Send(n) PROVE Queues!Next
<1> DEFINE s == FreeSlot
<1>1. /\ s \in Slots /\ free[s] /\ s \in Queues!Idle /\ s \notin Members(outputQueue)
      /\ s \notin Members(inputQueue) /\ outputQueue[PoolLen - 1] = NULL
    BY TakenSlot DEF Send
<1>2. /\ free' = [free EXCEPT ![s] = FALSE]
      /\ outputQueue' = Push(outputQueue, s) /\ inputQueue' = inputQueue
    BY DEF Send
<1> HIDE DEF s
<1>3. Contents(outputQueue)' = Append(Contents(outputQueue), s)
      /\ Members(outputQueue') = Members(outputQueue) \cup {s}
  <2>1. outputQueue \in [Index -> Entries] /\ Compact(outputQueue) /\ Injective(outputQueue)
      BY QueuesShape
  <2>2. Contents(Push(outputQueue, s)) = Append(Contents(outputQueue), s)
      BY <1>1, <2>1, ContentsOfPush
  <2>3. Members(Push(outputQueue, s)) = Members(outputQueue) \cup {s}
      BY <1>1, <2>1, PushedIsMember
  <2>4. Contents(outputQueue)' = Contents(Push(outputQueue, s))
      BY <1>2 DEF Contents
  <2>5. QED
      BY <1>2, <2>2, <2>3, <2>4
<1>4. Leaked' = Leaked
    BY <1>1, <1>2, <1>3 DEF Leaked, Queued, IInv, PoolTypeOK
<1>5. Contents(inputQueue)' = Contents(inputQueue)
    BY <1>2 DEF Contents
<1>6. Queues!Enqueue(s)
    BY <1>3, <1>4, <1>5 DEF Queues!Enqueue
<1>7. QED
    BY <1>1, <1>6 DEF Queues!Next

LEMMA ReceiveQueues == ASSUME IInv, Receive PROVE Queues!Next
<1> DEFINE s == FreeSlot
<1>1. /\ s \in Slots /\ free[s] /\ s \in Queues!Idle /\ s \notin Members(outputQueue)
      /\ s \notin Members(inputQueue) /\ inputQueue[PoolLen - 1] = NULL
    BY TakenSlot DEF Receive
<1>2. /\ free' = [free EXCEPT ![s] = FALSE]
      /\ inputQueue' = Push(inputQueue, s) /\ outputQueue' = outputQueue
    BY DEF Receive
<1> HIDE DEF s
<1>3. Contents(inputQueue)' = Append(Contents(inputQueue), s)
      /\ Members(inputQueue') = Members(inputQueue) \cup {s}
  <2>1. inputQueue \in [Index -> Entries] /\ Compact(inputQueue) /\ Injective(inputQueue)
      BY QueuesShape
  <2>2. Contents(Push(inputQueue, s)) = Append(Contents(inputQueue), s)
      BY <1>1, <2>1, ContentsOfPush
  <2>3. Members(Push(inputQueue, s)) = Members(inputQueue) \cup {s}
      BY <1>1, <2>1, PushedIsMember
  <2>4. Contents(inputQueue)' = Contents(Push(inputQueue, s))
      BY <1>2 DEF Contents
  <2>5. QED
      BY <1>2, <2>2, <2>3, <2>4
<1>4. Leaked' = Leaked
    BY <1>1, <1>2, <1>3 DEF Leaked, Queued, IInv, PoolTypeOK
<1>5. Contents(outputQueue)' = Contents(outputQueue)
    BY <1>2 DEF Contents
<1>6. Queues!Enqueue(s)
    BY <1>3, <1>4, <1>5 DEF Queues!Enqueue
<1>7. QED
    BY <1>1, <1>6 DEF Queues!Next

\* The slot of the head that is popped is idle again: it is not leaked.
LEMMA PopOutputQueues == ASSUME IInv, PopOutput PROVE Queues!Next \/ UNCHANGED Queues!vars
<1> DEFINE h == outputQueue[0]
<1>1. /\ free' = FreeAfterRelease(free, h) /\ outputQueue' = Shift(outputQueue)
      /\ inputQueue' = inputQueue
    BY DEF PopOutput
<1>2. Contents(inputQueue)' = Contents(inputQueue)
    BY <1>1 DEF Contents
<1>3. CASE h = NULL
  <2>1. free' = free /\ outputQueue' = outputQueue
      BY <1>1, <1>3, QueuesShape, ShiftOfEmpty DEF FreeAfterRelease
  <2>2. Contents(outputQueue)' = Contents(outputQueue) /\ Leaked' = Leaked
      BY <1>1, <2>1 DEF Contents, Leaked, Queued
  <2>3. QED
      BY <1>2, <2>2 DEF Queues!vars
<1>4. CASE h # NULL
  <2>1. h \in Slots /\ h \in Members(outputQueue)
      BY <1>4, QueuesShape, HeadIsMember
  <2>2. /\ Contents(outputQueue) # <<>>
        /\ Contents(outputQueue)' = Tail(Contents(outputQueue))
        /\ Members(outputQueue') = Members(outputQueue) \ {h}
    <3>1. outputQueue \in [Index -> Entries] /\ Compact(outputQueue)
          /\ Injective(outputQueue) /\ outputQueue[0] # NULL
        BY <1>4, QueuesShape
    <3>2. /\ Contents(outputQueue) # <<>>
          /\ Contents(Shift(outputQueue)) = Tail(Contents(outputQueue))
          /\ Members(Shift(outputQueue)) = Members(outputQueue) \ {outputQueue[0]}
        BY <3>1, ContentsOfShift
    <3>3. Contents(outputQueue)' = Contents(Shift(outputQueue))
        BY <1>1 DEF Contents
    <3>4. QED
        BY <1>1, <3>2, <3>3
  <2>3. free' = [free EXCEPT ![h] = TRUE]
      BY <1>1, <1>4 DEF FreeAfterRelease
  <2> HIDE DEF h
  <2>4. Leaked' = Leaked
      BY <1>1, <2>1, <2>2, <2>3 DEF Leaked, Queued, IInv, PoolTypeOK
  <2>5. QED
      BY <1>2, <2>2, <2>4 DEF Queues!Next, Queues!DequeueOut
<1>5. QED
    BY <1>3, <1>4

LEMMA PopInputQueues == ASSUME IInv, PopInput PROVE Queues!Next
<1> DEFINE h == inputQueue[0]
<1>1. /\ free' = FreeAfterRelease(free, h) /\ inputQueue' = Shift(inputQueue)
      /\ outputQueue' = outputQueue /\ h # NULL
    BY DEF PopInput
<1>2. Contents(outputQueue)' = Contents(outputQueue)
    BY <1>1 DEF Contents
<1>3. h \in Slots /\ h \in Members(inputQueue)
    BY <1>1, QueuesShape, HeadIsMember
<1>4. /\ Contents(inputQueue) # <<>> /\ Contents(inputQueue)' = Tail(Contents(inputQueue))
      /\ Members(inputQueue') = Members(inputQueue) \ {h}
    BY <1>1, QueuesShape, ContentsOfShift DEF Contents
<1>5. free' = [free EXCEPT ![h] = TRUE]
    BY <1>1 DEF FreeAfterRelease
<1> HIDE DEF h
<1>6. Leaked' = Leaked
    BY <1>1, <1>3, <1>4, <1>5 DEF Leaked, Queued, IInv, PoolTypeOK
<1>7. QED
    BY <1>2, <1>4, <1>6 DEF Queues!Next, Queues!DequeueIn

\* procesarGetConfiguracionNodos loses the slot that it took.
LEMMA PopInputGetConfiguracionQueues ==
    ASSUME IInv, PopInputGetConfiguracion PROVE Queues!Next
<1> DEFINE h == inputQueue[0]
           s == FreeSlot
<1>1. /\ free' = FreeAfterRelease([free EXCEPT ![s] = FALSE], h)
      /\ inputQueue' = Shift(inputQueue) /\ outputQueue' = outputQueue /\ h # NULL
    BY DEF PopInputGetConfiguracion
<1>2. /\ s \in Slots /\ free[s] /\ s \in Queues!Idle /\ s \notin Members(outputQueue)
      /\ s \notin Members(inputQueue)
    BY TakenSlot DEF PopInputGetConfiguracion
<1>3. Contents(outputQueue)' = Contents(outputQueue)
    BY <1>1 DEF Contents
<1>4. h \in Slots /\ h \in Members(inputQueue)
    BY <1>1, QueuesShape, HeadIsMember
<1>5. /\ Contents(inputQueue) # <<>> /\ Contents(inputQueue)' = Tail(Contents(inputQueue))
      /\ Members(inputQueue') = Members(inputQueue) \ {h}
    BY <1>1, QueuesShape, ContentsOfShift DEF Contents
<1>6. free' = [[free EXCEPT ![s] = FALSE] EXCEPT ![h] = TRUE]
    BY <1>1 DEF FreeAfterRelease
<1> HIDE DEF h, s
<1>7. \A t \in Slots : free'[t] = IF t = h THEN TRUE ELSE IF t = s THEN FALSE ELSE free[t]
    BY <1>2, <1>4, <1>6 DEF IInv, PoolTypeOK
<1>8. Leaked' = Leaked \cup {s}
    BY <1>1, <1>2, <1>4, <1>5, <1>7 DEF Leaked, Queued
<1>9. Queues!DequeueInLosing(s)
    BY <1>3, <1>5, <1>8 DEF Queues!DequeueInLosing
<1>10. QED
    BY <1>2, <1>9 DEF Queues!Next

\* messagePool_flushOutputQueue loses the slots of the output queue.
LEMMA FlushOutputQueues == ASSUME IInv, FlushOutput PROVE Queues!Next
<1>1. outputQueue' = EmptyQueue /\ free' = free /\ inputQueue' = inputQueue
      /\ Pending(outputQueue)
    BY DEF FlushOutput
<1>2. Contents(outputQueue)' = <<>> /\ Members(outputQueue') = {}
    BY <1>1, ContentsOfEmpty, EmptyQueueShape DEF Contents
<1>3. Contents(inputQueue)' = Contents(inputQueue)
    BY <1>1 DEF Contents
<1>4. Queues!Elements(Contents(outputQueue)) = Members(outputQueue)
    BY QueuesShape, ElementsOfContents
<1>5. Contents(outputQueue) # <<>>
  <2>1. Members(outputQueue) # {}
      BY <1>1 DEF Pending, Members
  <2>2. Queues!Elements(<<>>) = {}
      BY DEF Queues!Elements
  <2>3. QED
      BY <1>4, <2>1, <2>2
<1>6. Members(outputQueue) \cap Members(inputQueue) = {}
      /\ (\A s \in Members(outputQueue) : s \in Slots /\ ~free[s])
    BY QueuesShape DEF IInv, SlotOwnership, Queued, Members, Entries
<1>7. Leaked' = Leaked \cup Members(outputQueue)
    BY <1>1, <1>2, <1>6 DEF Leaked, Queued
<1>8. QED
    BY <1>2, <1>3, <1>4, <1>5, <1>7 DEF Queues!Next, Queues!Drop

LEMMA ReinitQueues == ASSUME Reinit PROVE Queues!Next
<1>1. /\ outputQueue' = EmptyQueue /\ inputQueue' = EmptyQueue
      /\ free' = [s \in Slots |-> TRUE]
    BY DEF Reinit
<1>2. Contents(outputQueue)' = <<>> /\ Contents(inputQueue)' = <<>>
    BY <1>1, ContentsOfEmpty DEF Contents
<1>3. Leaked' = {}
    BY <1>1 DEF Leaked
<1>4. QED
    BY <1>2, <1>3 DEF Queues!Next, Queues!Restart

\* Whatever its length, the pool is two FIFO queues of slots: no operation puts a slot
\* in a queue but at its end, takes it but from its head, or puts a slot out of
\* circulation except the flush, which loses the whole queue, and
\* procesarGetConfiguracionNodos, which loses one (MessagePoolManager.c).
THEOREM PoolBehavesAsQueues == PoolSpec => BehavesAsQueues
<1>1. PoolInit => Queues!Init
  <2> SUFFICES ASSUME PoolInit PROVE Queues!Init
      OBVIOUS
  <2>1. outputQueue = EmptyQueue /\ inputQueue = EmptyQueue /\ Leaked = {}
      BY DEF PoolInit, Leaked
  <2>2. QED
      BY <2>1, ContentsOfEmpty DEF Queues!Init
<1>2. IInv /\ [PoolNext]_poolVars => [Queues!Next]_(Queues!vars)
  <2> SUFFICES ASSUME IInv, [PoolNext]_poolVars
               PROVE  Queues!Next \/ UNCHANGED Queues!vars
      OBVIOUS
  <2>1. CASE UNCHANGED poolVars \/ ReceiveDuplicate
    <3>1. UNCHANGED <<free, outputQueue, inputQueue>>
        BY <2>1 DEF poolVars, ReceiveDuplicate
    <3>2. QED
        BY <3>1 DEF Queues!vars, Contents, Leaked, Queued
  <2>2. QED
      BY <2>1, SendQueues, ReceiveQueues, PopOutputQueues, PopInputQueues,
         PopInputGetConfiguracionQueues, FlushOutputQueues, ReinitQueues DEF PoolNext
<1>3. QED
    BY <1>1, <1>2, PoolInvariant, PTL DEF PoolSpec, BehavesAsQueues, Queues!Spec
============================================================================

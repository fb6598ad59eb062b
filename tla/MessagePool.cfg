\* The pool alone, with four slots: the queues fill up, slots pass from one
\* queue to the other, and one slot can be lost while the others circulate.
CONSTANTS
    PoolLen = 4
    NULL = NULL
    PayloadLens = {0, 2}
SPECIFICATION PoolSpec
INVARIANTS
    PoolTypeOK
    QueuesCompact
    SlotOwnership
    FreeSlotsClean
    PushNeverDrops
PROPERTY
    BehavesAsQueues

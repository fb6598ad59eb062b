\* Is every slot free or queued between two steps?
CONSTANTS
    PoolLen = 3
    NULL = NULL
    PayloadLens = {0}
SPECIFICATION PoolSpec
INVARIANT
    NoLeakedSlot

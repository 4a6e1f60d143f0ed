\* Three pairs of two slots, four handlers: full queues, overtaking, timeouts,
\* order between the pairs, and a fair event loop.
SPECIFICATION FairSpec
CONSTANTS
    N = 3
    Capacity = 7
    Task = {t1, t2, t3, t4}
INVARIANTS TypeOK NoLostWakeup NoLostSlot JoinCountsAll BoundedBypass
PROPERTIES EventuallyServed IsFairFifo

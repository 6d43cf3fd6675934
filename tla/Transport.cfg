SPECIFICATION Spec
CONSTANTS
    Ids = {t1, t2, t3}
    Streaming = {t1}
    Limit = 2
    Concurrent = 1
    Cells = {c1}
    None = None
INVARIANTS
    CounterCoversRings
    NeverUsedAfterFree
    ChunksHaveReader
PROPERTIES
    ImplementsReservations
    EveryTransferEnds
CHECK_DEADLOCK FALSE

SPECIFICATION Spec
CONSTANTS
    Ids = {i1, i2}
    Local = {l1}
    External = {e1}
    Results = {r1, r2}
    Capacity = 2
    MaxRevision = 12
INVARIANTS
    AcknowledgedIsDurable
    CommittedSnapshotRestorable
PROPERTIES
    EffectOnce
    LedgerNeverForgets
CHECK_DEADLOCK FALSE

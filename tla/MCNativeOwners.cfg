SPECIFICATION Spec
CONSTANTS
    Owners = {o1, o2}
    Names <- OneThread
    Registers = {r1}
    Attaches = {a1}
    Detaches = {d1}
    Removals = {m1}
    MaxEpoch = 2
    MaxGeneration = 2
    None = None
INVARIANTS
    ManagedHasCustody
    AttachedIsManaged
    CommittedSnapshotRestorable
    WorkKeepsAttachment
PROPERTIES
    FencedEpochAdmitsNothing
    RowsAreNeverRecycled
SYMMETRY Symmetry
CHECK_DEADLOCK FALSE

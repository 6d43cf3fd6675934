SPECIFICATION Spec
SYMMETRY Symmetry
CONSTANTS
    Accounts = {a1, a2}
    Keys = {k1, k2}
    Bindings = {b1}
    Demands = {d1}
    Capacity = 2
    MaxHandles = 2
    MaxImports = 1
    None = None
INVARIANTS
    AcceptedOnce
    CommittedSnapshotRestorable
    LeasesAreUncertainWork
PROPERTIES
    RouteFixedWhileUncertain
    ExposedOnlyWhenIssued
    AuthorityNeverRecycled

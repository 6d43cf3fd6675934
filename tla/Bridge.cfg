SPECIFICATION Spec
CONSTANTS
    Contexts = {c1}
    Sources = {s1, s2}
    Ids = {a, b}
    None = None
    MaxFaults = 2
INVARIANTS
    NeitherForgetsInOrder
    UnknownWorkIsStored
PROPERTIES
    PendingDisconnectEnds

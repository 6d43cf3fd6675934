SPECIFICATION Spec
CONSTANTS
    Owners = {o1}
    Names <- OneThread
    Registers = {r1}
    Attaches = {a1}
    Detaches = {d1}
    Removals = {m1}
    MaxEpoch = 2
    MaxGeneration = 1
    None = None
INVARIANTS
    AttachedOnlyWhileInstalled
CHECK_DEADLOCK FALSE

SPECIFICATION Spec
CONSTANTS
    Accounts = {a1, a2}
    Keys = {k1}
    Bindings = {b1}
    Demands = {d1}
    Capacity = 2
    MaxHandles = 2
    MaxImports = 1
    None = None
INVARIANT
    AbandonmentCoversUnresolved

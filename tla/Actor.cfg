SPECIFICATION Spec
CONSTANTS
    Inline = {p1}
    Discoveries = {}
    Removals = {m1}
    Announcements = {a1}
    Registrations = {}
    QueueCapacity = 2
    Capacity = 2
    Measurement = Measurement
    None = None
INVARIANTS
    EveryTaskOwnsOneJob
    ExitLeavesNothing
PROPERTIES
    CallbackKeepsItsSlot
    EveryCallFinishes
    StopTerminates
CHECK_DEADLOCK FALSE

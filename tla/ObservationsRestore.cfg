SPECIFICATION Spec
CONSTANTS
    Interval = 2
    Freshness = 4
    Latency = 1
    Span = 6
    Resets = {7, 8}
    Cooldowns = {2}
    MaxTime = 8
    MaxReports = 0
CHECK_DEADLOCK FALSE
INVARIANT
    CommittedListRestorable

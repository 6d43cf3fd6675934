SPECIFICATION Spec
CONSTANTS
    Interval = 2
    Freshness = 4
    Latency = 1
    Span = 6
    Resets = {5, 6, 11}
    Cooldowns = {2, 3}
    MaxTime = 9
    MaxReports = 2
CHECK_DEADLOCK FALSE
INVARIANTS
    EligibilityFollowsEvidence
    NewestSampleKept

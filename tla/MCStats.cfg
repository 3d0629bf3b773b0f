SPECIFICATION Spec
CONSTANTS
    Probes <- StatsProbes
    Messages <- MatchingMessages
    FieldRange = 2
    WORD = 16
    TIMEOUT_NS = 2
    SANITY_NS = 3
    NS_PER_MS = 2
    NS_PER_US = 1
    MaxClock = 4
    MaxEvents = 3
INVARIANTS TypeOK PendingGenuine LatencyLinesGenuine TimeoutsReal PendingConservation CountsConserved LedgersAgree
PROPERTY FirstKept

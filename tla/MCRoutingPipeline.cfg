SPECIFICATION PipeSpec
CONSTANTS
    Probes <- SendAndReceive
    Traffic <- OneCall
    Messages <- WithUnknown
    Capacity = 2
    FieldRange = 2
    WORD = 16
    TIMEOUT_NS = 0
    SANITY_NS = 1
    NS_PER_MS = 1
    NS_PER_US = 1
    MaxClock = 1
    MaxEvents = 3
INVARIANTS PendingRealUnlessUnread LatencyRealUnlessUnread
PROPERTY FeedsStats

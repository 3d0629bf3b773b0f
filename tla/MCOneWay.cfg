SPECIFICATION Spec
CONSTANTS
    Probes <- MatchingProbes
    Messages <- OneWayMessages
    FieldRange = 2
    WORD = 16
    TIMEOUT_NS = 2
    SANITY_NS = 3
    NS_PER_MS = 2
    NS_PER_US = 1
    MaxClock = 4
    MaxEvents = 2
INVARIANT TimeoutOnlyForRequests

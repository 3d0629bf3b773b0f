SPECIFICATION BenchSpec
CONSTANTS
    Probes <- MatchingProbes
    Messages <- BenchMessages
    FieldRange = 2
    WORD = 32
    TIMEOUT_NS = 16
    SANITY_NS = 16
    NS_PER_MS = 4
    NS_PER_US = 2
    MaxClock = 8
    MaxEvents = 208
    Values = {1, 2, 5, 8}
    Fillers = {0, 1, 98, 100}
    MaxCalls = 4
PROPERTIES PercentilesByCount SummaryConsistent

SPECIFICATION FairSpec
CONSTANTS
    Programs <- SameNames
    FileGroups <- TwoGroups
    GroupHooks <- TwoTables
    ConsumeMax = 2
    MaxSignals = 2
INVARIANTS TypeOK AllOwned CleanExit NoStaleCollector WatchedUnlessRefused
PROPERTIES RunsDown NoRingSkipped SignalInLoopStops ReadyIsPolled

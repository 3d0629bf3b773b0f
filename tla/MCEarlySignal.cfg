SPECIFICATION FairSpec
CONSTANTS
    Programs <- SameNames
    FileGroups <- TwoGroups
    GroupHooks <- TwoTables
    ConsumeMax = 2
    MaxSignals = 1
PROPERTY SignalStops

SPECIFICATION FairSpec
CONSTANTS
    t1 = t1
    t2 = t2
    Threads <- TwoThreads
    Capacity = 2
    MaxHits = 3
    ConsumeMax = 2
INVARIANTS TypeOK NoLostWakeup SlotsDisjoint NothingLeftBehind
PROPERTIES IsLossyFifo CallRunsDown EveryRecordDelivered

SPECIFICATION FairSpec
CONSTANTS
    w1 = w1
    w2 = w2
    NoWorker = NoWorker
    Workers <- MCWorkers
    Registry <- OneJobRegistry
    Interval <- OneJobInterval
    MaxTime = 2
    MaxCrashes = 1
    MaxDrops = 1
PROPERTIES
    OrphanReconciled

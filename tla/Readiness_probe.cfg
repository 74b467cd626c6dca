SPECIFICATION FairSpec
CONSTANTS
    t1 = t1  t2 = t2  NoJob = NoJob
    PoolThreads = {t1, t2}
    MaxQueue = 3
INVARIANTS
    TypeOK
    ReadyMeansWarm
    PingsFresh
PROPERTIES
    ProbeEnds
    Recovers
